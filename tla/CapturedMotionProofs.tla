-------------------------- MODULE CapturedMotionProofs --------------------------
(***************************************************************************)
(* Theorems about CapturedMotion, for any number of processes that move    *)
(* the machine.  What Motion does is taken from the lemmas of MotionProofs.*)
(***************************************************************************)
EXTENDS CapturedMotion, MotionProofs

-----------------------------------------------------------------------------
(* Type correctness.                                                       *)

LEMMA NoFrameTyped == NoFrame \in Frames
<1>1. 0 \in Axes /\ 0 \in Nat
  BY MachineAssumption DEF Axes
<1>2. Origin \in [Axes -> Int] /\ Origin \in [Axes -> Nat]
  BY DEF Origin
<1>. QED  BY <1>1, <1>2 DEF NoFrame, Frames

\* The histories are sets of movers.
LEMMA RecordedMovers == \A history, moves : Recorded(history, moves) \subseteq Movers
BY DEF Recorded, Moving

LEMMA HistoryTyped ==
  ASSUME CaptureTypes, Cross \/ NoneRecorded \/ UNCHANGED historyVars
  PROVE  torn' \subseteq Movers /\ tampered' \subseteq Movers /\ crossed' \subseteq Movers
BY RecordedMovers DEF CaptureTypes, Cross, NoneRecorded, historyVars

LEMMA CapturedTypeStarts == CapturedInit => CapturedTypeOK
<1>. SUFFICES ASSUME CapturedInit PROVE CapturedTypeOK
  OBVIOUS
<1>1. TypeOK
  BY TypeInit DEF CapturedInit
<1>2. saved \in [Movers -> Frames]
  BY NoFrameTyped DEF CapturedInit
<1>. QED  BY <1>1, <1>2 DEF CapturedInit, CapturedTypeOK, CaptureTypes

\* Opening and closing /dev/cnc, and turning capture on and off.
LEMMA DeviceTyped ==
  ASSUME CapturedTypeOK,
         \/ \E p \in Programs : OpenDevice(p) \/ CloseDevice(p)
         \/ \E on \in BOOLEAN : SetCaptureMode(on)
  PROVE  CapturedTypeOK'
<1>1. UseDevice /\ who' = who /\ saved' = saved
  BY DEF OpenDevice, CloseDevice, SetCaptureMode
<1>2. TypeOK'
  BY <1>1, FrameTypes DEF UseDevice, CapturedTypeOK, TypeOK, pollVars
<1>3. opened' \subseteq Programs /\ capture' \in BOOLEAN
  BY DEF OpenDevice, CloseDevice, SetCaptureMode, StopCapture, CapturedTypeOK, CaptureTypes
<1>4. torn' \subseteq Movers /\ tampered' \subseteq Movers /\ crossed' \subseteq Movers
  BY RecordedMovers DEF OpenDevice, CloseDevice, SetCaptureMode, StopCapture, CapturedTypeOK,
                        CaptureTypes, historyVars
<1>. QED  BY <1>1, <1>2, <1>3, <1>4 DEF CapturedTypeOK, CaptureTypes

\* Redefining cnc_pos and the timings.
LEMMA TamperTyped ==
  ASSUME CapturedTypeOK,
         \/ \E v \in Targets : DeviceSetPos(v)
         \/ \E hz \in BOOLEAN : DeviceSetTimings(hz)
  PROVE  CapturedTypeOK'
<1>1. TypeOK'
  BY SyscallsType DEF DeviceSetPos, DeviceSetTimings, Syscalls, CapturedTypeOK
<1>2. UNCHANGED <<deviceVars, who, saved>>
  BY DEF DeviceSetPos, DeviceSetTimings
<1>3. torn' \subseteq Movers /\ tampered' \subseteq Movers /\ crossed' \subseteq Movers
  BY RecordedMovers DEF DeviceSetPos, DeviceSetTimings, Tamper, CapturedTypeOK, CaptureTypes
<1>. QED  BY <1>1, <1>2, <1>3 DEF CapturedTypeOK, CaptureTypes, deviceVars

LEMMA BeginTyped ==
  ASSUME CapturedTypeOK, NEW m \in Movers, NEW v \in Targets, BeginMove(m, v)
  PROVE  CapturedTypeOK'
<1>1. TypeOK'
  BY CncMoveType DEF BeginMove, CapturedTypeOK
<1>. QED  BY <1>1 DEF BeginMove, CapturedTypeOK, CaptureTypes, deviceVars, historyVars

LEMMA PauseTyped == ASSUME CapturedTypeOK, Pause PROVE CapturedTypeOK'
<1>. USE DEF CapturedTypeOK
<1>0. PICK share \in Interpolations(inc) :
         /\ IncAxes(StepsOf(share))
         /\ saved' = [saved EXCEPT ![who] = Frame(inc + 1, share)]
  BY DEF Pause
<1>1. ServoTypes'
  <2>1. StepsOf(share) \in [Axes -> {-1, 0, 1}]
    BY StepsOfType
  <2>. QED  BY <1>0, <2>1, IncAxesType DEF TypeOK
<1>2. EstopTypes' /\ WorldTypes' /\ MoveTypes'
  BY FrameTypes, NoMoveType DEF Pause
<1>3. PollTypes' /\ CallTypes'
  BY EstopAssumption DEF Pause, TypeOK, PollTypes, CallTypes
<1>4. saved' \in [Movers -> Frames]
  <2>1. inc \in Nat /\ share \in [Axes -> Nat]
    BY InterpolationsType DEF TypeOK, MoveTypes
  <2>2. Frame(inc + 1, share) \in Frames
    BY <2>1 DEF Frame, Frames, TypeOK, MoveTypes
  <2>. QED  BY <1>0, <2>2 DEF CaptureTypes
<1>5. torn' \subseteq Movers /\ tampered' \subseteq Movers /\ crossed' \subseteq Movers
  BY HistoryTyped DEF Pause
<1>. QED
  BY <1>1, <1>2, <1>3, <1>4, <1>5 DEF Pause, TypeOK, CaptureTypes, deviceVars

LEMMA ResumeTyped == ASSUME CapturedTypeOK, NEW m \in Movers, Resume(m) PROVE CapturedTypeOK'
<1>. USE DEF CapturedTypeOK
<1>. DEFINE f == saved[m]
<1>1. ServoTypes' /\ EstopTypes' /\ WorldTypes' /\ calibrated' \in BOOLEAN
  BY FrameTypes DEF Resume, TypeOK, CallTypes
<1>2. f \in Frames
  BY DEF CaptureTypes
<1>3. MoveTypes' /\ PollTypes' /\ CallTypes'
  <2>1. CASE /\ call' = "cncmove" /\ result' = "none"
             /\ from' = f.from /\ tgt' = f.tgt /\ major' = f.major /\ dt' = f.dt /\ inc' = f.inc
             /\ due' = f.due /\ BeginPoll
    <3>1. MoveTypes'
      BY <2>1, <1>2 DEF Frames, MoveTypes
    <3>2. CallTypes'
      BY <2>1, <1>1 DEF CallTypes
    <3>. QED  BY <3>1, <3>2, <2>1, BeginPollType
  <2>2. CASE Return("0")
    BY <2>2, <1>1, ReturnType
  <2>. QED  BY <2>1, <2>2 DEF Resume
<1>4. saved' \in [Movers -> Frames]
  BY NoFrameTyped DEF Resume, CaptureTypes
<1>5. torn' \subseteq Movers /\ tampered' \subseteq Movers /\ crossed' \subseteq Movers
  BY HistoryTyped DEF Resume
<1>. QED
  BY <1>1, <1>3, <1>4, <1>5 DEF Resume, TypeOK, CaptureTypes, deviceVars

LEMMA CapturedTypeKept == ASSUME CapturedTypeOK, [CapturedNext]_capturedVars PROVE CapturedTypeOK'
<1>1. CASE Polls /\ UNCHANGED <<deviceVars, who, saved>> /\ NoneRecorded
  <2>1. TypeOK'
    BY <1>1, KernelType, WorldType DEF Polls, Kernel, CapturedTypeOK
  <2>2. torn' \subseteq Movers /\ tampered' \subseteq Movers /\ crossed' \subseteq Movers
    BY <1>1, HistoryTyped DEF CapturedTypeOK
  <2>. QED  BY <2>1, <2>2, <1>1 DEF CapturedTypeOK, CaptureTypes, deviceVars
<1>2. CASE RunOn
  <2>1. TypeOK'
    BY <1>2, StepType DEF RunOn, CapturedTypeOK
  <2>2. torn' \subseteq Movers /\ tampered' \subseteq Movers /\ crossed' \subseteq Movers
    BY <1>2, HistoryTyped DEF RunOn, CapturedTypeOK
  <2>. QED  BY <2>1, <2>2, <1>2 DEF RunOn, CapturedTypeOK, CaptureTypes, deviceVars
<1>3. CASE UNCHANGED capturedVars
  <2>1. TypeOK'
    BY <1>3, StutterType DEF capturedVars, CapturedTypeOK
  <2>. QED  BY <2>1, <1>3
            DEF capturedVars, captureVars, CapturedTypeOK, CaptureTypes, deviceVars, historyVars
<1>. QED
  BY <1>1, <1>2, <1>3, DeviceTyped, TamperTyped, BeginTyped, PauseTyped, ResumeTyped
     DEF CapturedNext

\* Whoever moves the machine, and however often a move sleeps, every variable
\* has its type.
THEOREM CapturedTyping == CapturedSpec => []CapturedTypeOK
<1>1. QED
  BY CapturedTypeStarts, CapturedTypeKept, PTL DEF CapturedSpec
-----------------------------------------------------------------------------
(* Dead reckoning.                                                         *)

LEMMA CapturedServos ==
  ASSUME [CapturedNext]_capturedVars
  PROVE  \/ \E share \in Interpolations(inc) : IncAxes(StepsOf(share))
         \/ UNCHANGED <<scDir, dirPin, slip>>
BY DEF CapturedNext, Polls, PollLow, PollDebounce, PollRaised, World, Press, Release, OpenDevice,
       CloseDevice, SetCaptureMode, UseDevice, DeviceSetPos, SetPos, DeviceSetTimings, SetTimings,
       BeginMove, CncMove, Resume, RunOn, Step, Pause, capturedVars, vars, servoVars

\* However moves interleave, the motors have travelled what cnc_pos counts.
THEOREM CapturedReckoning == CapturedSpec => []DeadReckoning
<1>1. CapturedInit => SenseShown /\ DeadReckoning
  BY DEF CapturedInit, Init, SenseShown, DeadReckoning, Origin
<1>2. CapturedTypeOK /\ SenseShown /\ DeadReckoning /\ [CapturedNext]_capturedVars
        => SenseShown' /\ DeadReckoning'
  <2>. SUFFICES ASSUME CapturedTypeOK, SenseShown, DeadReckoning, [CapturedNext]_capturedVars
                PROVE  SenseShown' /\ DeadReckoning'
    OBVIOUS
  <2>1. TypeOK /\ \A share : StepsOf(share) \in [Axes -> {-1, 0, 1}]
    BY StepsOfType DEF CapturedTypeOK
  <2>2. ASSUME NEW share \in Interpolations(inc), IncAxes(StepsOf(share))
        PROVE  SenseShown' /\ DeadReckoning'
    BY <2>1, <2>2, IncAxesReckoned
  <2>3. CASE UNCHANGED <<scDir, dirPin, slip>>
    BY <2>3 DEF SenseShown, DeadReckoning
  <2>. QED  BY <2>2, <2>3, CapturedServos
<1>3. QED
  BY <1>1, <1>2, CapturedTyping, PTL DEF CapturedSpec
-----------------------------------------------------------------------------
(* Tampering.                                                              *)

\* One program has the device, and capture is on for motioncap alone.
DeviceInv == /\ \A p, q \in opened : p = q
             /\ capture => "motioncap" \in opened

\* A move sleeps because capture is on, or was when it fell asleep.
SleepInv == \A m \in Movers : Asleep(m) => capture \/ m \in torn

HistoryInv == torn \subseteq Moving /\ tampered \subseteq torn

TamperInv == DeviceInv /\ SleepInv /\ HistoryInv

\* The moves in progress when the processes and the call stay as they are.
LEMMA MovingStays == ASSUME UNCHANGED <<saved, call, who>> PROVE Moving' = Moving
BY DEF Moving, Asleep

\* A step that only forgets the moves that ended.
LEMMA Forgets ==
  ASSUME HistoryInv, torn' = Recorded(torn, {}), tampered' = Recorded(tampered, {})
  PROVE  HistoryInv' /\ \A m \in Moving' : m \in torn => m \in torn'
BY DEF HistoryInv, Recorded

LEMMA TamperStep ==
  ASSUME CapturedTypeOK, TamperInv, [CapturedNext]_capturedVars
  PROVE  TamperInv'
<1>. USE DEF TamperInv
<1>0. \A m \in Movers : Asleep(m)' => m \in Moving'
  BY DEF Moving
<1>1. CASE /\ UNCHANGED <<deviceVars>> /\ (saved' = saved \/ \E m \in Movers : Resume(m))
           /\ NoneRecorded \/ Cross
  <2>1. HistoryInv' /\ \A m \in Moving' : m \in torn => m \in torn'
    BY <1>1, Forgets DEF NoneRecorded, Cross
  <2>2. \A m \in Movers : Asleep(m)' => Asleep(m)
    BY <1>1 DEF Resume, Asleep, CapturedTypeOK, CaptureTypes
  <2>. QED  BY <2>1, <2>2, <1>0, <1>1 DEF DeviceInv, SleepInv, deviceVars
<1>2. CASE Pause
  <2>1. HistoryInv' /\ capture' = capture /\ opened' = opened /\ capture
    BY <1>2, Forgets DEF Pause, Cross, deviceVars
  <2>. QED  BY <2>1 DEF DeviceInv, SleepInv
<1>3. ASSUME NEW p \in Programs, OpenDevice(p) PROVE TamperInv'
  <2>1. Moving' = Moving /\ UNCHANGED <<saved, torn, tampered, capture>> /\ opened' = {p} /\ ~capture
    BY <1>3, MovingStays DEF OpenDevice, UseDevice, historyVars, DeviceInv
  <2>. QED  BY <2>1 DEF DeviceInv, SleepInv, HistoryInv, Asleep
<1>4. ASSUME StopCapture, opened' \subseteq opened, UseDevice, UNCHANGED <<who, saved, tampered>>
      PROVE  TamperInv'
  <2>1. Moving' = Moving /\ saved' = saved /\ ~capture'
        /\ torn' = torn \cup (IF capture THEN Moving ELSE {})
    BY <1>4, MovingStays DEF StopCapture, UseDevice, Recorded, HistoryInv
  <2>2. SleepInv'
    BY <2>1 DEF SleepInv, Asleep, Moving
  <2>. QED  BY <2>1, <2>2, <1>4 DEF DeviceInv, HistoryInv
<1>5. ASSUME NEW p \in Programs, CloseDevice(p) PROVE TamperInv'
  BY <1>4, <1>5 DEF CloseDevice
<1>6. ASSUME NEW on \in BOOLEAN, SetCaptureMode(on) PROVE TamperInv'
  <2>1. CASE on
    <3>1. Moving' = Moving /\ UNCHANGED <<saved, torn, tampered, opened>>
          /\ capture' /\ "motioncap" \in opened
      BY <2>1, <1>6, MovingStays DEF SetCaptureMode, UseDevice
    <3>. QED  BY <3>1 DEF DeviceInv, SleepInv, HistoryInv
  <2>2. CASE ~on
    BY <2>2, <1>4, <1>6 DEF SetCaptureMode
  <2>. QED  BY <2>1, <2>2
<1>7. ASSUME Tamper, "cncctl" \in opened, call = "none", UNCHANGED <<deviceVars, call, who, saved, torn>>
      PROVE  TamperInv'
  <2>1. ~capture /\ opened' = opened /\ capture' = capture
    BY <1>7 DEF DeviceInv, deviceVars
  <2>2. Moving' = Moving /\ Moving \subseteq torn
    BY <2>1, <1>7, MovingStays DEF SleepInv, Moving
  <2>3. tampered' \subseteq torn'
    BY <2>2, <1>7 DEF Tamper, Recorded
  <2>. QED  BY <2>1, <2>2, <2>3, <1>7 DEF DeviceInv, SleepInv, HistoryInv, Asleep
<1>8. ASSUME \/ \E v \in Targets : DeviceSetPos(v)
             \/ \E hz \in BOOLEAN : DeviceSetTimings(hz)
      PROVE  TamperInv'
  BY <1>7, <1>8 DEF DeviceSetPos, DeviceSetTimings, SetPos, SetTimings, Idle
<1>9. ASSUME NEW m \in Movers, NEW v \in Targets, BeginMove(m, v) PROVE TamperInv'
  <2>1. call = "none" /\ UNCHANGED <<deviceVars, saved, torn, tampered>>
    BY <1>9 DEF BeginMove, CncMove, historyVars
  <2>2. Moving \subseteq Moving'
    BY <2>1 DEF Moving, Asleep
  <2>. QED  BY <2>1, <2>2 DEF DeviceInv, SleepInv, HistoryInv, Asleep, deviceVars
<1>10. CASE UNCHANGED capturedVars
  <2>1. Moving' = Moving /\ UNCHANGED <<saved, torn, tampered, opened, capture>>
    BY <1>10, MovingStays DEF capturedVars, vars, captureVars, deviceVars, historyVars
  <2>. QED  BY <2>1 DEF DeviceInv, SleepInv, HistoryInv, Asleep
<1>11. CASE Polls /\ UNCHANGED <<deviceVars, who, saved>> /\ NoneRecorded
  BY <1>1, <1>11
<1>12. CASE RunOn
  BY <1>1, <1>12 DEF RunOn
<1>13. ASSUME NEW m \in Movers, Resume(m) PROVE TamperInv'
  BY <1>1, <1>13 DEF Resume
<1>. QED
  BY <1>2, <1>3, <1>5, <1>6, <1>8, <1>9, <1>10, <1>11, <1>12, <1>13 DEF CapturedNext

\* Nobody redefines cnc_pos or the timings under a captured move, whatever
\* programs come and go at /dev/cnc, before capture was taken away from it.
THEOREM NotTampered == CapturedSpec => []TamperedWhenTorn
<1>1. CapturedInit => TamperInv
  BY DEF CapturedInit, Init, TamperInv, DeviceInv, SleepInv, HistoryInv, Asleep
<1>2. TamperInv => TamperedWhenTorn
  BY DEF TamperInv, HistoryInv, TamperedWhenTorn
<1>3. QED
  BY <1>1, <1>2, TamperStep, CapturedTyping, PTL DEF CapturedSpec
-----------------------------------------------------------------------------
(* A move that nobody crosses stays behind its line.                       *)

\* p is where a move with stack f expects the machine.
Course(f, p) ==
  /\ Leads(f.major, f.from, f.tgt)
  /\ f.dt \in StepTimes
  /\ p[f.major] = f.from[f.major] + Sense(f, f.major) * f.inc
  /\ \A i \in Axes \ {f.major} :
       /\ Sense(f, i) * (p[i] - f.from[i]) \in 0 .. f.due[i]
       /\ f.due[i] * Travel(f.major, f.from, f.tgt) <= Travel(i, f.from, f.tgt) * f.inc

\* The move that has the processor is awake, and it and those asleep are on
\* course unless something crossed them.
RunningInv ==
  call = "cncmove" => /\ ~Asleep(who)
                      /\ inc < Travel(major, from, tgt)
                      /\ who \notin crossed => Course(Frame(inc, due), pos)

SleepersInv == \A m \in Movers \ crossed : Asleep(m) => Course(saved[m], pos)

\* The stack of the move that has the processor is Motion's variables.
LEMMA FrameMeans ==
  ASSUME NEW k, NEW share
  PROVE  /\ \A i \in Axes : Sense(Frame(k, share), i) = Dir(i)
         /\ Frame(k, share).inc = k /\ Frame(k, share).due = share
         /\ Frame(k, share).major = major /\ Frame(k, share).from = from
         /\ Frame(k, share).tgt = tgt /\ Frame(k, share).dt = dt
BY DEF Frame, Sense, Dir

\* To be on course is what Motion calls MoveInv.
LEMMA CourseMove ==
  ASSUME TypeOK, call = "cncmove", inc < Travel(major, from, tgt),
         Course(Frame(inc, due), pos)
  PROVE  MoveInv
<1>1. major \in Axes
  BY DEF TypeOK, MoveTypes
<1>2. /\ Leads(major, from, tgt) /\ dt \in StepTimes
      /\ pos[major] = from[major] + Dir(major) * inc
  BY <1>1, FrameMeans DEF Course
<1>3. ASSUME NEW i \in Axes \ {major}
      PROVE  /\ Dir(i) * (pos[i] - from[i]) \in 0 .. due[i]
             /\ due[i] * Travel(major, from, tgt) <= Travel(i, from, tgt) * inc
  BY FrameMeans DEF Course
<1>. QED  BY <1>2, <1>3 DEF MoveInv

\* On course the machine is behind the line.
LEMMA CourseBehind ==
  ASSUME TypeOK, NEW f \in Frames, Course(f, pos)
  PROVE  Behind(f)
<1>. SUFFICES ASSUME NEW i \in Axes
              PROVE  Sense(f, i) * (pos[i] - f.from[i]) * Travel(f.major, f.from, f.tgt)
                       <= Travel(i, f.from, f.tgt) * f.inc
  BY DEF Behind, Course
<1>. DEFINE made == Sense(f, i) * (pos[i] - f.from[i])
            L == Travel(f.major, f.from, f.tgt)
            T == Travel(i, f.from, f.tgt) * f.inc
<1>1. /\ f.major \in Axes /\ f.inc \in Nat /\ f.due[i] \in Nat
      /\ pos[i] \in Int /\ f.from[i] \in Int /\ Sense(f, i) \in {-1, 1}
      /\ Travel(i, f.from, f.tgt) \in Nat /\ L \in Nat
  BY DEF TypeOK, ServoTypes, Frames, Sense, Travel, AbsInt
<1>2. T \in Nat
  BY <1>1
<1>3. CASE i = f.major
  <2>1. made = f.inc
    BY <1>1, <1>3 DEF Course
  <2>. QED  BY <1>1, <1>3, <2>1
<1>4. CASE i # f.major
  <2>1. made \in Nat /\ made <= f.due[i] /\ f.due[i] * L <= T
    BY <1>1, <1>4 DEF Course
  <2>. HIDE DEF made, L, T
  <2>2. made * L <= f.due[i] * L /\ made * L \in Nat /\ f.due[i] * L \in Nat
    BY <1>1, <2>1, ProductMonotone
  <2>3. made * L <= T
    BY <1>2, <2>1, <2>2
  <2>. QED  BY <2>3 DEF made, L, T
<1>. QED  BY <1>3, <1>4

\* An iteration keeps its move on course.
LEMMA CourseStep ==
  ASSUME TypeOK, Timely, call = "cncmove", inc < Travel(major, from, tgt),
         Course(Frame(inc, due), pos),
         NEW share \in Interpolations(inc), IncAxes(StepsOf(share))
  PROVE  Course(Frame(inc + 1, share), pos')
<1>1. MoveInv /\ major \in Axes
  BY CourseMove DEF TypeOK, MoveTypes
<1>2. /\ pos'[major] = from[major] + Dir(major) * (inc + 1)
      /\ \A i \in Axes \ {major} :
           /\ Dir(i) * (pos'[i] - from[i]) \in 0 .. share[i]
           /\ share[i] * Travel(major, from, tgt) <= Travel(i, from, tgt) * (inc + 1)
  BY <1>1, AfterIteration
<1>3. Leads(major, from, tgt) /\ dt \in StepTimes
  BY <1>1 DEF MoveInv
<1>. QED  BY <1>1, <1>2, <1>3, FrameMeans DEF Course

\* A move that begins is on course.
LEMMA CourseBegins ==
  ASSUME TypeOK, TypeOK', NEW v \in Targets, Begins(v)
  PROVE  inc' < Travel(major', from', tgt') /\ Course(Frame(inc, due)', pos')
<1>1. inc' < Travel(major', from', tgt')
  BY MoveBegin DEF MoveInv, Begins
<1>2. pos \in [Axes -> Int] /\ inc' = 0 /\ due' = Origin /\ from' = pos /\ pos' = pos
  BY DEF Begins, TypeOK, ServoTypes
<1>3. Leads(major', from', tgt') /\ dt' \in StepTimes /\ major' \in Axes
  BY DEF Begins
<1>4. Frame(inc, due)' = [from |-> from', tgt |-> tgt', major |-> major', dt |-> dt',
                          inc |-> inc', due |-> due']
  BY DEF Frame
<1>5. \A i \in Axes : Travel(i, from', tgt') \in Int
  BY <1>2 DEF TypeOK, MoveTypes, Travel, AbsInt
<1>. QED  BY <1>1, <1>2, <1>3, <1>4, <1>5 DEF Course, Sense, Origin

\* A history loses only moves that have ended.
LEMMA Remembered ==
  ASSUME NEW moves, crossed' = Recorded(crossed, moves), NEW m \in Moving', m \notin crossed'
  PROVE  m \notin crossed /\ m \notin moves
BY DEF Recorded

\* A step that leaves cnc_pos and the moves alone leaves them on course.
LEMMA CourseStays ==
  ASSUME RunningInv, SleepersInv, UNCHANGED <<pos, moveVars, call, who, saved>>,
         \A m \in Moving' : m \in crossed => m \in crossed', CapturedTypeOK
  PROVE  RunningInv' /\ SleepersInv'
<1>1. call = "cncmove" => who \in Moving'
  BY DEF Moving, CapturedTypeOK, CaptureTypes
<1>2. Frame(inc, due)' = Frame(inc, due)
  BY DEF Frame, moveVars
<1>3. \A m \in Movers : Asleep(m)' = Asleep(m) /\ (Asleep(m) => m \in Moving')
  BY DEF Asleep, Moving
<1>4. RunningInv'
  <2>. SUFFICES ASSUME call' = "cncmove"
                PROVE  /\ ~Asleep(who)'
                       /\ inc' < Travel(major', from', tgt')
                       /\ who' \notin crossed' => Course(Frame(inc, due)', pos')
    BY DEF RunningInv
  <2>1. call = "cncmove" /\ who' = who /\ saved' = saved
    OBVIOUS
  <2>2. ~Asleep(who)'
    BY <2>1 DEF RunningInv, Asleep
  <2>3. who' \notin crossed' => Course(Frame(inc, due)', pos')
    BY <1>1, <1>2, <2>1 DEF RunningInv
  <2>. QED  BY <2>1, <2>2, <2>3 DEF RunningInv, moveVars
<1>5. SleepersInv'
  BY <1>3 DEF SleepersInv
<1>. QED  BY <1>4, <1>5

\* Nobody runs, and the sleepers sleep on or are crossed.
LEMMA CourseSleeps ==
  ASSUME SleepersInv, call' # "cncmove",
         \A m \in Movers : Asleep(m)' /\ m \notin crossed'
                             => /\ m \notin crossed
                                /\ saved'[m] = saved[m] /\ pos' = pos
  PROVE  RunningInv' /\ SleepersInv'
BY DEF RunningInv, SleepersInv, Asleep

\* The move that runs stays on course; those asleep beside it are crossed.
LEMMA CourseRuns ==
  ASSUME CapturedTypeOK, Timely, RunningInv, SleepersInv, RunOn \/ Pause
  PROVE  RunningInv' /\ SleepersInv'
<1>1. call = "cncmove" /\ who' = who /\ ~Asleep(who)
      /\ crossed' = Recorded(crossed, Moving \ {who})
  BY DEF RunOn, Pause, Step, Cross, RunningInv
<1>2. TypeOK /\ who \in Movers /\ inc < Travel(major, from, tgt) /\ inc \in Nat
      /\ saved \in [Movers -> Frames]
  BY <1>1 DEF CapturedTypeOK, CaptureTypes, RunningInv, TypeOK, MoveTypes
<1>3. ASSUME NEW share \in Interpolations(inc), IncAxes(StepsOf(share))
      PROVE  who \notin crossed => Course(Frame(inc + 1, share), pos')
  BY <1>1, <1>2, <1>3, CourseStep DEF RunningInv
<1>4. \A m \in Movers : m # who /\ Asleep(m)' => m \in crossed'
  <2>1. ASSUME NEW m \in Movers, m # who, Asleep(m)' PROVE m \in crossed'
    <3>1. saved'[m] = saved[m]
      BY <2>1, <1>2 DEF RunOn, Pause
    <3>2. m \in Moving /\ m \in Moving'
      BY <3>1, <2>1 DEF Moving, Asleep
    <3>. QED  BY <3>2, <2>1, <1>1 DEF Recorded
  <2>. QED  BY <2>1
<1>5. CASE RunOn
  <2>1. saved' = saved /\ ~Asleep(who)'
    BY <1>1, <1>5 DEF RunOn, Asleep
  <2>2. SleepersInv'
    BY <1>1, <1>4, <2>1 DEF SleepersInv
  <2>3. CASE call' = "cncmove"
    <3>1. PICK share \in Interpolations(inc) :
            /\ IncAxes(StepsOf(share))
            /\ inc + 1 < Travel(major, from, tgt)
            /\ inc' = inc + 1 /\ due' = share /\ UNCHANGED <<from, tgt, major, dt>>
      BY <1>5, <2>3 DEF RunOn, Step, Return
    <3>2. Frame(inc, due)' = Frame(inc + 1, share)
      BY <3>1 DEF Frame
    <3>3. who \in Moving'
      BY <1>1, <1>2, <2>3 DEF Moving
    <3>4. who \notin crossed' => who \notin crossed
      BY <1>1, <3>3, Remembered
    <3>5. who \notin crossed => Course(Frame(inc + 1, share), pos')
      BY <1>3, <3>1
    <3>. QED  BY <1>1, <2>1, <2>2, <3>1, <3>2, <3>4, <3>5 DEF RunningInv
  <2>. QED  BY <2>2, <2>3 DEF RunningInv
<1>6. CASE Pause
  <2>1. PICK share \in Interpolations(inc) :
          /\ IncAxes(StepsOf(share))
          /\ saved' = [saved EXCEPT ![who] = Frame(inc + 1, share)]
    BY <1>6 DEF Pause
  <2>2. call' = "none" /\ saved'[who] = Frame(inc + 1, share)
    BY <1>2, <1>6, <2>1 DEF Pause
  <2>3. Asleep(who)' => (who \notin crossed' => who \notin crossed)
    <3>1. Asleep(who)' => who \in Moving'
      BY <1>1, <1>2 DEF Moving
    <3>. QED  BY <1>1, <3>1, Remembered
  <2>4. who \notin crossed => Course(Frame(inc + 1, share), pos')
    BY <1>3, <2>1
  <2>5. \A m \in Movers \ crossed' : Asleep(m)' => Course(saved'[m], pos')
    BY <1>1, <1>4, <2>2, <2>3, <2>4
  <2>. QED  BY <2>2, <2>5 DEF RunningInv, SleepersInv
<1>. QED  BY <1>5, <1>6

LEMMA CourseResumes ==
  ASSUME CapturedTypeOK, SleepersInv, NEW m \in Movers, Resume(m)
  PROVE  RunningInv' /\ SleepersInv'
<1>. DEFINE f == saved[m]
<1>1. /\ f \in Frames /\ saved \in [Movers -> Frames] /\ who' = m /\ pos' = pos
      /\ crossed' = Recorded(crossed, {})
  BY DEF Resume, NoneRecorded, CapturedTypeOK, CaptureTypes, servoVars
<1>2. saved'[m] = NoFrame /\ ~Asleep(m)' /\ \A n \in Movers : n # m => saved'[n] = saved[n]
  BY <1>1 DEF Resume, Asleep
<1>3. SleepersInv'
  <2>1. ASSUME NEW n \in Movers \ crossed', Asleep(n)' PROVE Course(saved'[n], pos')
    <3>1. n # m /\ saved'[n] = saved[n] /\ Asleep(n)
      BY <1>2, <2>1 DEF Asleep
    <3>2. n \in Moving'
      BY <2>1 DEF Moving
    <3>. QED  BY <1>1, <2>1, <3>1, <3>2, Remembered DEF SleepersInv
  <2>. QED  BY <2>1 DEF SleepersInv
<1>4. CASE call' = "cncmove"
  <2>1. f.inc < Travel(f.major, f.from, f.tgt)
        /\ from' = f.from /\ tgt' = f.tgt /\ major' = f.major /\ dt' = f.dt /\ inc' = f.inc
        /\ due' = f.due
    BY <1>4 DEF Resume, Return
  <2>2. Frame(inc, due)' = f
    BY <1>1, <2>1 DEF Frame, Frames
  <2>3. Asleep(m) /\ (m \notin crossed' => m \notin crossed)
    <3>1. m \in Moving'
      BY <1>1, <1>4 DEF Moving
    <3>. QED  BY <1>1, <3>1, Remembered DEF Resume
  <2>. QED  BY <1>1, <1>2, <1>3, <2>1, <2>2, <2>3 DEF RunningInv, SleepersInv
<1>. QED  BY <1>3, <1>4 DEF RunningInv

LEMMA CourseKept ==
  ASSUME CapturedTypeOK, CapturedTypeOK', Timely, RunningInv, SleepersInv,
         [CapturedNext]_capturedVars
  PROVE  RunningInv' /\ SleepersInv'
<1>1. ASSUME Polls, UNCHANGED <<deviceVars, who, saved>>, NoneRecorded
      PROVE  RunningInv' /\ SleepersInv'
  <2>1. \A m \in Movers : Asleep(m)' => Asleep(m)
    BY <1>1 DEF Asleep
  <2>2. CASE PollRaised
    <3>1. call' = "none" /\ pos' = pos /\ saved' = saved
      BY <1>1, <2>2 DEF PollRaised, Return, servoVars
    <3>2. \A m \in Movers : Asleep(m)' /\ m \notin crossed' => m \notin crossed
      BY <1>1, Remembered DEF Moving, NoneRecorded
    <3>. QED  BY <3>1, <3>2, CourseSleeps
  <2>3. CASE PollLow \/ PollDebounce \/ World
    <3>1. UNCHANGED <<pos, moveVars, call, who, saved>>
      BY <1>1, <2>3 DEF PollLow, PollDebounce, World, Press, Release, servoVars
    <3>2. \A m \in Moving' : m \in crossed => m \in crossed'
      BY <1>1, Remembered DEF NoneRecorded
    <3>. QED  BY <3>1, <3>2, CourseStays
  <2>. QED  BY <1>1, <2>2, <2>3 DEF Polls
<1>2. ASSUME \/ \E p \in Programs : OpenDevice(p) \/ CloseDevice(p)
             \/ \E on \in BOOLEAN : SetCaptureMode(on)
             \/ UNCHANGED capturedVars
      PROVE  RunningInv' /\ SleepersInv'
  <2>1. UNCHANGED <<pos, moveVars, call, who, saved, crossed>>
    BY <1>2 DEF OpenDevice, CloseDevice, SetCaptureMode, StopCapture, UseDevice, servoVars,
                historyVars, capturedVars, captureVars, vars
  <2>. QED  BY <2>1, CourseStays
<1>3. ASSUME NEW hz \in BOOLEAN, DeviceSetTimings(hz) PROVE RunningInv' /\ SleepersInv'
  <2>1. UNCHANGED <<pos, moveVars, call, who, saved, crossed>>
    BY <1>3 DEF DeviceSetTimings, SetTimings, Idle, servoVars
  <2>. QED  BY <2>1, CourseStays
<1>4. ASSUME NEW v \in Targets, DeviceSetPos(v) PROVE RunningInv' /\ SleepersInv'
  <2>1. call' = "none" /\ saved' = saved /\ crossed' = Recorded(crossed, Moving)
    BY <1>4 DEF DeviceSetPos, SetPos, Idle, UseDevice
  <2>2. \A m \in Movers : Asleep(m)' => m \in Moving /\ m \in Moving'
    BY <2>1 DEF Asleep, Moving
  <2>3. \A m \in Movers : Asleep(m)' => m \in crossed'
    BY <2>1, <2>2, Remembered
  <2>. QED  BY <2>1, <2>3, CourseSleeps
<1>5. ASSUME NEW m \in Movers, NEW v \in Targets, BeginMove(m, v)
      PROVE  RunningInv' /\ SleepersInv'
  <2>1. Begins(v) /\ ~Asleep(m) /\ who' = m /\ UNCHANGED <<saved, crossed, pos>>
    BY <1>5 DEF BeginMove, CncMove, Begins, servoVars, historyVars
  <2>2. inc' < Travel(major', from', tgt') /\ Course(Frame(inc, due)', pos')
    BY <2>1, CourseBegins DEF CapturedTypeOK
  <2>3. ~Asleep(who)'
    BY <2>1 DEF Asleep
  <2>. QED  BY <2>1, <2>2, <2>3 DEF RunningInv, SleepersInv, Asleep
<1>. QED
  BY <1>1, <1>2, <1>3, <1>4, <1>5, CourseRuns, CourseResumes DEF CapturedNext

\* The stacks of the moves in progress are stacks.
LEMMA StacksTyped == ASSUME CapturedTypeOK, NEW m \in Moving PROVE Stack(m) \in Frames
<1>1. Frame(inc, due) \in Frames
  BY DEF CapturedTypeOK, TypeOK, MoveTypes, Frame, Frames
<1>. QED  BY <1>1 DEF Stack, Moving, CapturedTypeOK, CaptureTypes

\* As long as moves are timely, one under which nobody else writes cnc_pos
\* stays behind its line, whatever runs while it sleeps and however many moves
\* sleep beside it.
THEOREM AloneKept == CapturedSpec /\ []Timely => []AloneBehindTheLine
<1>1. CapturedInit => RunningInv /\ SleepersInv
  BY DEF CapturedInit, Init, RunningInv, SleepersInv, Asleep
<1>2. CapturedTypeOK /\ RunningInv /\ SleepersInv => AloneBehindTheLine
  <2>. SUFFICES ASSUME CapturedTypeOK, RunningInv, SleepersInv, NEW m \in Moving \ crossed
                PROVE  Behind(Stack(m))
    BY DEF AloneBehindTheLine
  <2>1. Course(Stack(m), pos)
    BY DEF Moving, Stack, RunningInv, SleepersInv
  <2>. QED  BY <2>1, StacksTyped, CourseBehind DEF CapturedTypeOK
<1>3. CapturedTypeOK /\ CapturedTypeOK' /\ Timely /\ RunningInv /\ SleepersInv
        /\ [CapturedNext]_capturedVars => RunningInv' /\ SleepersInv'
  BY CourseKept
<1>4. QED
  BY <1>1, <1>2, <1>3, CapturedTyping, PTL DEF CapturedSpec

-----------------------------------------------------------------------------
(* What CoordinatedMove promises of a move, kept by one that nobody crosses. *)

\* An iteration of a move that nobody crosses advances its major axis, and
\* takes no axis away from its target or past it.
AloneAdvances ==
  [][call = "cncmove" /\ who \notin crossed /\ pos' # pos
       => /\ \A i \in Axes : pos'[i] \in {pos[i], Abs!Towards(i, pos, tgt)}
          /\ pos[major] # tgt[major]
          /\ pos'[major] = Abs!Towards(major, pos, tgt)
          /\ call' = "cncmove" => pos'[major] # tgt[major]]_capturedVars

\* A move that nobody crosses has brought its major axis to the target when
\* it finds that it has no further iteration to make, as it wakes.
AloneArrives ==
  [][\A m \in Movers \ crossed :
       Asleep(m) /\ saved'[m] = NoFrame /\ call' = "none"
         => pos[saved[m].major] = saved[m].tgt[saved[m].major]]_capturedVars

\* A move sleeps after an iteration that its loop had left to make.
StackInv ==
  \A m \in Movers : Asleep(m) => saved[m].inc <= Travel(saved[m].major, saved[m].from, saved[m].tgt)

\* Only the move that has the processor makes iterations, and while it has it
\* nothing else writes cnc_pos.
LEMMA OnlyIterationsMove ==
  ASSUME call = "cncmove", [CapturedNext]_capturedVars
  PROVE  RunOn \/ Pause \/ UNCHANGED pos
<1>1. CASE Polls
  BY <1>1 DEF Polls, PollLow, PollDebounce, PollRaised, World, Press, Release, servoVars
<1>2. CASE \/ \E p \in Programs : OpenDevice(p) \/ CloseDevice(p)
           \/ \E on \in BOOLEAN : SetCaptureMode(on) \/ DeviceSetTimings(on)
           \/ \E v \in Targets : DeviceSetPos(v)
           \/ \E m \in Movers : (\E v \in Targets : BeginMove(m, v)) \/ Resume(m)
  BY <1>2 DEF OpenDevice, CloseDevice, SetCaptureMode, UseDevice, DeviceSetTimings, SetTimings,
              DeviceSetPos, SetPos, Idle, BeginMove, CncMove, Resume
<1>3. CASE UNCHANGED capturedVars
  BY <1>3 DEF capturedVars, vars, servoVars
<1>. QED  BY <1>1, <1>2, <1>3 DEF CapturedNext

\* The stacks of sleeping moves are written as they go to sleep, and only then.
LEMMA StackKept ==
  ASSUME CapturedTypeOK, RunningInv, StackInv, [CapturedNext]_capturedVars
  PROVE  StackInv'
<1>1. saved \in [Movers -> Frames] /\ who \in Movers
  BY DEF CapturedTypeOK, CaptureTypes
<1>2. CASE saved' = saved
  BY <1>2 DEF StackInv, Asleep
<1>3. ASSUME NEW m \in Movers, Resume(m) PROVE StackInv'
  <2>1. saved' = [saved EXCEPT ![m] = NoFrame]
    BY <1>3 DEF Resume
  <2>. QED  BY <1>1, <2>1 DEF StackInv, Asleep
<1>4. CASE Pause
  <2>1. PICK share : saved' = [saved EXCEPT ![who] = Frame(inc + 1, share)]
    BY <1>4 DEF Pause
  <2>2. inc \in Nat /\ Travel(major, from, tgt) \in Nat /\ inc < Travel(major, from, tgt)
    BY <1>4 DEF Pause, RunningInv, CapturedTypeOK, TypeOK, MoveTypes, Travel, AbsInt
  <2>3. Frame(inc + 1, share).inc <= Travel(major, from, tgt)
    BY <2>2 DEF Frame
  <2>. QED  BY <1>1, <2>1, <2>3 DEF StackInv, Asleep, Frame
<1>. QED
  BY <1>2, <1>3, <1>4
     DEF CapturedNext, OpenDevice, CloseDevice, SetCaptureMode, DeviceSetTimings, DeviceSetPos,
         BeginMove, RunOn, capturedVars, captureVars

\* A move on its course whose loop is done has its major axis at the target.
LEMMA CourseArrives ==
  ASSUME NEW f \in Frames, NEW p \in [Axes -> Int], Course(f, p),
         f.inc = Travel(f.major, f.from, f.tgt)
  PROVE  p[f.major] = f.tgt[f.major]
<1>. DEFINE m == f.major
<1>1. m \in Axes /\ f.from[m] \in Int /\ f.tgt[m] \in Int /\ p[m] \in Int
  BY DEF Frames
<1>2. p[m] = f.from[m] + Sense(f, m) * Travel(m, f.from, f.tgt)
  BY DEF Course
<1>. QED  BY <1>1, <1>2 DEF Sense, Travel, AbsInt

\* Under motion capture, too, a timely move that nobody crosses is a coordinated
\* move: however often it sleeps in the middle of its loop, it advances along
\* its longest axis and neither retreats nor overshoots, and it ends where
\* that axis has arrived, unless an e-stop ends it.
THEOREM AloneCoordinated == CapturedSpec /\ []Timely => AloneAdvances /\ AloneArrives
<1>1. CapturedInit => RunningInv /\ SleepersInv /\ StackInv
  BY DEF CapturedInit, Init, RunningInv, SleepersInv, StackInv, Asleep
<1>2. CapturedTypeOK /\ CapturedTypeOK' /\ Timely /\ RunningInv /\ SleepersInv
        /\ [CapturedNext]_capturedVars => RunningInv' /\ SleepersInv'
  BY CourseKept
<1>3. CapturedTypeOK /\ RunningInv /\ StackInv /\ [CapturedNext]_capturedVars => StackInv'
  BY StackKept
<1>4. CapturedTypeOK /\ Timely /\ RunningInv /\ [CapturedNext]_capturedVars
        => (call = "cncmove" /\ who \notin crossed /\ pos' # pos
              => /\ \A i \in Axes : pos'[i] \in {pos[i], Abs!Towards(i, pos, tgt)}
                 /\ pos[major] # tgt[major]
                 /\ pos'[major] = Abs!Towards(major, pos, tgt)
                 /\ call' = "cncmove" => pos'[major] # tgt[major])
  <2>. SUFFICES ASSUME CapturedTypeOK, Timely, RunningInv, [CapturedNext]_capturedVars,
                       call = "cncmove", who \notin crossed, pos' # pos
                PROVE  /\ \A i \in Axes : pos'[i] \in {pos[i], Abs!Towards(i, pos, tgt)}
                       /\ pos[major] # tgt[major]
                       /\ pos'[major] = Abs!Towards(major, pos, tgt)
                       /\ call' = "cncmove" => pos'[major] # tgt[major]
    OBVIOUS
  <2>0. RunOn \/ Pause
    BY OnlyIterationsMove
  <2>1. PICK share \in Interpolations(inc) : IncAxes(StepsOf(share))
    BY <2>0 DEF RunOn, Step, Pause
  <2>2. TypeOK /\ MoveInv
    BY CourseMove DEF CapturedTypeOK, RunningInv
  <2>3. /\ \A i \in Axes : pos'[i] \in {pos[i], Abs!Towards(i, pos, tgt)}
        /\ pos'[major] = Abs!Towards(major, pos, tgt)
        /\ pos[major] # tgt[major]
        /\ pos'[major] = tgt[major] <=> inc + 1 = Travel(major, from, tgt)
    BY <2>1, <2>2, IterationAdvances
  <2>4. call' = "cncmove" => inc + 1 < Travel(major, from, tgt)
    BY <2>0 DEF RunOn, Step, Return, Pause
  <2>5. inc \in Nat /\ Travel(major, from, tgt) \in Nat
    BY <2>2 DEF TypeOK, MoveTypes, Travel, AbsInt
  <2>. QED  BY <2>3, <2>4, <2>5
<1>5. CapturedTypeOK /\ SleepersInv /\ StackInv /\ [CapturedNext]_capturedVars
        => \A m \in Movers \ crossed :
             Asleep(m) /\ saved'[m] = NoFrame /\ call' = "none"
               => pos[saved[m].major] = saved[m].tgt[saved[m].major]
  <2>. SUFFICES ASSUME CapturedTypeOK, SleepersInv, StackInv, [CapturedNext]_capturedVars,
                       NEW m \in Movers, m \notin crossed,
                       Asleep(m), saved'[m] = NoFrame, call' = "none"
                PROVE  pos[saved[m].major] = saved[m].tgt[saved[m].major]
    OBVIOUS
  <2>1. saved \in [Movers -> Frames] /\ pos \in [Axes -> Int]
    BY DEF CapturedTypeOK, CaptureTypes, TypeOK, ServoTypes
  <2>2. saved' # saved
    BY DEF Asleep
  <2>3. PICK n \in Movers : Resume(n) \/ Pause
    BY <2>2 DEF CapturedNext, OpenDevice, CloseDevice, SetCaptureMode, DeviceSetTimings,
                DeviceSetPos, BeginMove, RunOn, capturedVars, captureVars
  <2>4. CASE Pause
    <3>1. PICK share : saved'[m] = saved[m] \/ saved'[m] = Frame(inc + 1, share)
      BY <2>1, <2>4 DEF Pause
    <3>2. Frame(inc + 1, share).inc = inc + 1 /\ NoFrame.inc = 0
      BY DEF Frame, NoFrame
    <3>3. inc + 1 # 0
      BY DEF CapturedTypeOK, TypeOK, MoveTypes
    <3>. QED  BY <3>1, <3>2, <3>3 DEF Asleep
  <2>5. CASE Resume(n)
    <3>1. n = m
      BY <2>1, <2>5 DEF Resume, Asleep
    <3>2. ~(saved[m].inc < Travel(saved[m].major, saved[m].from, saved[m].tgt))
      BY <2>5, <3>1 DEF Resume
    <3>3. saved[m].inc \in Nat /\ Travel(saved[m].major, saved[m].from, saved[m].tgt) \in Nat
      BY <2>1 DEF Frames, Travel, AbsInt
    <3>4. saved[m].inc = Travel(saved[m].major, saved[m].from, saved[m].tgt)
      BY <3>2, <3>3 DEF StackInv
    <3>5. Course(saved[m], pos) /\ saved[m] \in Frames
      BY <2>1 DEF SleepersInv
    <3>. QED  BY <2>1, <3>4, <3>5, CourseArrives
  <2>. QED  BY <2>3, <2>4, <2>5
<1>. QED
  BY <1>1, <1>2, <1>3, <1>4, <1>5, CapturedTyping, PTL
     DEF CapturedSpec, AloneAdvances, AloneArrives

-----------------------------------------------------------------------------
(* What makes moves timely.                                                *)

\* A move is planned so, crossed or not.
Planned(m, v1, v2, s) == s \in StepTimes /\ Travel(m, v1, v2) <= MaxTravel

PlanInv ==
  /\ call = "cncmove" => Planned(major, from, tgt, dt)
  /\ \A m \in Movers :
       Asleep(m) => Planned(saved[m].major, saved[m].from, saved[m].tgt, saved[m].dt)

\* What is planned does not depend on the iteration.
LEMMA PlanStays ==
  ASSUME PlanInv, UNCHANGED <<from, tgt, major, dt>>, call' = "cncmove" => call = "cncmove",
         \A m \in Movers : Asleep(m)' => Asleep(m) /\ saved'[m] = saved[m]
  PROVE  PlanInv'
BY DEF PlanInv, Planned

LEMMA PlanEnds ==
  ASSUME PlanInv, call' # "cncmove",
         \A m \in Movers : Asleep(m)' => Asleep(m) /\ saved'[m] = saved[m]
  PROVE  PlanInv'
BY DEF PlanInv, Planned

LEMMA PlanKept ==
  ASSUME CapturedTypeOK, PlanInv, [CapturedNext]_capturedVars
  PROVE  PlanInv'
<1>1. saved \in [Movers -> Frames] /\ who \in Movers
  BY DEF CapturedTypeOK, CaptureTypes
<1>2. ASSUME saved' = saved PROVE \A m \in Movers : Asleep(m)' => Asleep(m) /\ saved'[m] = saved[m]
  BY <1>2 DEF Asleep
<1>3. CASE Polls /\ saved' = saved
  <2>1. CASE PollRaised
    BY <1>2, <1>3, <2>1, PlanEnds DEF PollRaised, Return
  <2>2. CASE PollLow \/ PollDebounce \/ World
    BY <1>2, <1>3, <2>2, PlanStays DEF PollLow, PollDebounce, World, Press, Release, moveVars
  <2>. QED  BY <1>3, <2>1, <2>2 DEF Polls
<1>4. CASE \/ \E p \in Programs : OpenDevice(p) \/ CloseDevice(p)
           \/ \E on \in BOOLEAN : SetCaptureMode(on) \/ DeviceSetTimings(on)
           \/ \E v \in Targets : DeviceSetPos(v)
           \/ UNCHANGED capturedVars
  <2>1. UNCHANGED <<moveVars, call, saved>>
    BY <1>4 DEF OpenDevice, CloseDevice, SetCaptureMode, UseDevice, DeviceSetTimings, SetTimings,
                DeviceSetPos, SetPos, Idle, capturedVars, captureVars, vars
  <2>. QED  BY <1>2, <2>1, PlanStays DEF moveVars
<1>5. ASSUME NEW m \in Movers, NEW v \in Targets, BeginMove(m, v) PROVE PlanInv'
  <2>1. Begins(v) /\ saved' = saved /\ \A i \in Axes : Travel(i, pos, v) <= MaxTravel
    BY <1>5 DEF BeginMove, CncMove, Begins, servoVars
  <2>2. Planned(major, from, tgt, dt)'
    BY <2>1 DEF Begins, Planned
  <2>. QED  BY <1>2, <2>1, <2>2 DEF PlanInv, Planned
<1>6. ASSUME NEW m \in Movers, Resume(m) PROVE PlanInv'
  <2>1. saved' = [saved EXCEPT ![m] = NoFrame] /\ Asleep(m)
    BY <1>6 DEF Resume
  <2>2. \A n \in Movers : Asleep(n)' => Asleep(n) /\ saved'[n] = saved[n]
    BY <1>1, <2>1 DEF Asleep
  <2>3. CASE call' = "cncmove"
    <3>1. /\ from' = saved[m].from /\ tgt' = saved[m].tgt /\ major' = saved[m].major
          /\ dt' = saved[m].dt
      BY <1>6, <2>3 DEF Resume, Return
    <3>2. Planned(major, from, tgt, dt)'
      BY <3>1, <2>1 DEF PlanInv, Planned
    <3>. QED  BY <2>2, <3>2 DEF PlanInv, Planned
  <2>. QED  BY <2>2, <2>3, PlanEnds
<1>7. CASE Pause
  <2>1. PICK share : saved' = [saved EXCEPT ![who] = Frame(inc + 1, share)]
    BY <1>7 DEF Pause
  <2>2. call = "cncmove" /\ call' = "none"
    BY <1>7 DEF Pause
  <2>3. Planned(major, from, tgt, dt)
    BY <2>2 DEF PlanInv
  <2>4. \A m \in Movers : m # who => saved'[m] = saved[m]
    BY <1>1, <2>1
  <2>5. saved'[who] = Frame(inc + 1, share)
    BY <1>1, <2>1
  <2>. QED  BY <2>2, <2>3, <2>4, <2>5, FrameMeans DEF PlanInv, Planned, Asleep
<1>8. CASE RunOn
  <2>1. saved' = saved /\ call = "cncmove"
    BY <1>8 DEF RunOn, Step
  <2>2. CASE UNCHANGED <<from, tgt, major, dt, call>>
    BY <1>2, <2>1, <2>2, PlanStays
  <2>3. CASE Return("0")
    BY <1>2, <2>1, <2>3, PlanEnds DEF Return
  <2>. QED  BY <1>8, <2>2, <2>3 DEF RunOn, Step
<1>. QED
  BY <1>3, <1>4, <1>5, <1>6, <1>7, <1>8 DEF CapturedNext

\* Such moves are timely, when an iteration lasts at most half a second.
LEMMA PlannedTimely ==
  ASSUME TypeOK, RunningInv, PlanInv,
         \A s \in StepTimes : 2 * s[1] <= s[2],
         2 * (MaxTravel + 3) <= Precision
  PROVE  Timely
<1>. SUFFICES ASSUME call = "cncmove"
              PROVE  inc * dt[1] * (Precision + Rounding(inc))
                       <= (inc + 1) * dt[2] * Precision
  BY DEF Timely
<1>. DEFINE n == dt[1]
            q == dt[2]
            R == Rounding(inc)
<1>1. dt \in StepTimes /\ inc < Travel(major, from, tgt) /\ Travel(major, from, tgt) <= MaxTravel
  BY DEF RunningInv, PlanInv, Planned
<1>2. /\ inc \in Nat /\ Travel(major, from, tgt) \in Nat /\ MaxTravel \in Nat
      /\ n \in Nat \ {0} /\ q \in Nat \ {0} /\ Precision \in Nat \ {0} /\ 2 * n <= q
  BY <1>1, MachineAssumption, CapturedAssumption DEF TypeOK, MoveTypes, Travel, AbsInt
<1>3. R \in Nat /\ R <= Precision
  BY <1>1, <1>2 DEF Rounding
<1>. HIDE DEF n, q, R
<1>4. inc * n * (Precision + R) <= (inc + 1) * q * Precision
  BY <1>2, <1>3, HalfSecond
<1>. QED  BY <1>4 DEF n, q, R

\* In particular moves of at most 8 million increments (in the code) stay
\* behind their lines, at any speed at which an iteration lasts at most half a
\* second.
THEOREM ShortAloneKept ==
  ASSUME \A s \in StepTimes : 2 * s[1] <= s[2], 2 * (MaxTravel + 3) <= Precision
  PROVE  CapturedSpec => []AloneBehindTheLine
<1>1. CapturedInit => RunningInv /\ SleepersInv /\ PlanInv
  BY DEF CapturedInit, Init, RunningInv, SleepersInv, PlanInv, Asleep
<1>2. CapturedTypeOK /\ CapturedTypeOK' /\ Timely /\ RunningInv /\ SleepersInv
        /\ [CapturedNext]_capturedVars => RunningInv' /\ SleepersInv'
  BY CourseKept
<1>3. CapturedTypeOK /\ PlanInv /\ [CapturedNext]_capturedVars => PlanInv'
  BY PlanKept
<1>4. CapturedTypeOK /\ RunningInv /\ PlanInv => Timely
  BY PlannedTimely DEF CapturedTypeOK
<1>5. QED
  BY <1>1, <1>2, <1>3, <1>4, AloneKept, CapturedTyping, PTL DEF CapturedSpec
==============================================================================
