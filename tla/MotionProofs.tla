----------------------------- MODULE MotionProofs -----------------------------
(***************************************************************************)
(* Theorems about Motion, for any number of axes and e-stops, any targets, *)
(* any STEPLEN and any debounce length.                                    *)
(***************************************************************************)
EXTENDS Motion, FiniteSetTheorems, TLAPS

-----------------------------------------------------------------------------
(* Lemmas about the operators of the loop.                                 *)

\* One iteration makes at most one step per axis, in the sense of Dir.
LEMMA StepsOfType ==
  ASSUME NEW share
  PROVE  /\ StepsOf(share) \in [Axes -> {-1, 0, 1}]
         /\ \A i \in Axes : StepsOf(share)[i] \in {0, Dir(i)}
  BY DEF StepsOf, Dir

\* What an iteration computes for the minor axes are natural numbers.
LEMMA InterpolationsType ==
  ASSUME TypeOK, NEW k \in Nat, NEW share \in Interpolations(k)
  PROVE  share \in [Axes -> Nat]
<1>1. ASSUME NEW i \in Axes PROVE Shares(i, k) \subseteq Nat
  <2>1. due[i] \in Nat
    BY DEF TypeOK, MoveTypes
  <2>2. ASSUME NEW x, NEW s \in due[i] .. x PROVE s \in Nat
    BY <2>1
  <2>. QED  BY <2>2 DEF Shares
<1>. QED  BY <1>1 DEF Interpolations

\* cnc_inc_axis() keeps positions, senses and pin levels within their types.
LEMMA IncAxesType ==
  ASSUME ServoTypes, NEW steps \in [Axes -> {-1, 0, 1}], IncAxes(steps)
  PROVE  ServoTypes'
<1>1. pos' \in [Axes -> Int]
  BY DEF IncAxes, ServoTypes
<1>2. \A i \in Axes : Driven(i, steps[i]) \in Int
  BY DEF Driven
<1>3. slip' \in [Axes -> Int]
  BY <1>2 DEF IncAxes, ServoTypes
<1>4. scDir' \in [Axes -> {-1, 0, 1}]
  BY DEF IncAxes, ServoTypes
<1>5. \A i \in Axes : DirLevel(i, steps[i]) \in BOOLEAN
  BY DEF DirLevel, ServoTypes
<1>6. dirPin' \in [Axes -> BOOLEAN]
  BY <1>5 DEF IncAxes
<1>7. stepPin' \in [Axes -> BOOLEAN]
  BY DEF IncAxes, ServoTypes
<1>8. QED
  BY <1>1, <1>3, <1>4, <1>6, <1>7 DEF ServoTypes

\* The variables of an idle kernel have their types.
LEMMA NoMoveType ==
  ASSUME NoMove
  PROVE  MoveTypes'
<1>1. 0 \in Axes
  BY MachineAssumption DEF Axes
<1>2. Origin \in [Axes -> Int] /\ Origin \in [Axes -> Nat]
  BY DEF Origin
<1>3. QED
  BY <1>1, <1>2 DEF NoMove, MoveTypes

\* A call that returns leaves the move and poll variables in their types.
LEMMA ReturnType ==
  ASSUME NEW r \in {"0", "EPERM", "EINTR"}, Return(r), calibrated' \in BOOLEAN
  PROVE  MoveTypes' /\ PollTypes' /\ CallTypes'
<1>1. MoveTypes'
  BY NoMoveType DEF Return
<1>2. PollTypes'
  BY EstopAssumption DEF Return, PollTypes
<1>3. CallTypes'
  BY DEF Return, CallTypes
<1>4. QED
  BY <1>1, <1>2, <1>3

-----------------------------------------------------------------------------
(* Type correctness.                                                       *)

\* The boot state is well typed.
LEMMA TypeInit == Init => TypeOK
<1> SUFFICES ASSUME Init PROVE TypeOK
  OBVIOUS
<1> USE DEF Init
<1>1. ServoTypes
  BY DEF ServoTypes, Origin
<1>2. EstopTypes
  BY EstopAssumption DEF EstopTypes
<1>3. MoveTypes
  <2>1. 0 \in Axes
    BY MachineAssumption DEF Axes
  <2>2. Origin \in [Axes -> Int] /\ Origin \in [Axes -> Nat]
    BY DEF Origin
  <2>3. QED
    BY <2>1, <2>2 DEF MoveTypes
<1>4. PollTypes
  BY EstopAssumption DEF PollTypes
<1>5. CallTypes /\ WorldTypes
  BY DEF CallTypes, WorldTypes
<1>6. QED
  BY <1>1, <1>2, <1>3, <1>4, <1>5 DEF TypeOK
\* The groups of variables an action leaves alone keep their types.
LEMMA FrameTypes ==
  ASSUME TypeOK
  PROVE  /\ UNCHANGED servoVars => ServoTypes'
         /\ UNCHANGED estopVars => EstopTypes'
         /\ UNCHANGED moveVars => MoveTypes'
         /\ UNCHANGED <<pollVars, held>> => PollTypes'
         /\ UNCHANGED <<calibrated, call, result>> => CallTypes'
         /\ UNCHANGED pin => WorldTypes'
  BY DEF TypeOK, ServoTypes, EstopTypes, MoveTypes, PollTypes, CallTypes, WorldTypes,
         servoVars, estopVars, moveVars, pollVars

\* A poll that begins starts at the first e-stop.
LEMMA BeginPollType ==
  ASSUME BeginPoll
  PROVE  PollTypes'
  BY EstopAssumption DEF BeginPoll, Raised, PollTypes

\* Going on to the next e-stop stays within the poll.
LEMMA NextEstopType ==
  ASSUME TypeOK, Polling, NextEstop, UNCHANGED held
  PROVE  PollTypes'
  BY EstopAssumption DEF TypeOK, PollTypes, Polling, NextEstop, Estops

\* Counting an event stays within the bound of the counter.
LEMMA CountType ==
  ASSUME TypeOK, Count, open' \in [Estops -> BOOLEAN], queued' \in [Estops -> BOOLEAN]
  PROVE  EstopTypes'
  BY EstopAssumption DEF TypeOK, EstopTypes, Count

\* Entering cncmove, or failing to, preserves the types.
LEMMA CncMoveType ==
  ASSUME TypeOK, NEW v2 \in Targets, NEW badVel \in BOOLEAN, CncMove(v2, badVel)
  PROVE  TypeOK'
<1>1. ServoTypes' /\ EstopTypes' /\ WorldTypes'
  BY FrameTypes DEF CncMove
<1>2. CASE UNCHANGED <<call, moveVars, pollVars, held>> /\ result' \in {"ENXIO", "EINVAL", "0"}
  <2>1. MoveTypes' /\ PollTypes'
    BY <1>2, FrameTypes
  <2>2. CallTypes'
    BY <1>2 DEF CncMove, TypeOK, CallTypes
  <2>3. QED
    BY <1>1, <2>1, <2>2 DEF TypeOK
<1>3. CASE /\ call' = "cncmove" /\ result' = "none" /\ from' = pos /\ tgt' = v2 /\ inc' = 0
           /\ due' = Origin /\ major' \in Axes /\ dt' \in StepTimes /\ BeginPoll
  <2>1. v2 \in [Axes -> Int]
    BY MachineAssumption
  <2>2. MoveTypes'
    <3>1. Origin \in [Axes -> Nat]
      BY DEF Origin
    <3>. QED  BY <1>3, <2>1, <3>1 DEF MoveTypes, TypeOK, ServoTypes
  <2>3. PollTypes'
    BY <1>3, BeginPollType
  <2>4. CallTypes'
    BY <1>3 DEF CncMove, TypeOK, CallTypes
  <2>5. QED
    BY <1>1, <2>2, <2>3, <2>4 DEF TypeOK
<1>4. QED
  BY <1>2, <1>3 DEF CncMove

\* An iteration of the signal generation loop preserves the types.
LEMMA StepType ==
  ASSUME TypeOK, Step
  PROVE  TypeOK'
<1>1. inc \in Nat
  BY DEF TypeOK, MoveTypes
<1>2. ServoTypes'
  <2>1. PICK share \in Interpolations(inc) : IncAxes(StepsOf(share))
    BY DEF Step
  <2>2. StepsOf(share) \in [Axes -> {-1, 0, 1}]
    BY StepsOfType
  <2>3. QED
    BY <2>1, <2>2, IncAxesType DEF TypeOK
<1>3. EstopTypes' /\ WorldTypes'
  BY FrameTypes DEF Step
<1>4. CASE /\ inc' = inc + 1 /\ due' \in Interpolations(inc) /\ BeginPoll
           /\ UNCHANGED <<from, tgt, major, dt, call, result>>
  <2>1. MoveTypes'
    <3>1. due' \in [Axes -> Nat]
      BY <1>1, <1>4, InterpolationsType
    <3>. QED  BY <1>1, <1>4, <3>1 DEF TypeOK, MoveTypes
  <2>2. PollTypes'
    BY <1>4, BeginPollType
  <2>3. CallTypes'
    BY <1>4 DEF Step, TypeOK, CallTypes
  <2>4. QED
    BY <1>2, <1>3, <2>1, <2>2, <2>3 DEF TypeOK
<1>5. CASE Return("0")
  <2>1. calibrated' \in BOOLEAN
    BY DEF Step, TypeOK, CallTypes
  <2>2. MoveTypes' /\ PollTypes' /\ CallTypes'
    BY <1>5, <2>1, ReturnType
  <2>3. QED
    BY <1>2, <1>3, <2>2 DEF TypeOK
<1>6. QED
  BY <1>4, <1>5 DEF Step

\* Every step of the call in progress preserves the types.
LEMMA KernelType ==
  ASSUME TypeOK, Kernel
  PROVE  TypeOK'
<1>0. calibrated' \in BOOLEAN
  BY DEF TypeOK, CallTypes, Kernel, PollLow, PollOpen, PollDebounce, PollRaised, EstopClear, Step
<1>1. CASE PollLow
  <2>1. ServoTypes' /\ EstopTypes' /\ MoveTypes' /\ CallTypes' /\ WorldTypes'
    BY <1>1, FrameTypes DEF PollLow
  <2>2. PollTypes'
    BY <1>1, NextEstopType DEF PollLow
  <2>3. QED
    BY <2>1, <2>2 DEF TypeOK
<1>2. CASE PollOpen
  <2>1. ServoTypes' /\ MoveTypes' /\ CallTypes' /\ WorldTypes'
    BY <1>2, FrameTypes DEF PollOpen
  <2>2. PollTypes'
    BY <1>2, NextEstopType DEF PollOpen
  <2>3. EstopTypes'
    BY <1>2, CountType DEF PollOpen, TypeOK, EstopTypes
  <2>4. QED
    BY <2>1, <2>2, <2>3 DEF TypeOK
<1>3. CASE PollDebounce
  <2>1. ServoTypes' /\ EstopTypes' /\ MoveTypes' /\ CallTypes' /\ WorldTypes'
    BY <1>3, FrameTypes DEF PollDebounce
  <2>2. PollTypes'
    BY <1>3, EstopAssumption DEF PollDebounce, TypeOK, PollTypes
  <2>3. QED
    BY <2>1, <2>2 DEF TypeOK
<1>4. CASE PollRaised
  <2>1. ServoTypes' /\ WorldTypes'
    BY <1>4, FrameTypes DEF PollRaised
  <2>2. MoveTypes' /\ PollTypes' /\ CallTypes'
    BY <1>0, <1>4, ReturnType DEF PollRaised
  <2>3. EstopTypes'
    BY <1>4, CountType DEF PollRaised, TypeOK, EstopTypes
  <2>4. QED
    BY <2>1, <2>2, <2>3 DEF TypeOK
<1>5. CASE EstopClear
  <2>1. ServoTypes' /\ EstopTypes' /\ WorldTypes'
    BY <1>5, FrameTypes DEF EstopClear
  <2>2. MoveTypes' /\ PollTypes' /\ CallTypes'
    BY <1>0, <1>5, ReturnType DEF EstopClear
  <2>3. QED
    BY <2>1, <2>2 DEF TypeOK
<1>6. CASE Step
  BY <1>6, StepType
<1>7. QED
  BY <1>1, <1>2, <1>3, <1>4, <1>5, <1>6 DEF Kernel
\* Every system call made between two moves preserves the types.
LEMMA SyscallsType ==
  ASSUME TypeOK, Syscalls
  PROVE  TypeOK'
<1>1. ASSUME NEW v \in Targets, NEW bad \in BOOLEAN, CncMove(v, bad) PROVE TypeOK'
  BY <1>1, CncMoveType
<1>2. CASE Estop
  <2>1. ServoTypes' /\ EstopTypes' /\ MoveTypes' /\ WorldTypes'
    BY <1>2, FrameTypes DEF Estop
  <2>2. PollTypes'
    BY <1>2, BeginPollType DEF Estop
  <2>3. CallTypes'
    BY <1>2 DEF Estop, TypeOK, CallTypes
  <2>4. QED
    BY <2>1, <2>2, <2>3 DEF TypeOK
<1>3. ASSUME NEW v \in Targets, SetPos(v) PROVE TypeOK'
  <2>1. EstopTypes' /\ MoveTypes' /\ PollTypes' /\ CallTypes' /\ WorldTypes'
    BY <1>3, FrameTypes DEF SetPos, Idle
  <2>2. v \in [Axes -> Int]
    BY MachineAssumption
  <2>3. ServoTypes'
    BY <1>3, <2>2 DEF SetPos, TypeOK, ServoTypes
  <2>4. QED
    BY <2>1, <2>3 DEF TypeOK
<1>4. ASSUME NEW hz \in BOOLEAN, SetTimings(hz) PROVE TypeOK'
  <2>1. ServoTypes' /\ EstopTypes' /\ MoveTypes' /\ PollTypes' /\ WorldTypes'
    BY <1>4, FrameTypes DEF SetTimings, Idle
  <2>2. CallTypes'
    BY <1>4 DEF SetTimings, Idle, TypeOK, CallTypes
  <2>3. QED
    BY <2>1, <2>2 DEF TypeOK
<1>5. CASE ClrStats
  <2>1. ServoTypes' /\ MoveTypes' /\ PollTypes' /\ CallTypes'
    BY <1>5, FrameTypes DEF ClrStats, Idle
  <2>2. EstopTypes'
    BY <1>5, EstopAssumption DEF ClrStats, TypeOK, EstopTypes
  <2>3. IsFiniteSet(Estops)
    BY EstopAssumption, FS_Interval DEF Estops
  <2>4. IsFiniteSet(Raised)
    BY <2>3, FS_Subset DEF Raised
  <2>5. WorldTypes'
    BY <1>5, <2>4, FS_CardinalityType DEF ClrStats, TypeOK, WorldTypes
  <2>6. QED
    BY <2>1, <2>2, <2>5 DEF TypeOK
<1>6. ASSUME NEW e \in Estops, EstopOpen(e) \/ EstopClose(e) \/ EstopRead(e) PROVE TypeOK'
  <2>1. ServoTypes' /\ MoveTypes' /\ PollTypes' /\ CallTypes' /\ WorldTypes'
    BY <1>6, FrameTypes DEF EstopOpen, EstopClose, EstopRead, Idle
  <2>2. EstopTypes'
    BY <1>6 DEF EstopOpen, EstopClose, EstopRead, TypeOK, EstopTypes
  <2>3. QED
    BY <2>1, <2>2 DEF TypeOK
<1>7. QED
  BY <1>1, <1>2, <1>3, <1>4, <1>5, <1>6 DEF Syscalls

\* Buttons that are pressed, released or bounce preserve the types.
LEMMA WorldType ==
  ASSUME TypeOK, World
  PROVE  TypeOK'
<1>1. ServoTypes' /\ EstopTypes' /\ MoveTypes' /\ CallTypes'
  BY FrameTypes DEF World, Press, Release
<1>2. PollTypes'
  BY DEF World, Press, Release, pollVars, TypeOK, PollTypes
<1>3. WorldTypes'
  <2>1. ASSUME NEW e \in Estops, Press(e) PROVE WorldTypes'
    BY <2>1 DEF Press, TypeOK, WorldTypes
  <2>2. ASSUME NEW e \in Estops, Release(e) PROVE WorldTypes'
    BY <2>2 DEF Release, TypeOK, WorldTypes
  <2>3. QED
    BY <2>1, <2>2 DEF World
<1>4. QED
  BY <1>1, <1>2, <1>3 DEF TypeOK

\* A stuttering step preserves the types.
LEMMA StutterType ==
  ASSUME TypeOK, UNCHANGED vars
  PROVE  TypeOK'
  BY FrameTypes DEF vars, TypeOK

\* Every reachable state has the types of TypeOK: in particular the poll
\* index never runs past the registered e-stops, and the debounce loop never
\* past its number of reads.
THEOREM Typing == Spec => []TypeOK
<1>1. Init => TypeOK
  BY TypeInit
<1>2. TypeOK /\ [Next]_vars => TypeOK'
  BY KernelType, SyscallsType, WorldType, StutterType DEF Next
<1>3. QED
  BY <1>1, <1>2, PTL DEF Spec

-----------------------------------------------------------------------------
(* Dead reckoning.                                                         *)

\* What makes it inductive: once a servo has stepped, its DIR pin shows the
\* sense cached in sc_dir, so the pin may be left alone when the sense is
\* the cached one.
SenseShown == \A i \in Axes : scDir[i] # 0 => (dirPin[i] <=> scDir[i] = 1)

\* Under SenseShown an axis is driven by as much as cnc_pos is changed.
LEMMA DrivenAsCounted ==
  ASSUME TypeOK, SenseShown, NEW i \in Axes, NEW d \in {-1, 0, 1}
  PROVE  /\ Driven(i, d) = d
         /\ d # 0 => (DirLevel(i, d) <=> d = 1)
  BY DEF SenseShown, Driven, DirLevel, TypeOK, ServoTypes

\* cnc_inc_axis() neither slips nor lets a DIR pin disagree with sc_dir.
LEMMA IncAxesReckoned ==
  ASSUME TypeOK, SenseShown, DeadReckoning,
         NEW steps \in [Axes -> {-1, 0, 1}], IncAxes(steps)
  PROVE  SenseShown' /\ DeadReckoning'
<1>1. \A i \in Axes : Driven(i, steps[i]) = steps[i]
  BY DrivenAsCounted
<1>2. \A i \in Axes : steps[i] # 0 => (DirLevel(i, steps[i]) <=> steps[i] = 1)
  BY DrivenAsCounted
<1>3. DeadReckoning'
  BY <1>1 DEF IncAxes, DeadReckoning, Origin
<1>4. SenseShown'
  <2> SUFFICES ASSUME NEW i \in Axes, scDir'[i] # 0
               PROVE  dirPin'[i] <=> scDir'[i] = 1
    BY DEF SenseShown
  <2>1. CASE steps[i] = 0
    BY <2>1 DEF IncAxes, DirLevel, SenseShown
  <2>2. CASE steps[i] # 0
    BY <2>2, <1>2 DEF IncAxes
  <2>3. QED
    BY <2>1, <2>2
<1>5. QED
  BY <1>3, <1>4

\* Only the signal generation loop writes a pin or slips; every other action
\* leaves the senses, the pins and the slip alone.
LEMMA QuietServos ==
  ASSUME [Next]_vars
  PROVE  Step \/ UNCHANGED <<scDir, dirPin, slip>>
  BY DEF Next, Kernel, Syscalls, World, vars, servoVars,
         PollLow, PollOpen, PollDebounce, PollRaised, EstopClear,
         CncMove, Estop, SetPos, SetTimings, ClrStats, EstopOpen, EstopClose,
         EstopRead, Press, Release

\* The motors have travelled what cnc_pos counts, whatever the machine has
\* been through.
THEOREM Reckoning == Spec => []DeadReckoning
<1>1. Init => SenseShown /\ DeadReckoning
  BY DEF Init, SenseShown, DeadReckoning, Origin
<1>2. TypeOK /\ SenseShown /\ DeadReckoning /\ [Next]_vars
        => SenseShown' /\ DeadReckoning'
  <2> SUFFICES ASSUME TypeOK, SenseShown, DeadReckoning, [Next]_vars
               PROVE  SenseShown' /\ DeadReckoning'
    OBVIOUS
  <2>1. CASE Step
    <3>1. \A share : StepsOf(share) \in [Axes -> {-1, 0, 1}]
      BY StepsOfType
    <3>2. QED
      BY <2>1, <3>1, IncAxesReckoned DEF Step
  <2>2. CASE UNCHANGED <<scDir, dirPin, slip>>
    BY <2>2 DEF SenseShown, DeadReckoning
  <2>3. QED
    BY <2>1, <2>2, QuietServos
<1>3. QED
  BY <1>1, <1>2, Typing, PTL DEF Spec
-----------------------------------------------------------------------------
(* E-stops.                                                                *)

\* What makes NoStepWhileHeld inductive: an e-stop held since the poll began
\* is still high, and if the poll has gone past it, its device is open.
HeldInv ==
  /\ call = "none" => held = {}
  /\ \A e \in held : pin[e] /\ (e < idx => open[e])

\* No e-stop is held when the machine boots.
LEMMA HeldInit == Init => HeldInv
  BY DEF Init, HeldInv

\* A new poll has gone past nothing.
LEMMA HeldBegin ==
  ASSUME TypeOK, BeginPoll, UNCHANGED pin, call' # "none"
  PROVE  HeldInv'
  BY DEF BeginPoll, Raised, HeldInv, TypeOK, Estops

\* The poll keeps HeldInv: it never leaves a held e-stop behind unless its
\* device is open.
LEMMA HeldKernel ==
  ASSUME TypeOK, HeldInv, Kernel
  PROVE  HeldInv'
<1> USE DEF estopVars
<1>1. CASE PollLow
  BY <1>1 DEF PollLow, Polling, NextEstop, HeldInv, TypeOK, PollTypes, Estops
<1>2. CASE PollOpen
  BY <1>2 DEF PollOpen, Polling, NextEstop, HeldInv, TypeOK, PollTypes, Estops
<1>3. CASE PollDebounce
  BY <1>3 DEF PollDebounce, HeldInv
<1>4. CASE PollRaised \/ EstopClear
  BY <1>4 DEF PollRaised, EstopClear, Return, HeldInv
<1>5. CASE Step
  <2>1. CASE BeginPoll /\ UNCHANGED call
    BY <1>5, <2>1, HeldBegin DEF Step
  <2>2. CASE Return("0")
    BY <2>2 DEF Return, HeldInv
  <2>3. QED
    BY <1>5, <2>1, <2>2 DEF Step
<1>6. QED
  BY <1>1, <1>2, <1>3, <1>4, <1>5 DEF Kernel

\* The system calls keep HeldInv: a poll begins with nothing behind it.
LEMMA HeldSyscalls ==
  ASSUME TypeOK, HeldInv, Syscalls
  PROVE  HeldInv'
<1> USE DEF estopVars, pollVars
<1>1. ASSUME NEW v \in Targets, NEW bad \in BOOLEAN, CncMove(v, bad) PROVE HeldInv'
  <2>1. CASE BeginPoll /\ call' = "cncmove"
    BY <1>1, <2>1, HeldBegin DEF CncMove
  <2>2. CASE UNCHANGED <<call, held>>
    BY <1>1, <2>2 DEF CncMove, HeldInv
  <2>3. QED
    BY <1>1, <2>1, <2>2 DEF CncMove
<1>2. CASE Estop
  BY <1>2, HeldBegin DEF Estop
<1>3. ASSUME NEW v \in Targets, SetPos(v) PROVE HeldInv'
  BY <1>3 DEF SetPos, Idle, HeldInv
<1>4. ASSUME NEW hz \in BOOLEAN, SetTimings(hz) PROVE HeldInv'
  BY <1>4 DEF SetTimings, Idle, HeldInv
<1>5. CASE ClrStats
  BY <1>5 DEF ClrStats, Idle, HeldInv
<1>6. ASSUME NEW e \in Estops, EstopOpen(e) \/ EstopClose(e) \/ EstopRead(e) PROVE HeldInv'
  BY <1>6 DEF EstopOpen, EstopClose, EstopRead, Idle, HeldInv
<1>7. QED
  BY <1>1, <1>2, <1>3, <1>4, <1>5, <1>6 DEF Syscalls

\* Presses and releases keep HeldInv: a released e-stop is no longer held.
LEMMA HeldWorld ==
  ASSUME TypeOK, HeldInv, World
  PROVE  HeldInv'
<1> USE DEF estopVars, pollVars
<1>1. ASSUME NEW e \in Estops, Press(e) PROVE HeldInv'
  BY <1>1 DEF Press, HeldInv, TypeOK, WorldTypes, PollTypes
<1>2. ASSUME NEW e \in Estops, Release(e) PROVE HeldInv'
  BY <1>2 DEF Release, HeldInv, TypeOK, WorldTypes, PollTypes
<1>3. QED
  BY <1>1, <1>2 DEF World

\* A stuttering step keeps HeldInv.
LEMMA HeldStutter ==
  ASSUME HeldInv, UNCHANGED vars
  PROVE  HeldInv'
  BY DEF HeldInv, vars, estopVars, pollVars

\* The step that moves a motor finds every held e-stop behind the poll.
LEMMA StepUnderHeld ==
  ASSUME TypeOK, HeldInv, [Next]_vars, call = "cncmove", pos' # pos
  PROVE  \A e \in held : open[e]
<1>1. Step
  BY DEF Next, Kernel, Syscalls, World, vars, servoVars,
         PollLow, PollOpen, PollDebounce, PollRaised, EstopClear,
         CncMove, Estop, SetPos, Idle, SetTimings, ClrStats, EstopOpen, EstopClose,
         EstopRead, Press, Release
<1>2. \A e \in held : e < idx
  BY <1>1, EstopAssumption DEF Step, TypeOK, PollTypes, Estops
<1>3. QED
  BY <1>2 DEF HeldInv

\* No motor moves in an iteration during whose whole poll an e-stop was
\* high, unless that e-stop's device is open.
THEOREM EstopHonoured == Spec => NoStepWhileHeld
<1>1. TypeOK /\ HeldInv /\ [Next]_vars => HeldInv'
  BY HeldKernel, HeldSyscalls, HeldWorld, HeldStutter DEF Next
<1>2. Spec => []HeldInv
  BY <1>1, HeldInit, Typing, PTL DEF Spec
<1>3. TypeOK /\ HeldInv /\ [Next]_vars
        => [call = "cncmove" /\ pos' # pos => \A e \in held : open[e]]_vars
  BY StepUnderHeld
<1>4. QED
  BY <1>2, <1>3, Typing, PTL DEF Spec, NoStepWhileHeld

-----------------------------------------------------------------------------
(* Arithmetic.                                                             *)

\* A quotient times its divisor is at most the dividend.
LEMMA QuotientProduct ==
  ASSUME NEW a \in Nat, NEW b \in Nat \ {0}
  PROVE  /\ a \div b \in Nat
         /\ (a \div b) * b <= a
  OBVIOUS

\* Products of naturals are monotone.
LEMMA ProductMonotone ==
  ASSUME NEW a \in Nat, NEW b \in Nat, NEW c \in Nat, a <= b
  PROVE  /\ a * c <= b * c
         /\ c * a <= c * b
         /\ a * c \in Nat
  OBVIOUS

\* A positive factor cancels.
LEMMA ProductCancels ==
  ASSUME NEW a \in Nat, NEW b \in Nat, NEW c \in Nat \ {0}, a * c <= b * c
  PROVE  a <= b
<1>1. ASSUME b < a PROVE FALSE
  <2>1. b * c + c <= a * c
    <3>1. (b + 1) * c <= a * c
      BY <1>1, ProductMonotone
    <3>. QED  BY <3>1
  <2>2. b * c \in Nat /\ a * c \in Nat
    OBVIOUS
  <2>. QED  BY <2>1, <2>2
<1>. QED  BY <1>1

\* When the time of an iteration, rounded, is within the next increment of
\* the major axis, so is the share of a minor axis on the line, although it
\* is rescaled, rounded and truncated on the way.
LEMMA ShareBehind ==
  ASSUME NEW D \in Nat, NEW S \in Nat \ {0}, NEW L \in Nat \ {0}, NEW k \in Nat,
         NEW n \in Nat \ {0}, NEW q \in Nat \ {0}, NEW P \in Nat \ {0}, NEW R \in Nat,
         k * n * (P + R) <= (k + 1) * q * P,
         NEW s \in Nat,
         s <= (((D * S) \div L) * k * n * (P + R)) \div (q * S * P)
  PROVE  s * L <= D * (k + 1)
<1> DEFINE x == (D * S) \div L
           u == k * n * (P + R)
           b == q * P
<1>1. D * S \in Nat
  BY ProductMonotone
<1>2. x \in Nat /\ x * L <= D * S
  BY <1>1, QuotientProduct
<1>3. u \in Nat /\ b \in Nat \ {0} /\ u <= (k + 1) * b
  OBVIOUS
<1> HIDE DEF x
<1>4. x * k * n * (P + R) = x * u /\ q * S * P = S * b
  BY <1>2
<1> HIDE DEF u, b
<1>5. s <= (x * u) \div (S * b)
  BY <1>4 DEF x
<1>6. x * u \in Nat /\ S * b \in Nat \ {0}
  BY <1>2, <1>3
<1>7. s * (S * b) <= x * u
  <2>1. ((x * u) \div (S * b)) \in Nat /\ ((x * u) \div (S * b)) * (S * b) <= x * u
    BY <1>6, QuotientProduct
  <2> DEFINE y == (x * u) \div (S * b)
             z == S * b
  <2>2. y \in Nat /\ s <= y /\ z \in Nat /\ y * z <= x * u
    BY <1>5, <1>6, <2>1
  <2> HIDE DEF y, z
  <2>3. s * z <= y * z /\ s * z \in Nat /\ y * z \in Nat
    BY <2>2, ProductMonotone
  <2>. QED  BY <1>6, <2>2, <2>3 DEF z
<1>8. x * u <= x * ((k + 1) * b)
  <2>1. (k + 1) * b \in Nat
    BY <1>3
  <2>. QED  BY <1>2, <1>3, <2>1, ProductMonotone
<1>9. s * S <= x * (k + 1)
  <2>1. s * (S * b) = (s * S) * b /\ x * ((k + 1) * b) = (x * (k + 1)) * b
    BY <1>2, <1>3
  <2>2. s * S \in Nat /\ x * (k + 1) \in Nat /\ (s * S) * b \in Nat /\ (x * (k + 1)) * b \in Nat
    BY <1>2, <1>3
  <2>3. (s * S) * b <= (x * (k + 1)) * b
    BY <1>6, <1>7, <1>8, <2>1, <2>2
  <2>. QED  BY <1>3, <2>2, <2>3, ProductCancels
<1>10. (s * L) * S <= (D * (k + 1)) * S
  <2>1. s * S \in Nat /\ x * (k + 1) \in Nat
    BY <1>2
  <2>2. (s * S) * L <= (x * (k + 1)) * L
    BY <1>9, <2>1, ProductMonotone
  <2>3. x * L \in Nat
    BY <1>2
  <2>4. (x * L) * (k + 1) <= (D * S) * (k + 1)
    BY <1>1, <1>2, <2>3, ProductMonotone
  <2>5. (s * S) * L = (s * L) * S /\ (x * (k + 1)) * L = (x * L) * (k + 1)
        /\ (D * S) * (k + 1) = (D * (k + 1)) * S
    BY <1>2
  <2>6. (s * L) * S \in Nat /\ (x * L) * (k + 1) \in Nat /\ (D * (k + 1)) * S \in Nat
    BY <1>2, <2>3
  <2>. QED  BY <2>2, <2>4, <2>5, <2>6
<1>. QED
  <2>1. s * L \in Nat /\ D * (k + 1) \in Nat
    OBVIOUS
  <2>. QED  BY <1>10, <2>1, ProductCancels

\* A share on the line of a move is at most the travel of its axis.
LEMMA ShareWithin ==
  ASSUME NEW D \in Nat, NEW L \in Nat \ {0}, NEW k \in Nat, k <= L,
         NEW s \in Nat, s * L <= D * k
  PROVE  s <= D
<1>1. D * k <= D * L /\ D * k \in Nat /\ D * L \in Nat /\ s * L \in Nat
  BY ProductMonotone
<1>2. s * L <= D * L
  BY <1>1
<1>. QED  BY <1>2, ProductCancels

-----------------------------------------------------------------------------
(* A move is a coordinated move.                                           *)

\* The time of the iteration in progress, rounded, is within the next
\* increment of the major axis.
Timely ==
  call = "cncmove" =>
    inc * dt[1] * (Precision + Rounding(inc)) <= (inc + 1) * dt[2] * Precision

\* What makes the refinement inductive: the major axis is where the loop
\* counter says, no minor axis is ahead of its share as last computed, and
\* that share is not ahead of the line.
MoveInv ==
  /\ call = "cncmove" =>
       /\ Leads(major, from, tgt)
       /\ dt \in StepTimes
       /\ inc < Travel(major, from, tgt)
       /\ pos[major] = from[major] + Dir(major) * inc
       /\ \A i \in Axes \ {major} :
            /\ Dir(i) * (pos[i] - from[i]) \in 0 .. due[i]
            /\ due[i] * Travel(major, from, tgt) <= Travel(i, from, tgt) * inc
  /\ call # "cncmove" => from = Origin /\ tgt = Origin /\ major = 0

\* What the state of a move ranges over.
LEMMA MoveNumbers ==
  ASSUME TypeOK, MoveInv, call = "cncmove"
  PROVE  /\ inc \in Nat /\ major \in Axes /\ dt[1] \in Nat \ {0} /\ dt[2] \in Nat \ {0}
         /\ Travel(major, from, tgt) \in Nat \ {0}
         /\ \A i \in Axes : /\ Travel(i, from, tgt) \in Nat /\ due[i] \in Nat
                           /\ pos[i] \in Int /\ from[i] \in Int /\ tgt[i] \in Int
                           /\ Dir(i) \in {-1, 1}
<1>1. inc \in Nat /\ major \in Axes /\ due \in [Axes -> Nat]
  BY DEF TypeOK, MoveTypes
<1>2. \A i \in Axes : /\ Travel(i, from, tgt) \in Nat
                     /\ pos[i] \in Int /\ from[i] \in Int /\ tgt[i] \in Int
                     /\ Dir(i) \in {-1, 1}
  BY DEF TypeOK, ServoTypes, MoveTypes, Travel, AbsInt, Dir
<1>3. Travel(major, from, tgt) \in Nat \ {0}
  BY <1>1, <1>2 DEF MoveInv
<1>4. dt[1] \in Nat \ {0} /\ dt[2] \in Nat \ {0}
  BY MachineAssumption DEF MoveInv
<1>. QED  BY <1>1, <1>2, <1>3, <1>4

\* A share that Motion admits is at most its rounded quotient, and at least
\* the share before it.
LEMMA ShareBounds ==
  ASSUME TypeOK, NEW k \in Nat, NEW share \in Interpolations(k), NEW i \in Axes \ {major}
  PROVE  /\ share[i] \in Nat /\ due[i] <= share[i]
         /\ share[i] <= (Scaled(i) * k * dt[1] * (Precision + Rounding(k)))
                          \div (dt[2] * StepLen * Precision)
<1>1. share[i] \in Shares(i, k)
  BY DEF Interpolations
<1>2. due[i] \in Nat
  BY DEF TypeOK, MoveTypes
<1>3. ASSUME NEW x, NEW s \in due[i] .. x PROVE s \in Nat /\ due[i] <= s /\ s <= x
  BY <1>2
<1>. QED  BY <1>1, <1>3 DEF Shares

\* What an iteration computes for a minor axis is not ahead of the line.
LEMMA ShareOnLine ==
  ASSUME TypeOK, MoveInv, Timely, call = "cncmove",
         NEW share \in Interpolations(inc), NEW i \in Axes \ {major}
  PROVE  /\ share[i] \in Nat /\ due[i] <= share[i]
         /\ share[i] * Travel(major, from, tgt) <= Travel(i, from, tgt) * (inc + 1)
<1> DEFINE D == Travel(i, from, tgt)
           L == Travel(major, from, tgt)
           n == dt[1]
           q == dt[2]
           R == Rounding(inc)
           s == share[i]
<1>1. D \in Nat /\ L \in Nat \ {0} /\ n \in Nat \ {0} /\ q \in Nat \ {0} /\ inc \in Nat
  BY MoveNumbers
<1>2. R \in Nat
  BY <1>1 DEF Rounding
<1>3. inc * n * (Precision + R) <= (inc + 1) * q * Precision
  BY DEF Timely
<1>4. StepLen \in Nat \ {0} /\ Precision \in Nat \ {0}
  BY MachineAssumption
<1>5. s \in Nat /\ due[i] <= s
      /\ s <= (((D * StepLen) \div L) * inc * n * (Precision + R)) \div (q * StepLen * Precision)
  BY <1>1, ShareBounds DEF Scaled
<1> HIDE DEF D, L, n, q, R, s
<1>6. s * L <= D * (inc + 1)
  BY <1>1, <1>2, <1>3, <1>4, <1>5, ShareBehind
<1>. QED  BY <1>5, <1>6 DEF s, L, D

\* What one iteration does to one axis: it stays, or it advances one
\* increment towards the target, up to the share it has computed.
LEMMA AxisAdvance ==
  ASSUME TypeOK, MoveInv, Timely, call = "cncmove",
         NEW share \in Interpolations(inc), NEW i \in Axes
  PROVE  LET made == Dir(i) * (pos[i] - from[i])
             step == Dir(i) * StepsOf(share)[i]
         IN /\ made \in Nat
            /\ step \in {0, 1}
            /\ i = major => made = inc /\ step = 1
            /\ made + step <= (IF i = major THEN inc + 1 ELSE share[i])
            /\ made + step <= Travel(i, from, tgt)
<1> DEFINE made == Dir(i) * (pos[i] - from[i])
           step == Dir(i) * StepsOf(share)[i]
<1>1. Dir(i) \in {-1, 1} /\ from[i] \in Int /\ pos[i] \in Int /\ inc \in Nat
      /\ due[i] \in Nat /\ Travel(i, from, tgt) \in Nat
      /\ Travel(major, from, tgt) \in Nat \ {0}
  BY MoveNumbers
<1>2. step \in {0, 1}
  BY <1>1 DEF StepsOf
<1>3. inc < Travel(major, from, tgt)
  BY DEF MoveInv
<1>4. CASE i = major
  <2>1. step = 1
    BY <1>1, <1>4 DEF StepsOf
  <2>2. made = inc
    BY <1>1, <1>4 DEF MoveInv
  <2>3. QED
    BY <1>1, <1>3, <1>4, <2>1, <2>2
<1>5. CASE i # major
  <2>1. made \in 0 .. due[i] /\ made \in Int
    BY <1>1, <1>5 DEF MoveInv
  <2>2. share[i] \in Nat /\ due[i] <= share[i]
        /\ share[i] * Travel(major, from, tgt) <= Travel(i, from, tgt) * (inc + 1)
    BY <1>5, ShareOnLine
  <2>3. share[i] <= Travel(i, from, tgt)
    <3>1. inc + 1 \in Nat /\ inc + 1 <= Travel(major, from, tgt)
      BY <1>1, <1>3
    <3>. QED  BY <1>1, <2>2, <3>1, ShareWithin
  <2>4. step = 1 => made # share[i]
    BY <1>1, <1>5, <2>2 DEF StepsOf
  <2> HIDE DEF made, step
  <2>5. made \in Nat /\ made + step <= share[i]
    BY <1>1, <1>2, <2>1, <2>2, <2>4
  <2>. QED  BY <1>1, <1>2, <1>5, <2>2, <2>3, <2>5 DEF made, step
<1>. QED  BY <1>4, <1>5

\* MoveInv holds before the first move.
LEMMA MoveInit == Init => MoveInv
  BY DEF Init, MoveInv

\* A move that begins has somewhere to go.
LEMMA SomewhereToGo ==
  ASSUME TypeOK, NEW v2 \in Targets, v2 # pos, NEW m \in Axes, Leads(m, pos, v2)
  PROVE  /\ Travel(m, pos, v2) \in Nat \ {0}
         /\ pos[m] # v2[m]
<1>1. v2 \in [Axes -> Int] /\ pos \in [Axes -> Int]
  BY MachineAssumption DEF TypeOK, ServoTypes
<1>2. PICK i \in Axes : v2[i] # pos[i]
  BY <1>1
<1>3. Travel(i, pos, v2) \in Nat \ {0}
  BY <1>1, <1>2 DEF Travel, AbsInt
<1>4. Travel(m, pos, v2) \in Nat /\ Travel(i, pos, v2) <= Travel(m, pos, v2)
  BY <1>1 DEF Leads, Travel, AbsInt
<1>5. Travel(m, pos, v2) # 0
  BY <1>3, <1>4
<1>6. QED
  BY <1>1, <1>4, <1>5 DEF Travel, AbsInt

\* The call that begins a move.
Begins(v2) ==
  /\ call = "none" /\ call' = "cncmove"
  /\ v2 # pos /\ from' = pos /\ tgt' = v2 /\ inc' = 0 /\ due' = Origin
  /\ major' \in Axes /\ Leads(major', pos, v2)
  /\ dt' \in StepTimes /\ Profiled(dt', Travel(major', pos, v2))
  /\ UNCHANGED pos

\* cncmove either fails at once, changing nothing but its result, or begins
\* a move.
LEMMA CncMoveCases ==
  ASSUME NEW v2 \in Targets, NEW bad \in BOOLEAN, CncMove(v2, bad)
  PROVE  Begins(v2) \/ UNCHANGED <<call, moveVars, pos>>
  BY DEF CncMove, Begins, servoVars

\* A move that begins satisfies MoveInv.
LEMMA MoveBegin ==
  ASSUME TypeOK, TypeOK', NEW v2 \in Targets, Begins(v2)
  PROVE  MoveInv'
<1>1. Travel(major', pos, v2) \in Nat \ {0}
  BY SomewhereToGo DEF Begins
<1>2. inc' < Travel(major', from', tgt')
  BY <1>1 DEF Begins
<1>3. pos'[major'] = from'[major'] + Dir(major)' * inc'
  BY DEF Begins, Dir, TypeOK, ServoTypes
<1>4. ASSUME NEW i \in Axes PROVE (Dir(i) * (pos[i] - from[i]) \in 0 .. due[i])'
  BY DEF Begins, Dir, Origin, TypeOK, ServoTypes
<1>5. ASSUME NEW i \in Axes
      PROVE  (due[i] * Travel(major, from, tgt) <= Travel(i, from, tgt) * inc)'
  <2>1. Travel(i, pos, v2) \in Nat
    BY MachineAssumption DEF Travel, AbsInt, TypeOK, ServoTypes
  <2>2. due'[i] = 0 /\ inc' = 0 /\ from' = pos /\ tgt' = v2
    BY DEF Begins, Origin
  <2>. QED  BY <1>1, <2>1, <2>2
<1>6. QED
  BY <1>2, <1>3, <1>4, <1>5 DEF MoveInv, Begins

\* Where an iteration leaves the axes, and the line they are behind.
LEMMA AfterIteration ==
  ASSUME TypeOK, MoveInv, Timely, call = "cncmove",
         NEW share \in Interpolations(inc), IncAxes(StepsOf(share))
  PROVE  /\ pos'[major] = from[major] + Dir(major) * (inc + 1)
         /\ \A i \in Axes \ {major} :
              /\ Dir(i) * (pos'[i] - from[i]) \in 0 .. share[i]
              /\ share[i] * Travel(major, from, tgt) <= Travel(i, from, tgt) * (inc + 1)
<1>1. /\ inc \in Nat /\ major \in Axes
      /\ \A i \in Axes : pos[i] \in Int /\ from[i] \in Int /\ Dir(i) \in {-1, 1}
  BY MoveNumbers
<1>2. pos' = [i \in Axes |-> pos[i] + StepsOf(share)[i]]
  BY DEF IncAxes
<1>3. \A i \in Axes : StepsOf(share)[i] \in {-1, 0, 1}
  BY StepsOfType
<1>4. ASSUME NEW i \in Axes
      PROVE  Dir(i) * (pos'[i] - from[i])
               = Dir(i) * (pos[i] - from[i]) + Dir(i) * StepsOf(share)[i]
  BY <1>1, <1>2, <1>3
<1>5. ASSUME NEW i \in Axes \ {major}
      PROVE  /\ Dir(i) * (pos'[i] - from[i]) \in 0 .. share[i]
             /\ share[i] * Travel(major, from, tgt) <= Travel(i, from, tgt) * (inc + 1)
  <2>1. LET made == Dir(i) * (pos[i] - from[i])
            step == Dir(i) * StepsOf(share)[i]
        IN made \in Nat /\ step \in {0, 1} /\ made + step <= share[i]
    BY AxisAdvance
  <2>2. share[i] \in Nat
    BY ShareOnLine
  <2>. QED  BY <1>4, <2>1, <2>2, ShareOnLine
<1>6. pos'[major] = from[major] + Dir(major) * (inc + 1)
  <2>1. StepsOf(share)[major] = Dir(major)
    BY <1>1 DEF StepsOf
  <2>2. pos[major] = from[major] + Dir(major) * inc
    BY DEF MoveInv
  <2>. QED  BY <1>1, <1>2, <1>3, <2>1, <2>2
<1>. QED  BY <1>5, <1>6

\* An iteration of the loop preserves MoveInv.
LEMMA MoveStep ==
  ASSUME TypeOK, MoveInv, Timely, Step
  PROVE  MoveInv'
<1>1. CASE Return("0")
  BY <1>1 DEF Return, NoMove, MoveInv
<1>2. ASSUME NEW share \in Interpolations(inc), IncAxes(StepsOf(share)),
             inc + 1 < Travel(major, from, tgt),
             inc' = inc + 1, due' = share, UNCHANGED <<from, tgt, major, dt, call>>
      PROVE  MoveInv'
  <2>1. call = "cncmove"
    BY DEF Step
  <2>2. /\ pos'[major] = from[major] + Dir(major) * (inc + 1)
        /\ \A i \in Axes \ {major} :
             /\ Dir(i) * (pos'[i] - from[i]) \in 0 .. share[i]
             /\ share[i] * Travel(major, from, tgt) <= Travel(i, from, tgt) * (inc + 1)
    BY <1>2, <2>1, AfterIteration
  <2>3. \A i \in Axes : Dir(i)' = Dir(i)
    BY <1>2 DEF Dir
  <2>4. Dir(major)' = Dir(major)
    BY <1>2 DEF Dir
  <2>5. Leads(major, from, tgt)' /\ dt' \in StepTimes /\ (inc < Travel(major, from, tgt))'
        /\ call' = "cncmove"
    BY <1>2, <2>1 DEF MoveInv
  <2>. QED  BY <1>2, <2>2, <2>3, <2>4, <2>5 DEF MoveInv
<1>3. QED
  BY <1>1, <1>2 DEF Step

\* Everything else leaves the move alone, ends it, or happens outside one.
LEMMA MoveQuiet ==
  ASSUME TypeOK, MoveInv, [Next]_vars
  PROVE  \/ Step
         \/ \E v2 \in Targets : Begins(v2)
         \/ \E v \in Targets : SetPos(v)
         \/ Return("EINTR") /\ call = "cncmove" /\ UNCHANGED pos
         \/ call \in {"none", "estop"} /\ call' \in {"none", "estop"} /\ UNCHANGED <<pos, from, tgt, major>>
         \/ UNCHANGED <<call, moveVars, pos>>
<1> USE DEF servoVars
<1>1. CASE PollLow \/ PollOpen \/ PollDebounce \/ World \/ UNCHANGED vars
  BY <1>1 DEF PollLow, PollOpen, PollDebounce, World, Press, Release, vars
<1>2. CASE PollRaised
  <2>1. CASE call = "cncmove"
    BY <1>2, <2>1 DEF PollRaised
  <2>2. CASE call = "estop"
    BY <1>2, <2>2 DEF PollRaised, Return, NoMove, MoveInv
  <2>3. QED
    BY <1>2, <2>1, <2>2 DEF PollRaised, Polling, TypeOK, CallTypes
<1>3. CASE EstopClear
  BY <1>3 DEF EstopClear, Return, NoMove, MoveInv
<1>4. CASE Step
  BY <1>4
<1>5. CASE Syscalls
  <2>1. ASSUME NEW v \in Targets, NEW bad \in BOOLEAN, CncMove(v, bad)
        PROVE  Begins(v) \/ UNCHANGED <<call, moveVars, pos>>
    BY <2>1, CncMoveCases
  <2>2. CASE Estop
    BY <2>2 DEF Estop, moveVars
  <2>3. ASSUME NEW hz \in BOOLEAN, SetTimings(hz)
        PROVE  UNCHANGED <<call, moveVars, pos>>
    BY <2>3 DEF SetTimings, Idle
  <2>4. CASE ClrStats
    BY <2>4 DEF ClrStats, Idle
  <2>5. ASSUME NEW e \in Estops, EstopOpen(e) \/ EstopClose(e) \/ EstopRead(e)
        PROVE  UNCHANGED <<call, moveVars, pos>>
    BY <2>5 DEF EstopOpen, EstopClose, EstopRead, Idle
  <2>6. QED
    BY <1>5, <2>1, <2>2, <2>3, <2>4, <2>5 DEF Syscalls
<1>6. QED
  BY <1>1, <1>2, <1>3, <1>4, <1>5 DEF Next, Kernel

\* Every step of the system preserves MoveInv.
LEMMA MoveNext ==
  ASSUME TypeOK, TypeOK', MoveInv, Timely, [Next]_vars
  PROVE  MoveInv'
<1>1. ASSUME NEW v \in Targets, SetPos(v) PROVE MoveInv'
  BY <1>1 DEF SetPos, Idle, moveVars, MoveInv
<1>2. CASE Return("EINTR")
  BY <1>2 DEF Return, NoMove, MoveInv
<1>3. CASE call \in {"none", "estop"} /\ call' \in {"none", "estop"} /\ UNCHANGED <<pos, from, tgt, major>>
  BY <1>3 DEF MoveInv
<1>4. CASE UNCHANGED <<call, moveVars, pos>>
  BY <1>4 DEF MoveInv, moveVars, Dir
<1>5. QED
  BY <1>1, <1>2, <1>3, <1>4, MoveQuiet, MoveStep, MoveBegin

\* An axis that has made part of its travel is at, or on one side of, its
\* target, and one more increment in its sense is one towards the target.
LEMMA TowardsTarget ==
  ASSUME TypeOK, NEW i \in Axes, NEW made \in Nat,
         made = Dir(i) * (pos[i] - from[i]), made <= Travel(i, from, tgt)
  PROVE  /\ made = Travel(i, from, tgt) => pos[i] = tgt[i]
         /\ made < Travel(i, from, tgt) => Abs!Towards(i, pos, tgt) = pos[i] + Dir(i)
         /\ made < Travel(i, from, tgt) => pos[i] # tgt[i]
<1>1. pos[i] \in Int /\ from[i] \in Int /\ tgt[i] \in Int
  BY DEF TypeOK, ServoTypes, MoveTypes
<1>2. CASE tgt[i] > from[i]
  BY <1>1, <1>2 DEF Dir, Travel, AbsInt, Abs!Towards
<1>3. CASE ~(tgt[i] > from[i])
  BY <1>1, <1>3 DEF Dir, Travel, AbsInt, Abs!Towards
<1>4. QED
  BY <1>2, <1>3


\* An iteration of the loop advances the major axis, and takes no axis away
\* from its target or past it.
LEMMA IterationAdvances ==
  ASSUME TypeOK, MoveInv, Timely, call = "cncmove",
         NEW share \in Interpolations(inc), IncAxes(StepsOf(share))
  PROVE  /\ pos' \in [Axes -> Int]
         /\ \A i \in Axes : pos'[i] \in {pos[i], Abs!Towards(i, pos, tgt)}
         /\ pos'[major] = Abs!Towards(major, pos, tgt)
         /\ pos[major] # tgt[major]
         /\ pos'[major] = tgt[major] <=> inc + 1 = Travel(major, from, tgt)
<1>1. inc \in Nat /\ major \in Axes /\ inc < Travel(major, from, tgt)
  BY MoveNumbers DEF MoveInv
<1>2. \A i \in Axes : pos'[i] = pos[i] + StepsOf(share)[i]
  BY DEF IncAxes
<1>3. \A i \in Axes : /\ Dir(i) \in {-1, 1} /\ StepsOf(share)[i] \in {-1, 0, 1}
                     /\ pos[i] \in Int /\ from[i] \in Int /\ tgt[i] \in Int
                     /\ Travel(i, from, tgt) \in Nat
  BY MoveNumbers, StepsOfType
<1>4. ASSUME NEW i \in Axes
      PROVE  /\ Dir(i) * (pos[i] - from[i]) \in Nat
             /\ StepsOf(share)[i] = 0
                  \/ /\ StepsOf(share)[i] = Dir(i)
                     /\ Dir(i) * (pos[i] - from[i]) < Travel(i, from, tgt)
             /\ Dir(i) * (pos[i] - from[i]) <= Travel(i, from, tgt)
  <2> DEFINE made == Dir(i) * (pos[i] - from[i])
             step == Dir(i) * StepsOf(share)[i]
  <2>1. made \in Nat /\ step \in {0, 1} /\ made + step <= Travel(i, from, tgt)
    BY AxisAdvance
  <2>2. step = 0 => StepsOf(share)[i] = 0
    BY <1>3
  <2>3. step = 1 => StepsOf(share)[i] = Dir(i)
    BY <1>3
  <2> HIDE DEF made, step
  <2>4. made <= Travel(i, from, tgt) /\ (step = 1 => made < Travel(i, from, tgt))
    BY <1>3, <2>1
  <2>. QED  BY <2>1, <2>2, <2>3, <2>4 DEF made
<1>5. ASSUME NEW i \in Axes
      PROVE  pos'[i] \in {pos[i], Abs!Towards(i, pos, tgt)}
  BY <1>2, <1>3, <1>4, TowardsTarget
<1>6. /\ StepsOf(share)[major] = Dir(major)
      /\ Dir(major) * (pos[major] - from[major]) = inc
  BY <1>1, <1>3 DEF StepsOf, MoveInv
<1>7. /\ pos'[major] = Abs!Towards(major, pos, tgt)
      /\ pos'[major] = pos[major] + Dir(major)
      /\ pos[major] # tgt[major]
  BY <1>1, <1>2, <1>3, <1>6, TowardsTarget
<1>8. pos'[major] = tgt[major] <=> inc + 1 = Travel(major, from, tgt)
  <2>1. tgt[major] = from[major] + Dir(major) * Travel(major, from, tgt)
    BY <1>1, <1>3 DEF Dir, Travel, AbsInt
  <2>2. pos'[major] = from[major] + Dir(major) * (inc + 1)
    BY <1>1, <1>3, <1>6, <1>7
  <2>3. QED
    BY <1>1, <1>3, <2>1, <2>2
<1>9. pos' \in [Axes -> Int]
  <2>1. \A i \in Axes : pos[i] + StepsOf(share)[i] \in Int
    BY <1>3
  <2>2. QED
    BY <2>1 DEF IncAxes
<1>10. QED
  BY <1>5, <1>7, <1>8, <1>9

\* An iteration of the loop is an Advance of the abstract move.
LEMMA StepSimulates ==
  ASSUME TypeOK, MoveInv, Timely, Step
  PROVE  Abs!Advance
<1>1. call = "cncmove" /\ inc \in Nat /\ major \in Axes
  BY DEF Step, TypeOK, MoveTypes
<1>2. /\ pos' \in [Axes -> Int]
      /\ \A i \in Axes : pos'[i] \in {pos[i], Abs!Towards(i, pos, tgt)}
      /\ pos'[major] = Abs!Towards(major, pos, tgt)
      /\ pos[major] # tgt[major]
      /\ pos'[major] = tgt[major] <=> inc + 1 = Travel(major, from, tgt)
  BY <1>1, IterationAdvances DEF Step
<1>3. inc < Travel(major, from, tgt) /\ Travel(major, from, tgt) \in Nat
  BY <1>1, MoveNumbers DEF MoveInv
<1>4. CASE inc + 1 < Travel(major, from, tgt)
  <2>1. pos'[major] # tgt[major]
    BY <1>1, <1>2, <1>4
  <2>2. call' = "cncmove" /\ UNCHANGED <<tgt, major>>
    BY <1>1, <1>4 DEF Step
  <2>3. QED
    BY <1>1, <1>2, <2>1, <2>2 DEF Abs!Advance
<1>5. CASE ~(inc + 1 < Travel(major, from, tgt))
  <2>1. pos'[major] = tgt[major]
    BY <1>1, <1>2, <1>3, <1>5
  <2>2. call' = "none"
    BY <1>5 DEF Step, Return
  <2>3. QED
    BY <1>1, <1>2, <2>1, <2>2 DEF Abs!Advance
<1>6. QED
  BY <1>4, <1>5

\* Entering cncmove is a Begin of the abstract move, or a stutter.
LEMMA BeginSimulates ==
  ASSUME TypeOK, NEW v2 \in Targets, Begins(v2)
  PROVE  Abs!Begin
<1>1. v2 \in [Axes -> Int] /\ pos \in [Axes -> Int]
  BY MachineAssumption DEF TypeOK, ServoTypes
<1>2. \A i \in Axes : Abs!Distance(i, pos, v2) = Travel(i, pos, v2)
  BY <1>1 DEF Abs!Distance, Travel, AbsInt
<1>3. \A i \in Axes : Abs!Distance(i, pos, v2) <= Abs!Distance(major', pos, v2)
  BY <1>2 DEF Begins, Leads
<1>4. pos[major'] # v2[major']
  BY SomewhereToGo DEF Begins
<1>5. QED
  BY <1>3, <1>4 DEF Abs!Begin, Begins

\* Every step of the system is a step of the abstract move, or a stutter.
LEMMA NextSimulates ==
  ASSUME TypeOK, TypeOK', MoveInv, Timely, [Next]_vars
  PROVE  [Abs!Next]_(Abs!vars)
<1>1. CASE Step
  BY <1>1, StepSimulates DEF Abs!Next
<1>2. ASSUME NEW v \in Targets, Begins(v) PROVE Abs!Next
  BY <1>2, BeginSimulates DEF Abs!Next
<1>3. ASSUME NEW v \in Targets, SetPos(v) PROVE Abs!Next
  BY <1>3 DEF SetPos, Idle, moveVars, Abs!Teach, Abs!Next
<1>4. CASE Return("EINTR") /\ call = "cncmove" /\ UNCHANGED pos
  BY <1>4 DEF Return, Abs!Abandon, Abs!Next
<1>5. CASE call \in {"none", "estop"} /\ call' \in {"none", "estop"} /\ UNCHANGED <<pos, from, tgt, major>>
  BY <1>5 DEF Abs!vars
<1>6. CASE UNCHANGED <<call, moveVars, pos>>
  BY <1>6 DEF moveVars, Abs!vars
<1>7. QED
  BY <1>1, <1>2, <1>3, <1>4, <1>5, <1>6, MoveQuiet

\* As long as the moves are timely, MoveInv holds throughout.
LEMMA MoveKept == Spec /\ []Timely => []MoveInv
<1>1. TypeOK /\ TypeOK' /\ MoveInv /\ Timely /\ [Next]_vars => MoveInv'
  BY MoveNext
<1>2. QED
  BY <1>1, MoveInit, Typing, PTL DEF Spec

\* Whatever the targets, the interruptions and the redefinitions of the
\* position, and however the floats of the loop round, timely moves advance
\* along their longest axis, never retreat, never pass their target on any
\* axis, and are done exactly when the longest axis has arrived.
THEOREM Coordination == Spec /\ []Timely => Coordinated
<1>1. Init => Abs!Init
  <2>1. 0 \in Axes
    BY MachineAssumption DEF Axes
  <2>2. QED
    BY <2>1 DEF Init, Origin, Abs!Init
<1>2. TypeOK /\ TypeOK' /\ MoveInv /\ Timely /\ [Next]_vars => [Abs!Next]_(Abs!vars)
  BY NextSimulates
<1>3. QED
  BY <1>1, <1>2, MoveKept, Typing, PTL DEF Spec, Coordinated, Abs!Spec

-----------------------------------------------------------------------------
(* The line.                                                               *)

\* MoveInv gives BehindTheLine.
LEMMA LineMeans == ASSUME TypeOK, MoveInv PROVE BehindTheLine
<1> SUFFICES ASSUME call = "cncmove", NEW i \in Axes
             PROVE  Dir(i) * (pos[i] - from[i]) * Travel(major, from, tgt)
                      <= Travel(i, from, tgt) * inc
  BY DEF BehindTheLine, MoveInv
<1>1. /\ inc \in Nat /\ Travel(major, from, tgt) \in Nat \ {0}
      /\ Travel(i, from, tgt) \in Nat /\ due[i] \in Nat
      /\ pos[i] \in Int /\ from[i] \in Int /\ Dir(i) \in {-1, 1}
  BY MoveNumbers
<1> DEFINE made == Dir(i) * (pos[i] - from[i])
           L == Travel(major, from, tgt)
<1>2. CASE i = major
  <2>1. made = inc
    BY <1>1, <1>2 DEF MoveInv
  <2>. QED  BY <1>1, <1>2, <2>1
<1>3. CASE i # major
  <2>1. made \in Nat /\ made <= due[i] /\ due[i] * L <= Travel(i, from, tgt) * inc
    BY <1>1, <1>3 DEF MoveInv
  <2>2. L \in Nat /\ Travel(i, from, tgt) * inc \in Nat /\ due[i] * L \in Nat
    BY <1>1
  <2> HIDE DEF made, L
  <2>3. made * L <= due[i] * L /\ made * L \in Nat
    BY <1>1, <2>1, <2>2, ProductMonotone
  <2>4. made * L <= Travel(i, from, tgt) * inc
    BY <2>1, <2>2, <2>3
  <2>. QED  BY <2>4 DEF made, L
<1>. QED  BY <1>2, <1>3

\* As long as moves are timely, no axis is ahead of the line.
THEOREM LineKept == Spec /\ []Timely => []BehindTheLine
<1>1. TypeOK /\ MoveInv => BehindTheLine
  BY LineMeans
<1>2. QED
  BY <1>1, MoveKept, Typing, PTL DEF Spec

-----------------------------------------------------------------------------
(* What makes moves timely.                                                *)

\* Where the machine is, where its move began and where it is going, between
\* lo and hi.
Within(lo, hi) ==
  \A i \in Axes : /\ lo <= pos[i] /\ pos[i] <= hi
                  /\ lo <= from[i] /\ from[i] <= hi
                  /\ lo <= tgt[i] /\ tgt[i] <= hi

\* No timely move leaves the range of the positions it is given, wherever it
\* starts and stops in it.
LEMMA RangeKept ==
  ASSUME NEW lo \in Int, NEW hi \in Int, lo <= 0, 0 <= hi,
         \A v \in Targets, i \in Axes : lo <= v[i] /\ v[i] <= hi
  PROVE  /\ Init => Within(lo, hi)
         /\ TypeOK /\ TypeOK' /\ MoveInv /\ Timely /\ Within(lo, hi) /\ [Next]_vars
              => Within(lo, hi)'
<1>1. Init => Within(lo, hi)
  BY DEF Init, Origin, Within
<1>2. ASSUME TypeOK, TypeOK', MoveInv, Timely, Within(lo, hi), [Next]_vars
      PROVE  Within(lo, hi)'
  <2>1. pos \in [Axes -> Int] /\ tgt \in [Axes -> Int]
    BY <1>2 DEF TypeOK, ServoTypes, MoveTypes
  <2>2. CASE Step
    <3>1. \A i \in Axes : pos'[i] \in {pos[i], Abs!Towards(i, pos, tgt)}
      BY <1>2, <2>2, StepSimulates DEF Abs!Advance
    <3>2. \A i \in Axes : lo <= pos'[i] /\ pos'[i] <= hi
      BY <1>2, <2>1, <3>1 DEF Within, Abs!Towards
    <3>3. UNCHANGED <<from, tgt>> \/ (from' = Origin /\ tgt' = Origin)
      BY <2>2 DEF Step, Return, NoMove
    <3>. QED  BY <1>2, <3>2, <3>3 DEF Within, Origin
  <2>3. ASSUME NEW v \in Targets, Begins(v) PROVE Within(lo, hi)'
    BY <1>2, <2>3 DEF Begins, Within
  <2>4. ASSUME NEW v \in Targets, SetPos(v) PROVE Within(lo, hi)'
    BY <1>2, <2>4 DEF SetPos, Idle, moveVars, Within
  <2>5. CASE Return("EINTR") /\ UNCHANGED pos
    BY <1>2, <2>5 DEF Return, NoMove, Origin, Within
  <2>6. CASE UNCHANGED <<pos, from, tgt>>
    BY <1>2, <2>6 DEF Within
  <2>. QED  BY <1>2, <2>2, <2>3, <2>4, <2>5, <2>6, MoveQuiet DEF moveVars
<1>. QED  BY <1>1, <1>2

\* An iteration of at most half a second leaves room for the rounding of as
\* many operations as half of what the precision tells apart.
LEMMA HalfSecond ==
  ASSUME NEW k \in Nat, NEW n \in Nat \ {0}, NEW q \in Nat \ {0}, NEW P \in Nat \ {0},
         NEW R \in Nat, 2 * n <= q, R <= P
  PROVE  k * n * (P + R) <= (k + 1) * q * P
<1>1. k * n \in Nat /\ P + R \in Nat /\ P + R <= 2 * P /\ 2 * P \in Nat
  OBVIOUS
<1>2. (k * n) * (P + R) <= (k * n) * (2 * P)
  BY <1>1, ProductMonotone
<1>3. (k * n) * (2 * P) = (2 * n) * (k * P)
  OBVIOUS
<1>4. (2 * n) * (k * P) <= q * (k * P)
  <2>1. k * P \in Nat /\ 2 * n \in Nat
    OBVIOUS
  <2>. QED  BY <2>1, ProductMonotone
<1>5. (k + 1) * q * P = q * (k * P) + q * P
  OBVIOUS
<1>6. q * (k * P) \in Nat /\ q * P \in Nat /\ (k * n) * (P + R) \in Nat
      /\ (k * n) * (2 * P) \in Nat /\ (2 * n) * (k * P) \in Nat
  BY <1>1
<1>. QED  BY <1>2, <1>3, <1>4, <1>5, <1>6

\* On a machine whose iterations last at most half a second each, and whose
\* moves are shorter than half of what a cnc_real_t tells apart (8 million
\* increments in the code), every move is timely.
THEOREM QuickMoves ==
  ASSUME NEW lo \in Int, NEW hi \in Int, lo <= 0, 0 <= hi,
         \A v \in Targets, i \in Axes : lo <= v[i] /\ v[i] <= hi,
         \A s \in StepTimes : 2 * s[1] <= s[2],
         2 * (hi - lo + 3) <= Precision
  PROVE  Spec => []Timely
<1>1. TypeOK /\ MoveInv /\ Within(lo, hi) => Timely
  <2> SUFFICES ASSUME TypeOK, MoveInv, Within(lo, hi), call = "cncmove"
               PROVE  inc * dt[1] * (Precision + Rounding(inc))
                        <= (inc + 1) * dt[2] * Precision
    BY DEF Timely
  <2>1. /\ inc \in Nat /\ major \in Axes /\ dt[1] \in Nat \ {0} /\ dt[2] \in Nat \ {0}
        /\ from[major] \in Int /\ tgt[major] \in Int
    BY MoveNumbers
  <2>2. 2 * dt[1] <= dt[2] /\ inc < Travel(major, from, tgt)
    BY DEF MoveInv
  <2>3. Travel(major, from, tgt) \in Nat /\ Travel(major, from, tgt) <= hi - lo
    BY <2>1 DEF Within, Travel, AbsInt
  <2>4. Rounding(inc) \in Nat /\ Rounding(inc) <= Precision
    BY <2>1, <2>2, <2>3, MachineAssumption DEF Rounding
  <2>5. Precision \in Nat \ {0}
    BY MachineAssumption
  <2> DEFINE n == dt[1]
             q == dt[2]
             R == Rounding(inc)
  <2> HIDE DEF n, q, R
  <2>6. inc * n * (Precision + R) <= (inc + 1) * q * Precision
    BY <2>1, <2>2, <2>4, <2>5, HalfSecond DEF n, q, R
  <2>. QED  BY <2>6 DEF n, q, R
<1>2. Init => MoveInv /\ Within(lo, hi)
  BY MoveInit, RangeKept
<1>3. TypeOK /\ TypeOK' /\ MoveInv /\ Timely /\ Within(lo, hi) /\ [Next]_vars
        => MoveInv' /\ Within(lo, hi)'
  BY MoveNext, RangeKept
<1>4. QED
  BY <1>1, <1>2, <1>3, Typing, PTL DEF Spec
==============================================================================
