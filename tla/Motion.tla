-------------------------------- MODULE Motion --------------------------------
(***************************************************************************)
(* The motion core of sys/dev/cnc: the cncmove(2) signal generation loop,  *)
(* the servos it drives, the e-stops it polls, and the system calls other  *)
(* processes make between two moves.  This is the kernel without           *)
(* MOTIONCAPTURE (the shipped configuration): sys_cncmove runs at          *)
(* splhigh() from its first iteration to its return, so once a call is in  *)
(* progress no other system call and no other process runs, and the only   *)
(* thing that changes beside it is the world behind the input pins.        *)
(***************************************************************************)
EXTENDS Integers

CONSTANTS
  NAxes,          \* CNC_NAXES
  StepLen,        \* STEPLEN, the scale of the minor axes
  Precision,      \* a cnc_real_t is exact to one part in this (2^24)
  Targets,        \* the positions given to cncmove and to CNC_SETPOS
  StepTimes,      \* the pairs <<n, q>> such that dt may be n/q
  NEstops,        \* cnc_nestops
  Debounced,      \* the e-stops configured with ESTOP_DEBOUNCE
  DebounceReads,  \* reads of one estop_debounce() (10 in the code)
  MaxStats        \* bound: cnc_stats.estops saturates here

Axes == 0 .. NAxes - 1
Estops == 1 .. NEstops

ASSUME MachineAssumption ==
  /\ NAxes \in Nat \ {0}
  /\ StepLen \in Nat \ {0}
  /\ Targets \subseteq [Axes -> Int]
  /\ StepTimes \subseteq (Nat \ {0}) \X (Nat \ {0})
  /\ Precision \in Nat \ {0}

ASSUME EstopAssumption ==
  /\ NEstops \in Nat
  /\ Debounced \subseteq Estops
  /\ DebounceReads \in Nat \ {0}
  /\ MaxStats \in Nat

VARIABLES
  calibrated,     \* cnc_timings.hz # 0
  pos,            \* cnc_pos
  scDir,          \* sc_dir of each servo: 0 before its first step, then 1 or -1
  dirPin,         \* level of each DIR pin
  stepPin,        \* level of each STEP pin, which sc_step mirrors
  pin,            \* level of each ESTOP input
  open,           \* sc_open of each e-stop
  queued,         \* sc_queued of each e-stop
  estops,         \* cnc_stats.estops
  call,           \* the system call in progress: "none", "cncmove" or "estop"
  from,           \* v1, the position where the move began
  tgt,            \* v2, where it is to end
  major,          \* axisMajor
  dt,             \* dt as a pair <<n, q>>
  inc,            \* iterations of the loop completed
  due,            \* |incMin| of each minor axis, as last computed
  idx,            \* i in cnc_estop_raised()
  reads,          \* consecutive high reads of e-stop idx in this poll
  result,         \* what the last cncmove or estop call returned
  slip,           \* history: motor travel that cnc_pos does not account for
  held            \* history: e-stops high ever since the poll in progress began

servoVars == <<pos, scDir, dirPin, stepPin, slip>>
estopVars == <<open, queued, estops>>
moveVars == <<from, tgt, major, dt, inc, due>>
pollVars == <<idx, reads>>

vars == <<calibrated, servoVars, estopVars, moveVars, pollVars, pin,
          call, result, held>>

Origin == [i \in Axes |-> 0]

AbsInt(x) == IF x < 0 THEN -x ELSE x

Raised == {e \in Estops : pin[e]}

-----------------------------------------------------------------------------
(* The plan of a move: everything sys_cncmove computes before its loop.    *)

\* d.v[i] before it is rescaled.
Travel(i, v1, v2) == AbsInt(v2[i] - v1[i])

\* axisMajor: the first axis with the greatest travel.
Leads(m, v1, v2) ==
  \A i \in Axes : /\ Travel(i, v1, v2) <= Travel(m, v1, v2)
                  /\ i < m => Travel(i, v1, v2) < Travel(m, v1, v2)

\* dt = (Ta + To)/L for a move of L increments.  cnc_quintic_init yields
\* Ta + To < L + 1 seconds for all non-zero integers F, Amax and Jmax.
Profiled(s, L) == (s[1] - s[2]) * L < s[2]

\* Faulty: the sign is not taken.
DirUnsigned(i) == tgt[i] - from[i]

Dir(i) == IF tgt[i] > from[i] THEN 1 ELSE -1

\* Faulty: not divided by the travel of the major axis.
ScaledOnly(i) == Travel(i, from, tgt) * StepLen

\* d.v[i] of a minor axis, rescaled to StepLen over the travel of the major.
Scaled(i) == (Travel(i, from, tgt) * StepLen) \div Travel(major, from, tgt)

\* What k additions of dt, a conversion, a product and a quotient of floats
\* may be off by, in parts of Precision: twice their number bounds the error
\* for as long as that is less than Precision, and a sum of equal terms,
\* which no addition more than doubles, from there on.
Rounding(k) == 2 * (k + 3)

\* The values |incMin| of minor axis i may have at iteration k, where t is
\* k * dt but for rounding.  The division truncates towards zero, so the sign
\* is that of Dir(i); no operation on floats is decreasing, and t never
\* decreases, so neither does the value.
Shares(i, k) ==
  LET num == Scaled(i) * k * dt[1]
      den == dt[2] * StepLen
  IN  IF i = major THEN {0}
      ELSE {s \in due[i] .. (num * (Precision + Rounding(k))) \div (den * Precision) :
              (s + 1) * den * Precision > num * (Precision - Rounding(k))}

\* What iteration k may compute for the minor axes.
Interpolations(k) ==
  {f \in [Axes -> UNION {Shares(i, k) : i \in Axes}] : \A i \in Axes : f[i] \in Shares(i, k)}

-----------------------------------------------------------------------------
(* Servos.                                                                 *)

\* The steps one iteration makes: the major axis always, a minor axis when
\* the interpolated position differs from the counted one, whichever way.
StepsOf(share) ==
  [i \in Axes |->
     IF \/ i = major
        \/ from[i] + Dir(i) * share[i] # pos[i]
     THEN Dir(i) ELSE 0]

\* Faulty: servo_set_dir()'s test, under which -1 also drives DIR high.
DirLevelNonzero(i, d) == IF d = 0 \/ scDir[i] = d THEN dirPin[i] ELSE d # 0

\* servo_step(): DIR is rewritten only when the sense changes.
DirLevel(i, d) == IF d = 0 \/ scDir[i] = d THEN dirPin[i] ELSE d = 1

\* A motor driver moves one increment per edge of STEP in the sense of DIR.
Driven(i, d) == IF d = 0 THEN 0 ELSE IF DirLevel(i, d) THEN 1 ELSE -1

\* cnc_inc_axis() for every axis with steps[i] # 0.
IncAxes(steps) ==
  /\ scDir' = [i \in Axes |-> IF steps[i] = 0 THEN scDir[i] ELSE steps[i]]
  /\ dirPin' = [i \in Axes |-> DirLevel(i, steps[i])]
  /\ stepPin' = [i \in Axes |-> IF steps[i] = 0 THEN stepPin[i] ELSE ~stepPin[i]]
  /\ pos' = [i \in Axes |-> pos[i] + steps[i]]
  /\ slip' = [i \in Axes |-> slip[i] + Driven(i, steps[i]) - steps[i]]

-----------------------------------------------------------------------------
(* System calls: entry and return.                                         *)

NoTime == <<0, 1>>

\* What stands in the move variables while no move is in progress.
NoMove == /\ from' = Origin
          /\ tgt' = Origin
          /\ major' = 0
          /\ dt' = NoTime
          /\ inc' = 0
          /\ due' = Origin

BeginPoll == idx' = 1 /\ reads' = 0 /\ held' = Raised

Return(r) == /\ call' = "none"
             /\ result' = r
             /\ NoMove
             /\ idx' = 1 /\ reads' = 0 /\ held' = {}

\* cncmove(vel, v2).  badVel: F, Amax or Jmax is zero.
CncMove(v2, badVel) ==
  /\ call = "none"
  /\ \/ /\ ~calibrated
        /\ result' = "ENXIO"
        /\ UNCHANGED <<call, moveVars, pollVars, held>>
     \/ /\ calibrated /\ badVel
        /\ result' = "EINVAL"
        /\ UNCHANGED <<call, moveVars, pollVars, held>>
     \/ /\ calibrated /\ ~badVel /\ v2 = pos
        /\ result' = "0"
        /\ UNCHANGED <<call, moveVars, pollVars, held>>
     \/ /\ calibrated /\ ~badVel /\ v2 # pos
        /\ call' = "cncmove"
        /\ result' = "none"
        /\ from' = pos
        /\ tgt' = v2
        /\ inc' = 0
        /\ due' = Origin
        /\ \E m \in Axes : Leads(m, pos, v2) /\ major' = m
        /\ dt' \in {s \in StepTimes : Profiled(s, Travel(major', pos, v2))}
        /\ BeginPoll
  /\ UNCHANGED <<calibrated, servoVars, estopVars, pin>>

\* estop(): one poll of the e-stops on behalf of a process.
Estop ==
  /\ call = "none"
  /\ call' = "estop"
  /\ result' = "none"
  /\ BeginPoll
  /\ UNCHANGED <<calibrated, servoVars, estopVars, moveVars, pin>>

-----------------------------------------------------------------------------
(* cnc_estop_raised(), one pin read at a time.                             *)

Polling == call # "none" /\ idx \in Estops

Count == estops' = IF estops < MaxStats THEN estops + 1 ELSE estops

NextEstop == idx' = idx + 1 /\ reads' = 0

\* The input reads low: not raised, or the end of a bounce.
PollLow ==
  /\ Polling
  /\ ~pin[idx]
  /\ NextEstop
  /\ UNCHANGED <<calibrated, servoVars, estopVars, moveVars, pin, call, result, held>>

\* Faulty: an open e-stop ends the poll and hides those after it.
PollOpenMasks ==
  /\ Polling
  /\ pin[idx] /\ open[idx]
  /\ Count
  /\ queued' = [queued EXCEPT ![idx] = TRUE]
  /\ idx' = NEstops + 1 /\ reads' = 0
  /\ UNCHANGED <<calibrated, servoVars, open, moveVars, pin, call, result, held>>

\* Faulty: an open e-stop is waited for.
PollOpenWaits ==
  /\ Polling
  /\ pin[idx] /\ open[idx]
  /\ Count
  /\ queued' = [queued EXCEPT ![idx] = TRUE]
  /\ UNCHANGED <<calibrated, servoVars, open, moveVars, pollVars, pin, call, result, held>>

\* A raised e-stop whose device is open is only reported to its reader.
PollOpen ==
  /\ Polling
  /\ pin[idx] /\ open[idx]
  /\ Count
  /\ queued' = [queued EXCEPT ![idx] = TRUE]
  /\ NextEstop
  /\ UNCHANGED <<calibrated, servoVars, open, moveVars, pin, call, result, held>>

\* The input reads high, and estop_debounce() has reads left to make.
PollDebounce ==
  /\ Polling
  /\ pin[idx] /\ ~open[idx]
  /\ idx \in Debounced /\ reads < DebounceReads
  /\ reads' = reads + 1
  /\ UNCHANGED <<calibrated, servoVars, estopVars, moveVars, pin, call, result, held, idx>>

\* Raised: the poll returns 1, which ends a move with EINTR; estop() returns
\* it as its error number, and 1 is EPERM.
PollRaised ==
  /\ Polling
  /\ pin[idx] /\ ~open[idx]
  /\ idx \in Debounced => reads = DebounceReads
  /\ Count
  /\ Return(IF call = "cncmove" THEN "EINTR" ELSE "EPERM")
  /\ UNCHANGED <<calibrated, servoVars, open, queued, pin>>

\* No e-stop stopped the poll made by estop().
EstopClear ==
  /\ call = "estop" /\ idx = NEstops + 1
  /\ Return("0")
  /\ UNCHANGED <<calibrated, servoVars, estopVars, pin>>

\* Faulty: the loop runs while inc <= d.v[axisMajor].
StepOnceMore ==
  /\ call = "cncmove" /\ idx = NEstops + 1
  /\ \E share \in Interpolations(inc) :
       /\ IncAxes(StepsOf(share))
       /\ IF inc < Travel(major, from, tgt)
            THEN /\ inc' = inc + 1
                 /\ due' = share
                 /\ BeginPoll
                 /\ UNCHANGED <<from, tgt, major, dt, call, result>>
            ELSE Return("0")
  /\ UNCHANGED <<calibrated, estopVars, pin>>

\* No e-stop stopped the poll made by cncmove: the rest of the iteration,
\* the delay loop included, then the next iteration or the return.
Step ==
  /\ call = "cncmove" /\ idx = NEstops + 1
  /\ \E share \in Interpolations(inc) :
       /\ IncAxes(StepsOf(share))
       /\ IF inc + 1 < Travel(major, from, tgt)
            THEN /\ inc' = inc + 1
                 /\ due' = share
                 /\ BeginPoll
                 /\ UNCHANGED <<from, tgt, major, dt, call, result>>
            ELSE Return("0")
  /\ UNCHANGED <<calibrated, estopVars, pin>>

-----------------------------------------------------------------------------
(* What other processes do while no call is in progress.                   *)

Idle == /\ call = "none"
        /\ UNCHANGED <<moveVars, pollVars, call, result, held>>

\* CNC_SETPOS: the count is redefined, no pin is written.
SetPos(v) == /\ Idle
             /\ pos' = v
             /\ UNCHANGED <<calibrated, scDir, dirPin, stepPin, slip, estopVars, pin>>

\* CNC_SETTIMINGS with hz zero or not, and CNC_CALTIMINGS, which leaves
\* calibrated timings alone.
SetTimings(hz) == /\ Idle
                  /\ calibrated' = hz
                  /\ UNCHANGED <<servoVars, estopVars, pin>>

\* CNC_CLRSTATS.
ClrStats == /\ Idle
            /\ estops' = 0
            /\ UNCHANGED <<calibrated, servoVars, open, queued, pin>>

\* estopopen(), exclusive.
EstopOpen(e) == /\ Idle
                /\ ~open[e] /\ open' = [open EXCEPT ![e] = TRUE]
                /\ UNCHANGED <<calibrated, servoVars, queued, estops, pin>>

EstopClose(e) == /\ Idle
                 /\ open[e] /\ open' = [open EXCEPT ![e] = FALSE]
                 /\ queued' = [queued EXCEPT ![e] = FALSE]
                 /\ UNCHANGED <<calibrated, servoVars, estops, pin>>

\* estopread(): a queued event is consumed; otherwise the pin is read, which
\* changes nothing.
EstopRead(e) == /\ Idle
                /\ open[e] /\ queued[e]
                /\ queued' = [queued EXCEPT ![e] = FALSE]
                /\ UNCHANGED <<calibrated, servoVars, open, estops, pin>>

-----------------------------------------------------------------------------
(* The world: buttons are pressed, released, and bounce, at any moment.    *)

Press(e) == /\ ~pin[e]
            /\ pin' = [pin EXCEPT ![e] = TRUE]
            /\ UNCHANGED <<calibrated, servoVars, estopVars, moveVars, pollVars, call, result, held>>

Release(e) == /\ pin[e]
              /\ pin' = [pin EXCEPT ![e] = FALSE]
              /\ held' = held \ {e}
              /\ UNCHANGED <<calibrated, servoVars, estopVars, moveVars, pollVars, call, result>>

-----------------------------------------------------------------------------

Init ==
  /\ calibrated = FALSE
  /\ pos = Origin
  /\ scDir = Origin
  /\ dirPin = [i \in Axes |-> FALSE]
  /\ stepPin = [i \in Axes |-> FALSE]
  /\ pin = [e \in Estops |-> FALSE]
  /\ open = [e \in Estops |-> FALSE]
  /\ queued = [e \in Estops |-> FALSE]
  /\ estops = 0
  /\ call = "none"
  /\ from = Origin /\ tgt = Origin /\ major = 0 /\ dt = NoTime /\ inc = 0 /\ due = Origin
  /\ idx = 1 /\ reads = 0
  /\ result = "none"
  /\ slip = Origin
  /\ held = {}

\* The steps of the call in progress.
Kernel == PollLow \/ PollOpen \/ PollDebounce \/ PollRaised \/ EstopClear \/ Step

Syscalls ==
  \/ \E v \in Targets, bad \in BOOLEAN : CncMove(v, bad)
  \/ Estop
  \/ \E v \in Targets : SetPos(v)
  \/ \E hz \in BOOLEAN : SetTimings(hz)
  \/ ClrStats
  \/ \E e \in Estops : EstopOpen(e) \/ EstopClose(e) \/ EstopRead(e)

World == \E e \in Estops : Press(e) \/ Release(e)

Next == Kernel \/ Syscalls \/ World

\* The processor executes the call in progress: at splhigh() nothing
\* preempts it, whatever the buttons do.
Spec == Init /\ [][Next]_vars /\ WF_vars(Kernel)
-----------------------------------------------------------------------------
(* Properties.                                                             *)

ServoTypes ==
  /\ pos \in [Axes -> Int] /\ slip \in [Axes -> Int]
  /\ scDir \in [Axes -> {-1, 0, 1}]
  /\ dirPin \in [Axes -> BOOLEAN] /\ stepPin \in [Axes -> BOOLEAN]

EstopTypes ==
  /\ open \in [Estops -> BOOLEAN] /\ queued \in [Estops -> BOOLEAN]
  /\ estops \in 0 .. MaxStats

MoveTypes ==
  /\ from \in [Axes -> Int] /\ tgt \in [Axes -> Int]
  /\ major \in Axes /\ dt \in StepTimes \cup {NoTime} /\ inc \in Nat
  /\ due \in [Axes -> Nat]

PollTypes ==
  /\ idx \in 1 .. NEstops + 1 /\ reads \in 0 .. DebounceReads
  /\ held \subseteq Estops

CallTypes ==
  /\ calibrated \in BOOLEAN
  /\ call \in {"none", "cncmove", "estop"}
  /\ result \in {"none", "0", "EPERM", "EINTR", "ENXIO", "EINVAL"}

WorldTypes == pin \in [Estops -> BOOLEAN]

\* Every variable ranges over what the C declarations and the code allow.
TypeOK == ServoTypes /\ EstopTypes /\ MoveTypes /\ PollTypes /\ CallTypes /\ WorldTypes

\* Dead reckoning: whatever sequence of moves, reversals, interruptions and
\* CNC_SETPOS the machine goes through, the motors have travelled exactly
\* what cnc_pos counts, so the cached sc_dir never disagrees with the wire
\* when a step is made (servo_step, cnc_inc_axis).
DeadReckoning == slip = Origin

\* No axis is ever ahead of the straight line from where the move began to
\* its target, and the major axis is on it.  The loop does not look: it steps
\* a minor axis whenever the float it computed differs from the count, on
\* either side, so that a share that was once too large, or a count that
\* got past it, would drive the axis away (sys_cncmove).
BehindTheLine ==
  call = "cncmove" =>
    /\ pos[major] = from[major] + Dir(major) * inc
    /\ \A i \in Axes :
         Dir(i) * (pos[i] - from[i]) * Travel(major, from, tgt) <= Travel(i, from, tgt) * inc

\* An e-stop that was already high when an iteration began to poll, and was
\* high ever since, lets no motor move in that iteration, whatever the other
\* e-stops do and however many reads its debouncing takes, unless its device
\* is open (cnc_estop_raised, and the goto stop of sys_cncmove).
NoStepWhileHeld ==
  [][call = "cncmove" /\ pos' # pos => \A e \in held : open[e]]_vars

\* A move between arbitrary positions, interrupted at any point, is a
\* coordinated move: it advances along its longest axis, never retreats and
\* never passes its target on any axis (the loop of sys_cncmove).
Abs == INSTANCE CoordinatedMove WITH
         at <- pos, goal <- tgt, lead <- major, busy <- call = "cncmove"

Coordinated == Abs!Spec

\* "The call returns only when the motion is complete" (cncmove.2), and it
\* does return, though the kernel runs at splhigh() with nothing to preempt
\* it: polling and debouncing never hold the loop for ever.
CallReturns == call # "none" ~> call = "none"

\* cncmove.2: motion "from its current position to tgt", complete on return.
CompleteAtTarget ==
  [][call = "cncmove" /\ result' = "0" => pos' = tgt]_vars
==============================================================================
