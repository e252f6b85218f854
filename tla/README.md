# A verification project for FabBSD's motion control

FabBSD is an OpenBSD derivative that controls machine tools: the kernel drives
step/direction motors, spot welders and operator panels through GPIO pins, and
user programs ask it for moves with system calls. What is FabBSD's own lies in
`sys/dev/cnc`, `sys/sys/cnc.h`, `lib/libcnc`, and a dozen programs (`cncctl`,
`motioncap`, `jog`, `move`, `ngc`, `partclean`, ...); the rest of the tree is
OpenBSD. This project is about the former.

Paths below are relative to `src/`. `cnc.c` is `sys/dev/cnc/cnc.c`, and so on
for the other files of that directory.

## 1. Inventory

### Motion core (`cnc.c`, `cncvar.h`, `sys/sys/cnc.h`)

*State.* `cnc_pos` (the machine position, counted, never measured),
`cnc_timings.hz` (0 until calibrated), `cnc_stats`, `cnc_kinlimits`, the arrays
of registered devices with their counts.
*Operations.* `cncmove(2)`: plan (differences, the axis with the greatest
travel, rescaled minor axes, velocity profile), then one iteration per
increment of the major axis: poll the e-stops, step the major axis, step every
minor axis whose interpolated position differs from the counted one, record a
capture frame, busy-wait. `estop(2)`, `cncpos(2)`, and the ioctls of
`/dev/cnc` that read or write the state above.
*Interaction.* Calls the servos, e-stops, encoders, velocity profile and motion
capture. Callers are any number of processes.
*Hard.* The loop runs at `splhigh()` and is the only thing that can end it;
truncations and off-by-ones in the interpolation; a poll whose inputs change
between its reads; with motion capture, the loop sleeps at every iteration and
anything may change meanwhile.
*Correct when.* Count and motors agree; no axis gets ahead of its line, overshoots
or retreats; an e-stop that must be honoured stops the motors; every call returns.

### Servos (`cnc_servo.c`)

*State.* The cached direction and step level, and the DIR and STEP wires.
*Operations.* `servo_step()`. *Hard.* The cache decides whether DIR is written:
it must agree with the wire after any history. *Correct when.* Each call is one
edge of STEP with DIR in the sense asked for.

### E-stops (`cnc_estop.c`)

*State.* Open flag, queued event, input pin. *Operations.* state, debounced
state, `open`, `close`, `read`. *Interaction.* Polled by every iteration of a
move and by `estop(2)`; an open e-stop reports to its reader instead of
stopping the move. *Hard.* Bouncing, several e-stops, a state change in the
middle of a poll.

### Velocity profile (`cnc_quintic.c`, `cnc_math.c`)

Pure floating-point functions: `cnc_quintic_init()` turns a travel and limits
into time constants, `cnc_quintic_step()` evaluates the velocity that sets the
delay of an iteration.

### Motion capture (`cnc_capture.c`, `cnc_capturevar.h`, `usr.bin/motioncap`)

*State.* The capture mode, a buffer of frames with its fill, the file offset of
`/dev/cnc`. *Operations.* exclusive open, ioctl on/off, read, close.
*Interaction.* Movers append frames and sleep on the buffer; the reader copies
it, wakes them, and sleeps on the same channel. *Hard.* Lost wakeups; mode
changes under a sleeping move; overflow; death of the reader; signals.
*Correct when.* Nothing is written past the buffer, nobody sleeps for ever, and
interrupt levels are restored.

### Spot welders (`cnc_spotwelder.c`, three system calls in `cnc.c`)

*State.* A relay, three input pins, the local variables of the call in progress.
*Operations.* `cncspotweld(2)`, `cncspotweldtrig(2)`, `cncspotweldselect(2)`.
*Hard.* Busy-waits on a moving input at `splhigh()` without a time limit;
counting edges; leaving the relay closed. *Correct when.* The relay is closed
only inside a weld of its unit and for the time asked for; calls return; a
switch that is off is never reported on.

### Pulse generator and jog (`cnc_mpg.c`, `usr.bin/jog`)

*State.* The levels of the two quadrature wires as they were when each axis was
last served; jog's global target and its interval timer. *Operations.* `read` of
`/dev/mpg`, jog's loop, its SIGALRM handler. *Interaction.* The wheel and the
selector move between reads; any number of programs may read, and each read
consumes a click; jog sends the machine to its target with `cncmove(2)` half a
second after the last click. *Hard.* Levels that are stale after the selector
went elsewhere, quarters that are skipped, the handler between two steps of the
loop, two structures for one event. *Correct when.* What is reported of the wheel
is what it has turned, and a click that is read moves the machine.

### Calibration and cncctl (`cnc.c`, `usr.sbin/cncctl`, `etc/rc`)

*State.* `cnc_timings.hz`, the loop count of the calibration in progress, the
file `/var/db/cnc.timings` and what the disk has of it, who has `/dev/cnc` open.
*Operations.* `cnc_calibrate_hz()`: run the empty loop, compare with a second,
correct by four times the error, up to a hundred times, yielding in between;
`cncctl -C`: load the file, set the timings, calibrate and save if there are
none, set them again; `/etc/rc` runs it if the file exists. *Interaction.*
`cncmove(2)` refuses to move while `hz` is 0 and scales its delays with it.
*Hard.* A correction that may diverge; other processes between iterations; a
kill or a crash at each point of the saving. *Correct when.* `hz` is a
measurement, or 0, and the loop settles.

### Device registry (`cnc_device.c`, the `*_attach` routines, `dev/gpio`)

*State.* An array and a count per type of device, the pins that are mapped.
*Operations.* attachment, one device after the other, in the order of the
kernel's configuration. *Interaction.* The number of a servo is its axis in
`cncmove(2)`; the pins a device maps are its own. *Hard.* A device takes its
number before its pins are mapped; failures half way. *Correct when.* Pins
are not shared, none is lost without a reason, and numbers follow from the
configuration.

### RS-274 interpreter (`usr.bin/ngc`)

*State.* Modal settings, work offsets and origins, parameters, and what ngc
takes for the position. *Operations.* `ngc_block_exec()` executes a block in
nineteen stages; `gohome()`, `setcsysorigin()`, `setcsysoffset()`,
`movelinear_fast()`, `movelinear_feed()`. *Interaction.* `cncmove(2)`, up to three
times in a block; other programs move the machine as well. *Hard.* Stages that
exclude each other, errors found after something was done, state that is stale,
simulation. *Correct when.* A block in error or a failed move ends the program
before anything else moves; the axes a block does not name stay; offsets in use are saved.

### Parts not modelled

| Part | Why |
| --- | --- |
| Encoders (reading) | `encoder_update()` only prints, and keeps two levels nothing reads; that they attach is in `Registry` |
| LCD, status LED | output only |
| Spindle, tool changer, laser, pick-and-place, coolant | the calls return `ENOSYS` |
| `libcnc` | parsing and formatting; no property is about it |
| ngc's parser and `ngc-params` | text; a program is a sequence of parsed blocks, and the parameters it reads are constants, or initial values of any choice (`Saved`) |
| `move`, `partclean` | their calls are among those `Motion` admits |
| Kinematic limits, tool table | stored, never compared with a request |
| OpenBSD kernel and base | what motion capture uses of `tsleep`, `wakeup`, `uiomove` and `vn_read` is part of `Capture`; what a crash does to a file is part of `Timings` |

`PROJECT.json` lists every hazard with its line, and the properties about it.

## 2. The modules

| Module | Models | Role |
| --- | --- | --- |
| `CoordinatedMove` | what `cncmove(2)` promises | abstract specification |
| `Motion` | motion core, servos, e-stops, without MOTIONCAPTURE | detailed specification; implements `CoordinatedMove` |
| `MovePlan` | the plan of a move in words of 32 and 64 bits, `abs()` included | extends `Motion`, whose plan it is compared with |
| `MCMotion` | | targets and profiles for TLC |
| `MotionProofs` | | theorems about `Motion` |
| `MovePlanProofs` | | theorems about `MovePlan` |
| `Capture` | motion capture, in a kernel with MOTIONCAPTURE | specification |
| `CaptureProofs` | | theorems about `Capture` |
| `CapturedMotion` | the motion core in a kernel with MOTIONCAPTURE | composes `Motion` with the sleeps of `Capture` |
| `MCCapturedMotion` | | targets, symmetry and view for TLC |
| `CapturedMotionProofs` | | theorems about `CapturedMotion` |
| `Spotwelder` | spot welders | specification |
| `SpotwelderProofs` | | theorems about `Spotwelder` |
| `Jog` | pulse generator and jog | specification |
| `JogProofs` | | theorems about `Jog` |
| `Ngc` | the interpreter | specification |
| `MCNgc` | | blocks for TLC |
| `NgcProofs` | | theorems about `Ngc` |
| `Registry` | attachment of devices and mapping of pins | variables and actions, without a specification of its own |
| `Timings` | calibration, `cncctl -C`, the timings file | variables and actions |
| `Boot` | a machine that boots, runs and crashes | specification composed of `Registry` and `Timings` |
| `MCBoot` | | a port, and configurations for TLC |
| `BootProofs` | | theorems about `Boot` |

Operators whose comment begins with *Faulty* are plausible wrong versions of the
definition that follows them. No specification uses them; each shows that some
property would notice that mistake.

### Motion and CoordinatedMove

`CncMove` is the plan of `sys_cncmove` up to its loop, early returns included.
An iteration of the loop is a series of `Poll...` actions, one per read of an
e-stop pin, in the order of `cnc_estop_raised()`, and then one `Step`. `Step` is
the rest of the iteration in one action: at `splhigh()` nothing can be seen to
happen between its pin writes. `PollLow`, `PollOpen`, `PollDebounce` and
`PollRaised` are the branches of `cnc_estop_raised()` and `estop_debounce()`:
`reads` counts the consecutive high reads of the current e-stop (the first one
is `estop_get_state()`, the following `DebounceReads` are the debouncing).
`Press` and `Release` change the pins between any two of these reads.

`SetPos`, `SetTimings`, `ClrStats`, `EstopOpen`, `EstopClose`, `EstopRead` are
the other calls that change state. They happen only while no call is in
progress. This is not an assumption about callers: `option MOTIONCAPTURE` is off
in the shipped configuration (`sys/conf/GENERIC:52`), then `cnc_capture` is 0,
every move runs at `splhigh()` from its first iteration to its return on a
non-preemptive uniprocessor kernel, and `estop(2)` never sleeps. Calls that
change nothing (`cncpos`, `CNC_GETPOS`, `CNC_GETSTATS`, ...) are left out.

Positions are unbounded integers. `MovePlan` computes the plan of a move as the
code does: `Word` wraps what does not fit into a signed word, `Displacement` is
the difference in an `int64_t`, narrowed to the `int` that `abs()` takes, and
`PlannedMajor` and `PlannedShare` go on from there. The absolute value of the
least `int` is undefined, and may be either member of `LeastAbs`.

`t` is a `float` that adds up `dt`, and the share of a minor axis is a product
and a quotient of floats, converted to an integer (`cnc.c:544-567`). `dt` is kept
as a pair `<<n, q>>`, and `Shares(i, k)` is the set of values `incMin` may have at
iteration k: the exact share of `k * dt`, off by what that many roundings to one
part in `Precision` (2^24 in the code) may come to, `Rounding(k)`, and truncated.
Operations on floats never decrease where their operands do not, so that no share
is less than the last one, `due`. `Step` chooses one for each minor axis,
independently, which admits more than any one machine does. A share that is one
too large for a single iteration is never taken back: the test of line 567 is `!=`,
and the axis is driven on. Whether rounding can do that depends on how far the
line of an axis is from the next increment, and is what `BehindTheLine` and the
condition `Timely` of the proofs are about.

`Profiled` is all the loop needs to know of `cnc_quintic_init()`: `Ta + To < L + 1`.
`To = L/F` where the feed rate is reached; there `Ta` is at most `2*F/Amax`
with `L >= F^2/Amax`, or at most `L/F`, and the two smallest rates, F = 1 and
F = 2, for which that would not do, are covered by `Amax` and `Jmax` being
non-zero integers that `sys_cncmove` multiplies by 1000. In the other branches
`Ta = To`, and both grow like the square or the cube root of `L`, with factors
small enough for the same reason.
The bound `t < MAXSTEPS` of the loop (2^63/20336 seconds) never binds.

History variables: `slip`, the motor travel `cnc_pos` does not account for
(motors move on every edge of STEP, in the sense of DIR); `held`, the e-stops
that have been high ever since the poll in progress began.

`CoordinatedMove` knows a position, a goal, a leading axis and whether a move
is in progress. The refinement mapping is `at <- pos, goal <- tgt,
lead <- major, busy <- (call = "cncmove")`.

### Capture

The kernel is not preemptive, so an action is what one process does between
two points where it can lose the processor: a sleep, a return to user mode, and
the loop of `uiomove()`, which calls `preempt()` before each copy
(`sys/kern/kern_subr.c:78-80`); hence the reader state `copying`, in which
`chunk` is the size as it was when `uiomove()` was called.

`Open`, `Enable`, `Disable`, `Close` are the device's operations; `Close` also
stands for the death of the reader in `tsleep()`. `Read`, `ReadWoken`, `ReadCopy`
are `cnc_capture_read()` from one such point to the next. `fileOffset` is the
offset of the open file, to which `vn_read()` adds what was read
(`sys/kern/vfs_vnops.c:298`) whatever `cnc_capture_read()` did to `uio_offset`;
both are compared only with a size, so they are kept up to `BufSize`.
`MoveCaptured`, `Resume`, `ResumeStopped` are `sys_cncmove` between two sleeps.
`Append` adds a frame until the buffer is full, also for a
move that has slept since an earlier capture. `MoveUncaptured` is a whole move at
`splhigh()`. With a signal pending `tsleep()`
returns at once and the loop ignores it: `RunOn` makes the remaining iterations
without a pause. `s` is uninitialised when a move that began with capture on
ends with capture off: `Leave` then chooses any level.

What moves do to the machine is left out here, and what is in the frames.

History variables: `copied`, `torn` (capture was turned off during the move).

### CapturedMotion

Under motion capture a move is not uninterrupted: it sleeps after each iteration
(`Pause`), keeping `v1`, `d`, `dir`, `dt` and `inc` on its kernel stack (`saved`),
and continues from there (`Resume`). The variables of `Motion` are those of the
process that has the processor, and `call = "none"` says that nobody is inside an
iteration; `Motion`'s actions are used as they are, so that everything a call does
while it has the processor is the same text. `RunOn` is an iteration that does
not sleep, because capture is off or a signal is pending. Frames and wakeups
are `Capture`'s: here a sleeping move may wake at any time, which includes all
the times it does. Between two iterations other processes begin moves, use
`/dev/cnc` through its exclusive open, or die.

An iteration in `Pause` ends with the processor given up: the poll, the steps
and the frame precede it, the delay follows it. The e-stop devices stay closed,
and calls that are refused are left out: they are `Motion`'s.

History variables: `torn`, `tampered`, `crossed`, sets of moves in progress under
which capture was turned off, position or timings were redefined, or `cnc_pos`
was written.

### Spotwelder

`Weld` and `Sense` are the system calls up to the driver, `ENODEV` and `EINVAL`
included; `AwaitHigh`, `AwaitLow`, `CountEdge`, `WeldOff` the four loops and
writes of `spotwelder_weld()`, one action per change of its state (a read that
keeps a busy-wait waiting changes nothing); `SenseLow`, `SenseHigh`, `SenseOn`
the debouncing loop that `spotwelder_trig()` and `spotwelder_select()` share.
`Flip` changes a switch between any two reads. `Alternate` is the AC line: while
a weld goes by it, it changes only when the loop waits for it, because a half
cycle (8 to 10 ms) is thousands of reads long.

A trigger that is on makes the system call return 1 as its error number
(`cnc.c:621`), and so `EPERM` to the program, where `cncspotweldtrig.2:41`
promises the value 1; the model has the code's `EPERM`. `estop(2)` does the same.

History variables: `halves`, the edges of the phase since the relay was closed,
which only the theorem `WeldFallsShort` reads; `steady`, that the switch asked for
has not changed since the call began.

### Jog

`ReadEvent` is `mpgread()`, which samples its pins at `splhigh()` within
microseconds and is one step; `ReadOther` is the same in another program, since
nothing ever sets the `sc_open` that `mpgopen()` tests. `A` and `B` are the
sensors of the wheel, of which `Turn` brings the next quarter before them.
`ev.type` is not written when nothing has changed: it is any member of
`Garbage`. Forward is 00, 10, 11, 01: `mpgread()` calls it up, and the comments and
macros of `cnc_mpgvar.h:42-49`, which nothing uses, counterclockwise. Which of
the two a wheel shows depends on its wires. `me` is what jog makes of an event: it reads the first eight bytes,
where the driver put the type and the index of the axis, as axis and delta.

`JogRead` to `JogArm` are the steps of jog's loop between which SIGALRM can be
noticed, `Alarm` the handler, which calls `cncmove(2)` with the target or ends the
program. Where the machine then is, is `Motion`'s question, and since jog never
reads the position nothing in `Jog` depends on it. A click
stands for the multiplier. `me.axis > CNC_MAX_AXES` lets one index past the end
of `pos` through: nothing modelled changes then. An update of `pos`, 64 bits wide,
counts as one step.

History variable: `ahead`, the quarters the wheel made since each axis was last
served.

### Ngc

`NextBlock` takes any block: a program is any sequence of parsed blocks. `Settings`
is the first seventeen stages, which end in errors or in new modal settings;
`HomeVia` and `Home` the two moves of `gohome()`; `SetOrigin`, `SetOffset`,
`Motion` the rest. An action ends where `cncmove(2)` is called, since other
processes run while the machine moves: `OtherMove` is one of them.
Settings of a block that fails are dropped, because the program ends with it.

`wordType` is undefined behaviour: `ngc_axiswords_to_vec()` indexes
`ngc_axis_types`, an array of six, with a letter (`util.c:91`). What it finds is
fixed when the program is linked, so each letter has one value for the whole
run: linear, rotary, or neither. `V` in `HomeVia` is the vector `gohome()` does
not initialise. `cnc_vec_t` has three entries where `fastmove()` writes six:
what lies behind it is not modelled. Lengths are in hundredths of a millimetre,
which makes the conversions of metric and imperial units exact. Parameters
5211 to 5216 are at the start what the parameter file holds, any member of `Saved`:
ngc loads them (`ngc.c:441-472`) and leaves `ngc_csys_offset` at zero. The other
parameters it loads are not read by what is modelled, or are constants (`HomeX`).

History variables: `did` (which cases of stage 18 a block has executed), `driven`
(whether `cncmove` was called in this block).

### Registry, Timings and Boot

An attach routine is one action, `Attach`: autoconfiguration is sequential.
`Register` is `cnc_device_attach()`, which comes first; then the mask is checked,
the pins are mapped by `gpio_pin_map()` (`Marked` are the pins it marks, on
failure too), and tested for what `CNC_MAP_INPUT` and `CNC_MAP_OUTPUT` need. Only
this last failure gives pins back. `outcome` is a history variable.

`Iterate` is one pass of the calibration loop, up to its `preempt()`. `speed` is
the number of empty loops a processor makes in a microsecond; `Measured` is
what `microtime()` then shows. The clock is exact in the model: on a real
machine reading it costs time, and `splhigh()` loses ticks. `r` and `d` are 64
bits wide, and for speeds up to 10^6 nothing overflows. `ReadFile` to `Finish` are
`cncctl -C` system call by system call, `Kill` a signal between two of them (the
calibration does not look for signals). When the file is empty, `fread()`
leaves the buffer as it was on the stack: any member of `Garbage`, or 0.

`disk` is the set of contents the file may have after a crash: all those since
the last `Sync`. `Boot` attaches the devices of a configuration, starts `/etc/rc`
and lets processes run; `Crash` starts over with one of `disk`.

## 3. The runs

| Run | Question | Bounds |
| --- | --- | --- |
| `estop` | Do polling, debouncing and open devices ever let a held e-stop pass, or a call hang? Is the next move planned right, from wherever the last was stopped? | 2 axes, 2 targets, 2 e-stops of which one is debounced with 2 reads, `int` from -3 to 2 |
| `contour` | Do count, motors, lines and the abstract specification agree over chains of moves, however the floats round? | 3 axes, 3 targets, 3 profiles, 1 e-stop, a precision of one part in 1024 |
| `rendezvous` | Do the buffer, wakeups, levels and signals survive every interleaving? | 2 movers, 3 frames, reads of 4, moves of 3 iterations |
| `weld` | Relays, termination, debouncing | 2 units, up to 4 cycles, 3 reads |
| `pulses` | Is what a read reports what the wheel has turned? | 2 axes, up to 5 quarters ahead, targets up to 1 click away |
| `captured` | What of the motion core survives moves that overlap? | 2 axes, 2 targets, 2 movers, 1 debounced e-stop with 1 read, 2 programs at `/dev/cnc` |
| `program` | Do the stages of a block exclude and precede each other, and do programs end? | 2 axes, programs of up to 2 of 22 blocks, 2 places |
| `boot` | Pins, axis numbers, convergence and the timings file | 10 pins, 3 configurations, 4 speeds, 2 operators besides `/etc/rc`, 2 crashes |
| `target`, `stuck`, `click`, `stale` | Does the code do what a document or comment says? It does not: section 6 | as above, or smaller |

*Why these bounds are enough to be interesting.* `estop` has an e-stop on each
side of another, one of each kind, and debouncing with a read that is neither
the first nor the last. Its `int` is the least that tells every distance between two of its
targets: were the machine ever one increment beyond them, `PlansTold` would fail.
The targets of `contour` give ties for the greatest
travel, minor axes with nothing, a share and all of the travel to make,
reversals of every axis, and moves that start where an interrupted one ended;
its profiles have dt at, below and above one second, the last where rounding
is closest to overshooting. STEPLEN keeps the code's value. The precision is coarser
than that of a `float`, so that shares which are whole numbers, and are there at
`dt` = 1, may come out on either side as they may in long moves of the code. In `rendezvous` two
movers are what it takes for one to be woken by the other, moves of three
iterations twice overflow the buffer of three, and reads of four end inside,
at the end of, and between copies. `weld` has an even and an odd number of
cycles, 0, 1, and both values that are refused, and a second unit that must
stay off. In `pulses` the wheel may be up to five
quarters from where it was when an axis was last served: one is counted, two and
three are taken for one back, four are missed, five are counted as one; the
second axis is the one whose levels become stale; `Garbage` has values that pass jog's test of
the axis, the one past the last axis among them. `MaxStats` bounds the e-stop count, which nothing else reads.

`captured` has moves that cross on a diagonal, end beside it, and start again
from there, so that both coordinates of a line can be missed; `MaxTravel` keeps
these travels within the distance of the targets. Its two movers are
interchangeable, and its view leaves out the level of the STEP pins and the
result of the last call, which no action reads and no property of that run
mentions but to give its type: states that differ in nothing else have the same future. `program` has
every pair of cases of stage 18 in one block, homing with and without a way
point, blocks that fail in each stage, and settings that make the next block
fail, which is what a second block is for; it starts with nothing saved, or with
an offset on each axis. In `boot`, one configuration is that of
the shipped kernel (`sys/arch/i386/conf/GENERIC:646,652`, where `servo2` has pins 4
and 5 and `spotwelder0` pins 5 to 8), one has more servos than axes and a servo
whose second pin is taken, and one has wrong masks, missing capabilities and
pins out of range. Its speeds are on both sides of where the correction stops
converging (4) and up to where `Settles` is stated (25); two
crashes are what it takes to lose a file that an earlier boot has written.

What each property says, and of which code, is in the comment above it.

*Deadlock* is checked in all passing runs but `program`: in none of these systems
can everything stop, since the world behind the pins, or a caller, can always
act. A program that has ended is at rest.

## 4. Fairness

`Motion`: weak fairness of `Kernel`, the next step of the call in progress. At
`splhigh()` the processor executes that call and nothing else, whatever the
buttons do; buttons and callers have no fairness. `Spotwelder` assumes the same
and that the AC line of each unit alternates: without it a weld does wait for
ever (there is no time limit). `Capture`: weak fairness of the reader
and of `Resume` of each mover, that is, of the scheduler, and of a motioncap
that reads again when its output takes what it read; nothing makes anyone start
a move, press a button, open, close or send a signal. `Jog` has no liveness
property, and no fairness. `Ngc`: weak fairness of the interpreter; it waits for
nothing but `cncmove(2)` and `sleep(3)`, and `CallReturns` of `Motion` says that the
former returns. `Boot`: weak fairness of every `cncctl`, which waits for nothing;
nothing makes an operator start one, and kills, crashes and syncs need not
happen. `CapturedMotion` has only safety properties: whether a sleeping move
wakes is `Capture`'s question.

## 5. Proofs

For every value of the constants that satisfies the modules' assumptions
(positive numbers of axes, increments and reads; any number of e-stops, movers
and welders), TLAPS checks:

| Theorem | States | Along which argument |
| --- | --- | --- |
| `Typing` | `Motion`: `[]TypeOK` | inductive by itself, one lemma per group of actions |
| `Reckoning` | `[]DeadReckoning` | with `SenseShown`: a servo that has stepped has its cached sense on the wire. Without it a step in a cached direction could go the other way |
| `EstopHonoured` | `NoStepWhileHeld` | with `HeldInv`: every e-stop in `held` that the poll has gone past is open. The poll can pass a high pin in no other way |
| `Coordination` | `Coordinated`, under `[]Timely` | with `MoveInv`: the major axis is where `inc` says, no minor axis is ahead of its last share, and that share is not ahead of the line. A share that differs from the count is therefore always ahead of it, so that the step made is towards the target. The lemmas bound quotients of products |
| `LineKept` | `[]BehindTheLine`, under `[]Timely` | from the same invariant |
| `QuickMoves` | `[]Timely`, where an iteration lasts at most half a second and the machine's positions lie within half of `Precision` of each other | `RangeKept`: no move leaves the range of the positions it is given; the rounding of a move of that length is at most what half a second leaves of the next increment |
| `PlansExact` | `[]PlansTold`, under `[]Timely`, where all targets and the origin lie less than 2^31 increments apart on every axis | `RangeKept`: no move leaves the range of the positions it is given, since each step is one of `CoordinatedMove`; `PlanExact`: what fits into a word is kept, and an `int64_t` holds STEPLEN times an `int` (`WidthAssumption`) |
| `NeverFarther`, `ShareFits`, `DivisorPositive` | of any two positions: no axis is planned to go farther than asked, the product of the rescaling does not overflow, and the division is by a positive number unless `abs()` met the least `int` | a displacement is at most 2^31, whatever was narrowed to it |
| `CaptureTyping` | `Capture`: `[]TypeOK` | inductive by itself |
| `RendezvousHeld` | `[]Rendezvous` | inductive by itself: each side wakes the other in the same uninterrupted stretch in which it goes to sleep |
| `LevelRestored` | `[]LevelKept` | with: a move in progress while capture is off is torn |
| `CapturedTyping` | `CapturedMotion`: `[]CapturedTypeOK` | inductive by itself, on `Motion`'s lemmas |
| `CapturedReckoning` | `[]DeadReckoning` | with `Motion`'s `SenseShown`: what a servo keeps is never on a stack |
| `AloneKept` | `[]AloneBehindTheLine`, under `[]Timely` | with `RunningInv` and `SleepersInv`: the move that runs, and each that sleeps, is where its stack expects it (`Course`), unless it is in `crossed`. Whatever writes `cnc_pos` puts every other move there, so that a move that is alone finds the position it went to sleep with |
| `AloneCoordinated` | `AloneAdvances` and `AloneArrives`, under `[]Timely`, of a move that nobody crosses: what `CoordinatedMove` says of an iteration, and of the end | from the same invariants, and `StackInv`: a sleeping move has made no more iterations than its travel has increments |
| `ShortAloneKept` | `[]AloneBehindTheLine`, without `Timely`, where an iteration lasts at most half a second and no move is longer than half of `Precision` | with `PlanInv`: the profile of every move in progress, on the stack of a sleeper too, is one that `cnc_quintic_init()` may have computed for its travel |
| `NotTampered` | `[]TamperedWhenTorn` | with: capture on means motioncap has the device; a move sleeps untorn only while capture is on; histories hold moves in progress |
| `WelderTyping`, `RelayReleased`, `WeldFallsShort` | `Spotwelder`: `[]TypeOK`, `[]RelayInCharge`, and that a weld of n cycles ends after n - 1 half cycles, for every n > 0 | one inductive invariant `IInv`: types; which relay is closed in which stage; and how the edges seen, the edges counted and the phase relate |
| `NoFalseTrigger`, `OnIsAnError` | `OffStaysOff`, and that a switch that stays on ends every call in `EPERM`, and none returns the value 1 | with `SteadyInv`: of a switch that stays as it is, every read before the last was high |
| `JogTyping` | `Jog`: `[]TypeOK` | inductive by itself |
| `WheelDecoded` | `PulsesDecoded` | with `Remembered`: the levels kept for an axis are those of the quarter the wheel was at, `ahead` quarters ago |
| `NgcTyping`, `Stage18Once`, `ErrorsStandStill`, `OffsetsKept` | `Ngc`: its four invariants | one inductive invariant: types, and what `did`, `driven` and `stage` say of each other, stage by stage |
| `PinsTheirOwn`, `PinsKept`, `NumbersFollow` | `Boot`: `[]PinsHeld`, `[]PinsAccounted`, `[]AxisNumbers` | `RegistryInv`: these three, and that devices yet to attach have no outcome |
| `CalibrationAlone`, `ReadsWhole` | `[]CalibratesAlone`, `[]ReadWhole` | `TimingsInv`: whoever is inside cncctl has the device (`Exclusive`); `hz` is 0 from its second step to the end of the loop; an empty file is one that was torn, or is about to be written |
| `ErrorContracts` | `ErrorNeverGrows` | lemma `Contracts`: from four loops in a microsecond on, the next error is at most the last, by bounds on quotients |
| `CalibrationSettles` | `[]Settles` | with `WayInv`: what an iteration leaves of the error, less the six at which truncation stalls the correction, is at most 21/25 of what it was, so that four iterations leave less than half, and the next entry of a table of halvings. Its twenty-five entries bring the first error of any of these processors below the tolerance |
| `HzTrue` | `[]HzCalibrated` | with `HzInv`: not only `hz`, but every number on its way to it, in a variable, in the file or on the disk, is no worse than the first guess |
| `BootTyping` | `[]BootTypeOK` | part of the same invariant |

The assumptions are those named `...Assumption` in the modules, which TLC
evaluates in every run.

`Timely` says that the time of an iteration, rounded, has not reached the next
increment of the major axis. In exact arithmetic `Profiled` implies it; with
the floats of the code it is a condition on the move. By `QuickMoves` it holds of
all moves of up to 8 million increments at an iteration of half a second or less,
which is a feed rate of 2 steps/s or more but for the acceleration. At an
iteration of one second it holds up to some 2900 increments, and where the
acceleration prolongs it by as much as `Profiled` admits up to some 200. Of
longer moves at such speeds the proofs say nothing: `Rounding` bounds the error, and
does not say that it is made.

*Only model-checked.* Every invariant and every action property that a run
checks is also proved. Liveness (`CallReturns`, `SignalFrees`, `WeldEnds`,
`ProgramEnds`, `CtlEnds`) is not: TLAPS proves nothing about fairness. Neither
`AloneKept` nor `CalibrationSettles` uses induction over data: the first has its
history in `crossed`, and the second a finite table, whose neighbours are compared
one by one. TLC evaluates `WidthAssumption` and `PlansTold` with small words only: its
own integers have 32 bits.

## 6. What the code does and its documents do not say

The first four are runs in which TLC finds the counterexample.

* `target`: a move that succeeds leaves its minor axes short, against `cncmove.2`.
  Their share is `d * t / STEPLEN` with `t` in seconds (`cnc.c:566`), not in
  increments, so that at an iteration of dt seconds a minor axis makes about the
  fraction dt of its travel, and at the speeds of a machine practically nothing:
  in the run, at 100 steps/s, a move from (0, 0) to (10, -10) returns 0 at (10, 0).
  Only where dt is 1 does it come within two increments, since the last iteration
  is at `(L - 1) * dt` and the share is truncated twice. Where dt is above 1 it is
  the bound of `cnc_quintic_init()` that keeps it from passing its target.
  `cnc_pos` counts what was really made, so that a next call with the same target
  goes on from there. `BehindTheLine` and `Coordinated` hold of such moves as well:
  they promise that no axis is ahead, not that all arrive.
* `stuck`: motion capture can stop for ever. The second `read(2)` begins at the
  file offset the first one left, finds it beyond the buffer, and sleeps without
  waking the move that sleeps on the same channel (`cnc_capture.c:84-86`).
* `click`: `jog.c:153` reads a `cnc_mpg_event` where `mpgread()` writes a
  `cnc_input_event`: clicks on X are ignored, and one on another axis ends jog,
  against `jog.1`. `PulsesDecoded` holds all the same: it is about what the driver
  writes.
* `stale`: `ngc` starts every motion from a position it loaded once
  (`block.c:297`), with the scale of the rotary axes applied to the linear ones
  (`ngc.c:520-521`), so that a G0 that names X moves Y, against `ngc.h:164`, where it
  is the "Current position", and `ngc.c:500-501`, where it is fetched "from the kernel
  ... per the effective scaling factors".

The models have the following in them as well, without a run of its own; what
can be said of them for every instance is a theorem.

* `cnc_estop_raised()` ignores a raised e-stop whose device is open, but for a
  queued event, against its own comment (`cnc.c:394`): `PollOpen`, and the exception
  that `NoStepWhileHeld` makes for open devices.
* A move of 2^31 increments or more on an axis stops short and succeeds, since
  `abs()` narrows it (`cnc.c:494`): `NeverFarther`. Where the difference is 2^31
  modulo 2^32 the result of `abs()` is undefined; if it is negative on every
  axis that has a travel and axis 0 has none, line 511 divides by zero:
  `DivisorPositive` says that it can in no other case.
* A weld of n cycles lasts n - 1 half cycles (`cnc_spotwelder.c:191`), against the
  n AC cycles of `cncspotweld.2:38-40`: `WeldFallsShort` proves it of every n.
* A switch that is on is reported as the error `EPERM` and the value -1, against the
  value 1 of `cncspotweldtrig.2:38-41` and `cncspotweldselect.2:38-41`:
  `OnIsAnError`. `OffStaysOff` is the half of their promise that holds.
* What `mpgread()` reports as `WHEELUP` is the sequence that `cnc_mpgvar.h:42-49`
  calls counterclockwise. Two quarters at once, and a quarter turned for another
  axis, are reported as pulses of this one: `PulsesDecoded` says which.
* Moves that overlap under motion capture miss their lines: `AloneBehindTheLine`
  is about the others.
* `gohome()` sends every axis to the position of X (`block.c:214-218` never
  advances `j`); its intermediate point is uninitialised where the block has no word.
* G98 and G99 are stored in the distance mode (`block.c:499-500`).
* G94 is dispatched in place of G92.3 (`block.c:533`): it changes no offsets, but
  fails without axis words and conflicts with G28, G30 and G10, and
  G92.3 is never executed, so that nothing ever puts offsets into use that an
  earlier program saved: `OffsetsSaved` allows an axis to have a saved offset and
  none in use.
* `ngc.1:38-39` says that programs are verified before they are executed: what
  is wrong with a block is found when its turn comes, after the blocks before it have
  moved the machine.
* A failed device keeps its number, and pins that `gpio_pin_map()` marked before
  it met one that was taken are lost until the next boot.
* The calibration does not reach a second on slow or fast processors: it
  oscillates at two loops in a microsecond, and from about thirty on a hundred
  iterations are too few (at 250 it ends some ten per cent off).
* An empty timings file, which a crash in the right moment leaves, makes `cncctl`
  convert uninitialised memory, and report it as a calibration.

## 7. Next

1. Spindle and status LED in `Registry`, and detachment, if the kernel ever
   loads these drivers as modules.
2. `Timely` for moves at an iteration near one second, from a sharper bound than
   `Rounding` on a sum of floats.
