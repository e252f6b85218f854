---------------------------- MODULE CapturedMotion ----------------------------
(***************************************************************************)
(* The motion core in a kernel with MOTIONCAPTURE.  A move that began      *)
(* while motioncap captures sleeps after each of its iterations, with its  *)
(* v1, d, t and inc on its kernel stack, and other processes run: they call   *)
(* cncmove, press on with their own moves, or use /dev/cnc.                *)
(*                                                                         *)
(* This module composes Motion with the sleeps of Capture.  The variables  *)
(* of Motion are those of the process that has the processor; a sleeping   *)
(* move's are put away in saved[m], and call = "none" means that whoever   *)
(* is runnable may run.  What wakes a sleeping move (a frame, the reader,  *)
(* a signal) is Capture's subject: here it may wake at any moment.         *)
(***************************************************************************)
EXTENDS Motion

CONSTANTS
  Movers,         \* processes that call cncmove
  MaxTravel       \* bound: the travel of a move

ASSUME CapturedAssumption == MaxTravel \in Nat

VARIABLES
  opened,         \* the programs that have /dev/cnc open
  capture,        \* cnc_capture
  who,            \* the process in cncmove, or the last that was
  saved,          \* what a sleeping move keeps on its stack
  torn,           \* history: the moves in the middle of which capture was turned off
  tampered,       \* history: those that met a SETPOS or a SETTIMINGS
  crossed         \* history: those under which something else wrote cnc_pos

deviceVars == <<opened, capture>>
historyVars == <<torn, tampered, crossed>>
captureVars == <<deviceVars, who, saved, historyVars>>

capturedVars == <<vars, captureVars>>

Programs == {"motioncap", "cncctl"}

\* The stack of a process that is not asleep in cncmove.
NoFrame == [from |-> Origin, tgt |-> Origin, major |-> 0, dt |-> NoTime, inc |-> 0,
            due |-> Origin]

Asleep(m) == saved[m] # NoFrame

\* The moves in progress.
Moving == {m \in Movers : Asleep(m) \/ (call = "cncmove" /\ who = m)}

\* What the histories become: moves is what an action adds to one of them,
\* and a move that ends leaves it.
Recorded(history, moves) == (history \cup moves) \cap Moving'

NoneRecorded == /\ torn' = Recorded(torn, {})
                /\ tampered' = Recorded(tampered, {})
                /\ crossed' = Recorded(crossed, {})

-----------------------------------------------------------------------------
(* /dev/cnc, while nobody has the processor.                               *)

UseDevice == /\ call = "none"
             /\ UNCHANGED <<calibrated, servoVars, estopVars, moveVars, pollVars, pin,
                            call, result, held>>

\* Faulty: cncopen() does not look at cnc_opened.
OpenShared(p) == /\ UseDevice
                 /\ p \notin opened
                 /\ opened' = opened \cup {p}
                 /\ UNCHANGED <<capture, who, saved, historyVars>>

\* cncopen().
OpenDevice(p) == /\ UseDevice
                 /\ opened = {}
                 /\ opened' = {p}
                 /\ UNCHANGED <<capture, who, saved, historyVars>>

\* cnc_capture_close(), from CNC_SETCAPTUREMODE or from cncclose().
StopCapture == /\ capture' = FALSE
               /\ torn' = Recorded(torn, IF capture THEN Moving ELSE {})

\* cncclose(), by close(2) or by the death of the program.
CloseDevice(p) == /\ UseDevice
                  /\ p \in opened
                  /\ opened' = opened \ {p}
                  /\ UNCHANGED <<who, saved, tampered, crossed>>
                  /\ StopCapture

\* motioncap: CNC_SETCAPTUREMODE.
SetCaptureMode(on) == /\ UseDevice
                      /\ "motioncap" \in opened
                      /\ UNCHANGED <<opened, who, saved, tampered, crossed>>
                      /\ IF on THEN capture' = TRUE /\ UNCHANGED torn ELSE StopCapture

Tamper == tampered' = Recorded(tampered, Moving)

\* cncctl -p: CNC_SETPOS.
DeviceSetPos(v) == /\ "cncctl" \in opened
                   /\ SetPos(v)
                   /\ UNCHANGED <<deviceVars, who, saved, torn>>
                   /\ Tamper
                   /\ crossed' = Recorded(crossed, Moving)

\* cncctl -C: CNC_SETTIMINGS and CNC_CALTIMINGS.
DeviceSetTimings(hz) == /\ "cncctl" \in opened
                        /\ SetTimings(hz)
                        /\ UNCHANGED <<deviceVars, who, saved, torn, crossed>>
                        /\ Tamper

-----------------------------------------------------------------------------
(* sys_cncmove.                                                            *)

\* A process begins a move; a call that is refused changes nothing.
BeginMove(m, v2) ==
  /\ ~Asleep(m)
  /\ calibrated /\ v2 # pos
  /\ \A i \in Axes : Travel(i, pos, v2) <= MaxTravel
  /\ CncMove(v2, FALSE)
  /\ who' = m
  /\ UNCHANGED <<deviceVars, saved, historyVars>>

\* The move that has the processor writes cnc_pos under the others.
Cross == /\ torn' = Recorded(torn, {})
         /\ tampered' = Recorded(tampered, {})
         /\ crossed' = Recorded(crossed, Moving \ {who})

\* An iteration that does not sleep: capture is off, or a signal is pending.
RunOn == /\ Step
         /\ UNCHANGED <<deviceVars, who, saved>>
         /\ Cross

\* The stack of the move that has the processor, after k iterations of which
\* the last computed share.
Frame(k, share) == [from |-> from, tgt |-> tgt, major |-> major, dt |-> dt, inc |-> k,
                    due |-> share]

\* Faulty: inc is not advanced when the move wakes.
PauseSame ==
  /\ capture
  /\ call = "cncmove" /\ idx = NEstops + 1
  /\ \E share \in Interpolations(inc) :
       /\ IncAxes(StepsOf(share))
       /\ saved' = [saved EXCEPT ![who] = Frame(inc, share)]
  /\ call' = "none"
  /\ NoMove
  /\ idx' = 1 /\ reads' = 0 /\ held' = {}
  /\ UNCHANGED <<calibrated, estopVars, pin, result, deviceVars, who>>
  /\ Cross

\* An iteration that sleeps on its frame (CNC_CAPTURE_FRAME).
Pause ==
  /\ capture
  /\ call = "cncmove" /\ idx = NEstops + 1
  /\ \E share \in Interpolations(inc) :
       /\ IncAxes(StepsOf(share))
       /\ saved' = [saved EXCEPT ![who] = Frame(inc + 1, share)]
  /\ call' = "none"
  /\ NoMove
  /\ idx' = 1 /\ reads' = 0 /\ held' = {}
  /\ UNCHANGED <<calibrated, estopVars, pin, result, deviceVars, who>>
  /\ Cross

\* It wakes: the delay loop, then the next iteration or the return.
Resume(m) ==
  LET f == saved[m]
  IN /\ call = "none" /\ Asleep(m)
     /\ saved' = [saved EXCEPT ![m] = NoFrame]
     /\ who' = m
     /\ IF f.inc < Travel(f.major, f.from, f.tgt)
          THEN /\ call' = "cncmove" /\ result' = "none"
               /\ from' = f.from /\ tgt' = f.tgt /\ major' = f.major
               /\ dt' = f.dt /\ inc' = f.inc /\ due' = f.due
               /\ BeginPoll
          ELSE Return("0")
     /\ UNCHANGED <<calibrated, servoVars, estopVars, pin, deviceVars>>
     /\ NoneRecorded

-----------------------------------------------------------------------------

CapturedInit ==
  /\ Init
  /\ opened = {} /\ capture = FALSE
  /\ who \in Movers
  /\ saved = [m \in Movers |-> NoFrame]
  /\ torn = {} /\ tampered = {} /\ crossed = {}

\* The polls of the move that has the processor, and the buttons.  The
\* e-stop devices stay closed: Motion has them opened and read.
Polls == PollLow \/ PollDebounce \/ PollRaised \/ World

CapturedNext ==
  \/ Polls /\ UNCHANGED <<deviceVars, who, saved>> /\ NoneRecorded
  \/ \E p \in Programs : OpenDevice(p) \/ CloseDevice(p)
  \/ \E on \in BOOLEAN : SetCaptureMode(on) \/ DeviceSetTimings(on)
  \/ \E v \in Targets : DeviceSetPos(v)
  \/ \E m \in Movers : \/ \E v \in Targets : BeginMove(m, v)
                       \/ Resume(m)
  \/ RunOn \/ Pause

CapturedSpec == CapturedInit /\ [][CapturedNext]_capturedVars

-----------------------------------------------------------------------------
(* Properties.                                                             *)

Frames == [from : [Axes -> Int], tgt : [Axes -> Int], major : Axes,
           dt : StepTimes \cup {NoTime}, inc : Nat, due : [Axes -> Nat]]

CaptureTypes ==
  /\ opened \subseteq Programs /\ capture \in BOOLEAN
  /\ who \in Movers
  /\ saved \in [Movers -> Frames]
  /\ torn \subseteq Movers /\ tampered \subseteq Movers /\ crossed \subseteq Movers

\* Every variable ranges over what the C declarations and the code allow.
CapturedTypeOK == TypeOK /\ CaptureTypes

Stack(m) == IF Asleep(m) THEN saved[m] ELSE Frame(inc, due)

Sense(f, i) == IF f.tgt[i] > f.from[i] THEN 1 ELSE -1

\* No axis is ahead of the line of the move with stack f.
Behind(f) ==
  /\ pos[f.major] = f.from[f.major] + Sense(f, f.major) * f.inc
  /\ \A i \in Axes :
       Sense(f, i) * (pos[i] - f.from[i]) * Travel(f.major, f.from, f.tgt)
         <= Travel(i, f.from, f.tgt) * f.inc

\* A move under which no other process writes cnc_pos finds the machine where
\* it left it, on its line or behind, each time it wakes, however often it
\* sleeps and whatever runs in between: all it needs is on its stack (v1, d,
\* t and inc of sys_cncmove, the frames of CNC_CAPTURE_FRAME).
AloneBehindTheLine == \A m \in Moving \ crossed : Behind(Stack(m))

\* cnc_pos and the timings are redefined under a move in progress only when
\* capture was first taken away from it: /dev/cnc admits one program at a
\* time, and the one that captures does nothing else (cncopen, cncclose).
TamperedWhenTorn == tampered \subseteq torn
==============================================================================
