-------------------------------- MODULE Timings --------------------------------
(***************************************************************************)
(* The calibration of the delay loop: cnc_calibrate_hz(), and cncctl -C,   *)
(* which keeps its result in /var/db/cnc.timings.  At boot /etc/rc runs    *)
(* cncctl -C when that file exists.  cncctl may be killed between its      *)
(* system calls, and the machine may crash at any moment; what the file    *)
(* system then has is any of the states the file was in since the last     *)
(* sync.                                                                   *)
(*                                                                         *)
(* The processor makes speed loops in a microsecond.  Interrupts are       *)
(* blocked while the loop runs, so that the clock measures it exactly.     *)
(***************************************************************************)
EXTENDS Integers, Sequences

CONSTANTS
  Operators,    \* processes that may run cncctl -C
  Speeds,       \* speeds of processors
  Garbage,      \* numbers that uninitialised memory may be taken for
  MaxCrashes    \* bound: crashes

Ctls == {"rc"} \cup Operators

ASSUME TimingsAssumption ==
  /\ {"rc", "nobody", "other"} \cap Operators = {}
  /\ Speeds \subseteq Nat \ {0}
  /\ Garbage \subseteq Int
  /\ MaxCrashes \in Nat

FirstLoops == 380000000     \* r = 380000000U
Second == 1000000           \* tTgt
MaxIters == 100             \* maxIters
Tolerance == 10

\* /var/db/cnc.timings: whether it exists, and the number in it, if any.
Absent == [there |-> FALSE, line |-> <<>>]
Empty == [there |-> TRUE, line |-> <<>>]
Holding(hz) == [there |-> TRUE, line |-> <<hz>>]

VARIABLES
  speed,        \* of this machine
  phase,        \* "off", "rc", "calibrating" (in rc), "multi" (user)
  hz,           \* cnc_timings.hz
  opener,       \* who has /dev/cnc open
  pc,           \* where each cncctl is
  tHz,          \* its t.hz
  loops,        \* r of cnc_calibrate_hz()
  iters,        \* and j
  file,         \* /var/db/cnc.timings
  disk,         \* what a crash may leave of it
  torn,         \* history: the file lost its number to a crash or a kill
  crashes       \* how often the machine has crashed

calVars == <<loops, iters>>
fileVars == <<file, disk, torn>>
machineVars == <<speed, phase, crashes>>

timingsVars == <<machineVars, hz, opener, pc, tHz, calVars, fileVars>>

Go(p, where) == pc' = [pc EXCEPT ![p] = where]

-----------------------------------------------------------------------------
(* cnc_calibrate_hz().                                                     *)

\* What the clock measures of the empty loop, in microseconds.
Measured(r) == IF r > 0 THEN r \div speed ELSE 0

Error(r) == Second - Measured(r)

Distance(r) == IF Error(r) < 0 THEN -Error(r) ELSE Error(r)

\* Faulty: a loop that is too long is made longer.
CorrectedUp(r) == r + 4 * Distance(r)

\* Faulty: twice the error.
CorrectedTwo(r) == r + 2 * Error(r)

Corrected(r) == r + 4 * Error(r)

\* Faulty: cnc_timings has the guesses while the loop runs.
StartLoopGuess(p) ==
  /\ pc[p] = "calibrate"
  /\ loops' = FirstLoops /\ iters' = 0 /\ hz' = FirstLoops
  /\ Go(p, "loop")
  /\ UNCHANGED <<machineVars, tHz, opener, fileVars>>

\* CNC_CALTIMINGS.
StartLoop(p) ==
  /\ pc[p] = "calibrate"
  /\ IF hz = 0
       THEN /\ loops' = FirstLoops /\ iters' = 0
            /\ Go(p, "loop") /\ UNCHANGED tHz
       ELSE /\ tHz' = [tHz EXCEPT ![p] = hz]
            /\ Go(p, "open") /\ UNCHANGED calVars
  /\ UNCHANGED <<machineVars, hz, opener, fileVars>>

\* The loop ends with r, which CNC_CALTIMINGS stores and copies out.
Calibrated(p, r) ==
  /\ hz' = r
  /\ tHz' = [tHz EXCEPT ![p] = r]
  /\ Go(p, "open")
  /\ loops' = 0 /\ iters' = 0

\* Faulty: one iteration too many.
IterateOnceMore(p) ==
  /\ pc[p] = "loop"
  /\ \/ Distance(loops) < Tolerance /\ Calibrated(p, loops)
     \/ /\ Distance(loops) >= Tolerance
        /\ IF iters = MaxIters
             THEN Calibrated(p, Corrected(loops))
             ELSE /\ loops' = Corrected(loops) /\ iters' = iters + 1
                  /\ UNCHANGED <<hz, tHz, pc>>
  /\ UNCHANGED <<machineVars, opener, fileVars>>

\* Faulty: the iterations are not counted.
IterateOn(p) ==
  /\ pc[p] = "loop"
  /\ \/ Distance(loops) < Tolerance /\ Calibrated(p, loops)
     \/ /\ Distance(loops) >= Tolerance
        /\ loops' = Corrected(loops)
        /\ UNCHANGED <<hz, tHz, pc, iters>>
  /\ UNCHANGED <<machineVars, opener, fileVars>>

\* One iteration; others run at its preempt().
Iterate(p) ==
  /\ pc[p] = "loop"
  /\ \/ Distance(loops) < Tolerance /\ Calibrated(p, loops)
     \/ /\ Distance(loops) >= Tolerance
        /\ IF iters + 1 = MaxIters
             THEN Calibrated(p, Corrected(loops))
             ELSE /\ loops' = Corrected(loops) /\ iters' = iters + 1
                  /\ UNCHANGED <<hz, tHz, pc>>
  /\ UNCHANGED <<machineVars, opener, fileVars>>

-----------------------------------------------------------------------------
(* cncctl -C.                                                              *)

\* Faulty: cncopen() does not look at cnc_opened.
OpensShared(p) == pc[p] = "idle" /\ opener' = p

\* main() opens /dev/cnc, or exits.
Opens(p) == pc[p] = "idle" /\ opener = "nobody" /\ opener' = p

Start(p) ==
  /\ phase = "multi" /\ p \in Operators
  /\ Opens(p)
  /\ Go(p, "read")
  /\ UNCHANGED <<machineVars, hz, tHz, calVars, fileVars>>

\* Faulty: the buffer is also looked at when fopen() has failed.
ReadFileUnchecked(p) ==
  /\ pc[p] = "read"
  /\ \E n \in IF file.line = <<>> THEN Garbage \cup {0} ELSE {file.line[1]} :
       tHz' = [tHz EXCEPT ![p] = n]
  /\ Go(p, "set")
  /\ UNCHANGED <<machineVars, hz, opener, calVars, fileVars>>

\* fopen() and fread(): nothing is read of an empty file, and strtoull() is
\* given what is on the stack.
ReadFile(p) ==
  /\ pc[p] = "read"
  /\ \E n \in IF ~file.there THEN {0}
              ELSE IF file.line = <<>> THEN Garbage \cup {0}
              ELSE {file.line[1]} :
       tHz' = [tHz EXCEPT ![p] = n]
  /\ Go(p, "set")
  /\ UNCHANGED <<machineVars, hz, opener, calVars, fileVars>>

\* CNC_SETTIMINGS with what the file had, or 0.
SetFromFile(p) ==
  /\ pc[p] = "set"
  /\ hz' = tHz[p]
  /\ Go(p, IF tHz[p] = 0 THEN "calibrate" ELSE "final")
  /\ UNCHANGED <<machineVars, opener, tHz, calVars, fileVars>>

\* fopen() for writing truncates the file, or fails with a warning.
OpenFile(p) ==
  /\ pc[p] = "open"
  /\ \/ /\ file' = Empty /\ disk' = disk \cup {Empty}
        /\ Go(p, "write")
     \/ Go(p, "final") /\ UNCHANGED <<file, disk>>
  /\ UNCHANGED <<machineVars, hz, opener, tHz, calVars, torn>>

\* fprintf() and fclose().
WriteFile(p) ==
  /\ pc[p] = "write"
  /\ file' = Holding(tHz[p]) /\ disk' = disk \cup {file'}
  /\ torn' = FALSE
  /\ Go(p, "final")
  /\ UNCHANGED <<machineVars, hz, opener, tHz, calVars>>

Exits(p) == /\ opener' = "nobody" /\ Go(p, "idle")
            /\ phase' = IF p = "rc" THEN "multi" ELSE phase
            /\ tHz' = [tHz EXCEPT ![p] = 0]

\* The second CNC_SETTIMINGS, and exit.
Finish(p) ==
  /\ pc[p] = "final"
  /\ hz' = tHz[p]
  /\ Exits(p)
  /\ UNCHANGED <<speed, crashes, calVars, fileVars>>

\* cncctl is killed; in the kernel it does not look for signals.
Kill(p) ==
  /\ pc[p] \notin {"idle", "loop"}
  /\ Exits(p)
  /\ torn' = (torn \/ pc[p] = "write")
  /\ UNCHANGED <<speed, crashes, hz, calVars, file, disk>>

Ctl(p) == StartLoop(p) \/ Iterate(p) \/ ReadFile(p) \/ SetFromFile(p)
          \/ OpenFile(p) \/ WriteFile(p) \/ Finish(p)

-----------------------------------------------------------------------------
(* The rest of the machine.                                                *)

\* jog or motioncap have /dev/cnc open.
OtherOpens == /\ phase = "multi" /\ opener = "nobody" /\ opener' = "other"
              /\ UNCHANGED <<machineVars, hz, pc, tHz, calVars, fileVars>>

OtherCloses == /\ opener = "other" /\ opener' = "nobody"
               /\ UNCHANGED <<machineVars, hz, pc, tHz, calVars, fileVars>>

Sync == /\ disk' = {file}
        /\ UNCHANGED <<machineVars, hz, opener, pc, tHz, calVars, file, torn>>

\* The end of /etc/rc.
Rc == /\ phase = "rc"
      /\ IF file.there
           THEN Opens("rc") /\ Go("rc", "read") /\ phase' = "calibrating"
           ELSE phase' = "multi" /\ UNCHANGED <<opener, pc>>
      /\ UNCHANGED <<speed, crashes, hz, tHz, calVars, fileVars>>

TimingsInit ==
  /\ speed \in Speeds
  /\ phase = "off" /\ hz = 0 /\ opener = "nobody"
  /\ pc = [p \in Ctls |-> "idle"]
  /\ tHz = [p \in Ctls |-> 0]
  /\ loops = 0 /\ iters = 0
  /\ file = Absent /\ disk = {Absent}
  /\ torn = FALSE
  /\ crashes = 0

\* The kernel has attached its devices and runs /etc/rc.
KernelUp == /\ phase = "off" /\ phase' = "rc"
            /\ UNCHANGED <<speed, crashes, hz, opener, pc, tHz, calVars, fileVars>>

\* A crash, and a kernel that starts (cncattach).
TimingsReset ==
  /\ crashes < MaxCrashes /\ crashes' = crashes + 1
  /\ phase' = "off" /\ hz' = 0 /\ opener' = "nobody"
  /\ pc' = [p \in Ctls |-> "idle"]
  /\ tHz' = [p \in Ctls |-> 0]
  /\ loops' = 0 /\ iters' = 0
  /\ file' \in disk /\ disk' = {file'}
  /\ torn' = (file' = Empty)
  /\ UNCHANGED speed

Userland ==
  \/ \E p \in Ctls : Start(p) \/ Ctl(p) \/ Kill(p)
  \/ Rc \/ OtherOpens \/ OtherCloses \/ Sync

-----------------------------------------------------------------------------
(* Properties.                                                             *)

Files == [there : BOOLEAN, line : Seq(Int)]

TimingsTypeOK ==
  /\ speed \in Speeds /\ phase \in {"off", "rc", "calibrating", "multi"}
  /\ hz \in Int
  /\ opener \in Ctls \cup {"nobody", "other"}
  /\ pc \in [Ctls -> {"idle", "read", "set", "calibrate", "loop", "open", "write", "final"}]
  /\ tHz \in [Ctls -> Int]
  /\ loops \in Int /\ iters \in 0 .. MaxIters - 1
  /\ file \in Files /\ disk \subseteq Files
  /\ torn \in BOOLEAN
  /\ crashes \in 0 .. MaxCrashes

\* From four loops in a microsecond on the correction by four times the
\* error converges: no iteration ends farther from a second than it began.
ErrorNeverGrows ==
  [][speed >= 4 /\ (\E p \in Ctls : pc[p] = "loop" /\ pc'[p] = "loop")
       => Distance(loops') <= Distance(loops)]_timingsVars

\* Between four and twenty-five of them, maxIters iterations are enough to
\* settle within the tolerance of cnc_calibrate_hz().
Settles ==
  \A p \in Ctls : pc[p] \in {"open", "write"} /\ speed \in 4 .. 25
                    => Distance(tHz[p]) < Tolerance

\* While a calibration yields between its iterations, nobody sets the
\* timings: /dev/cnc has one opener, and hz is 0 until the loop is done.
CalibratesAlone ==
  \A p \in Ctls : pc[p] = "loop" => hz = 0 /\ \A q \in Ctls : pc[q] = "loop" => q = p

\* cncctl finds the file empty only when a crash or a kill has emptied it:
\* it never reads what another cncctl is about to write.
ReadWhole == \A p \in Ctls : pc[p] = "read" /\ file = Empty => torn

\* The delay loop is never scaled by anything but a calibration: whatever
\* crashes, kills and failing writes do, hz is 0, or no worse than the first
\* guess of a calibration, or the file was torn and misread.
HzCalibrated ==
  speed >= 4 => \/ hz = 0
                \/ Distance(hz) <= Distance(FirstLoops)
                \/ hz \in Garbage /\ torn

\* cncctl -C ends: a calibration that does not converge is given up.
CtlEnds == \A p \in Ctls : pc[p] # "idle" ~> pc[p] = "idle"
==============================================================================
