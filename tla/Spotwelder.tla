------------------------------ MODULE Spotwelder ------------------------------
(***************************************************************************)
(* Spot welders: cncspotweld(2), cncspotweldtrig(2) and                    *)
(* cncspotweldselect(2), with the relay, phase, trigger and select lines   *)
(* of each unit.  The calls busy-wait at splhigh(), so one runs at a time, *)
(* and only the world behind the input lines changes beside it.            *)
(***************************************************************************)
EXTENDS Integers

CONSTANTS
  NWelders,     \* cnc_nspotwelders
  MaxCycles,    \* SPOTWELDER_MAXCYCLES
  TrigReads     \* debounce: reads of a switch (1000 in the code)

ASSUME WelderAssumption ==
  /\ NWelders \in Nat
  /\ MaxCycles \in Nat
  /\ TrigReads \in Nat \ {0}

Welders == 0 .. NWelders - 1

VARIABLES
  relay,        \* level of each RELAY output
  phase,        \* level of each PHASE input, which follows the AC line
  trigger,      \* level of each TRIGGER input
  select,       \* level of each SELECT input
  call,         \* the call in progress
  unit,         \* the welder it is about
  cycles,       \* ncycles
  stage,        \* the loop spotwelder_weld() is in
  i,            \* i of the loop in progress
  ph,           \* ph
  result,       \* what the last call returned
  halves,       \* history: edges of PHASE since the relay was closed
  steady        \* history: the switch has not changed since the call began

inputVars == <<phase, trigger, select>>
weldVars == <<cycles, stage, ph, halves>>

vars == <<relay, inputVars, weldVars, call, unit, i, result, steady>>

-----------------------------------------------------------------------------
(* Entry and return of the calls.                                          *)

Enter(c, w) == /\ call' = c /\ unit' = w
               /\ i' = 0 /\ result' = "none" /\ steady' = TRUE

\* What stands in the local variables while no call is in progress.
Return(r) == /\ call' = "none" /\ result' = r
             /\ unit' = 0 /\ i' = 0 /\ steady' = TRUE
             /\ cycles' = 0 /\ stage' = "none" /\ ph' = FALSE /\ halves' = 0

Refuse(e) == /\ result' = e
             /\ UNCHANGED <<call, unit, i, steady, weldVars>>

\* Faulty: the number of cycles is not checked against its maximum.
WeldUnchecked(w, n) ==
  /\ call = "none"
  /\ \/ w \notin Welders /\ Refuse("ENODEV")
     \/ w \in Welders /\ n < 0 /\ Refuse("EINVAL")
     \/ /\ w \in Welders /\ n >= 0
        /\ Enter("weld", w)
        /\ cycles' = n /\ stage' = "high" /\ ph' = FALSE /\ halves' = 0
  /\ UNCHANGED <<relay, inputVars>>

\* cncspotweld(w, n)
Weld(w, n) ==
  /\ call = "none"
  /\ \/ w \notin Welders /\ Refuse("ENODEV")
     \/ w \in Welders /\ n \notin 0 .. MaxCycles /\ Refuse("EINVAL")
     \/ /\ w \in Welders /\ n \in 0 .. MaxCycles
        /\ Enter("weld", w)
        /\ cycles' = n /\ stage' = "high" /\ ph' = FALSE /\ halves' = 0
  /\ UNCHANGED <<relay, inputVars>>

\* cncspotweldtrig(w) and cncspotweldselect(w)
Sense(c, w) ==
  /\ call = "none"
  /\ c \in {"trig", "select"}
  /\ \/ w \notin Welders /\ Refuse("ENODEV")
     \/ w \in Welders /\ Enter(c, w) /\ UNCHANGED weldVars
  /\ UNCHANGED <<relay, inputVars>>

-----------------------------------------------------------------------------
(* spotwelder_weld()                                                       *)

\* The relay is closed on a falling edge of the phase.
AwaitHigh == /\ call = "weld" /\ stage = "high"
             /\ phase[unit]
             /\ stage' = "low"
             /\ UNCHANGED <<relay, inputVars, cycles, ph, halves, call, unit, i, result, steady>>

AwaitLow == /\ call = "weld" /\ stage = "low"
            /\ ~phase[unit]
            /\ stage' = "weld"
            /\ relay' = [relay EXCEPT ![unit] = TRUE]
            /\ UNCHANGED <<inputVars, cycles, ph, halves, call, unit, i, result, steady>>

\* The loop waits while phase == !ph, then negates ph.
CountEdge == /\ call = "weld" /\ stage = "weld" /\ i < cycles
             /\ phase[unit] = ph
             /\ i' = i + 1 /\ ph' = ~ph
             /\ UNCHANGED <<relay, inputVars, cycles, stage, halves, call, unit, result, steady>>

\* Faulty: the relay is opened only when there was something to count.
WeldOffCounted ==
  /\ call = "weld" /\ stage = "weld" /\ i = cycles
  /\ relay' = IF cycles = 0 THEN relay ELSE [relay EXCEPT ![unit] = FALSE]
  /\ Return("0")
  /\ UNCHANGED inputVars

\* Faulty: the outer loop is not left.
WeldOffAgain ==
  /\ call = "weld" /\ stage = "weld" /\ i = cycles
  /\ relay' = [relay EXCEPT ![unit] = FALSE]
  /\ stage' = "high" /\ i' = 0 /\ ph' = FALSE /\ halves' = 0
  /\ UNCHANGED <<inputVars, cycles, call, unit, result, steady>>

WeldOff ==
  /\ call = "weld" /\ stage = "weld" /\ i = cycles
  /\ relay' = [relay EXCEPT ![unit] = FALSE]
  /\ Return("0")
  /\ UNCHANGED inputVars

-----------------------------------------------------------------------------
(* spotwelder_trig() and spotwelder_select()                               *)

Sensing == call \in {"trig", "select"}

\* The switch the call is about.
Switch == IF call = "trig" THEN trigger[unit] ELSE select[unit]

\* Faulty: a low read does not end the loop, which then runs to its end.
SenseLowIgnored == /\ Sensing /\ i < TrigReads /\ ~Switch
                   /\ i' = i + 1
                   /\ UNCHANGED <<relay, inputVars, weldVars, call, unit, result, steady>>

SenseLow == /\ Sensing /\ i < TrigReads /\ ~Switch
            /\ Return("0")
            /\ UNCHANGED <<relay, inputVars>>

SenseHigh == /\ Sensing /\ i < TrigReads /\ Switch
             /\ i' = i + 1
             /\ UNCHANGED <<relay, inputVars, weldVars, call, unit, result, steady>>

\* i == debounce: the functions return 1, which the system calls return as
\* their error number, and 1 is EPERM.
SenseOn == /\ Sensing /\ i = TrigReads
           /\ Return("EPERM")
           /\ UNCHANGED <<relay, inputVars>>

-----------------------------------------------------------------------------
(* The world.                                                              *)

\* The weld loop reads PHASE and waits for it to change.
Spinning == /\ call = "weld"
            /\ \/ stage = "high" /\ ~phase[unit]
               \/ stage = "low" /\ phase[unit]
               \/ stage = "weld" /\ i < cycles /\ phase[unit] # ph

\* The AC line alternates.  A half cycle is thousands of reads long: the
\* phase a weld goes by changes only once the loop has caught up with it.
Alternate(w) ==
  /\ (call = "weld" /\ unit = w) => Spinning
  /\ phase' = [phase EXCEPT ![w] = ~@]
  /\ halves' = IF relay[w] THEN halves + 1 ELSE halves
  /\ UNCHANGED <<relay, trigger, select, cycles, stage, ph, call, unit, i, result, steady>>

\* Switches change, and bounce, at any time.
Flip(w) ==
  /\ \/ /\ trigger' = [trigger EXCEPT ![w] = ~@]
        /\ steady' = (steady /\ ~(call = "trig" /\ unit = w))
        /\ UNCHANGED select
     \/ /\ select' = [select EXCEPT ![w] = ~@]
        /\ steady' = (steady /\ ~(call = "select" /\ unit = w))
        /\ UNCHANGED trigger
  /\ UNCHANGED <<relay, phase, weldVars, call, unit, i, result>>

-----------------------------------------------------------------------------

Init ==
  /\ relay = [w \in Welders |-> FALSE]
  /\ phase \in [Welders -> BOOLEAN]
  /\ trigger \in [Welders -> BOOLEAN]
  /\ select \in [Welders -> BOOLEAN]
  /\ call = "none" /\ unit = 0 /\ i = 0 /\ result = "none"
  /\ cycles = 0 /\ stage = "none" /\ ph = FALSE /\ halves = 0
  /\ steady = TRUE

Kernel == \/ AwaitHigh \/ AwaitLow \/ CountEdge \/ WeldOff
          \/ SenseLow \/ SenseHigh \/ SenseOn

\* One unit and one count beyond those that exist, for ENODEV and EINVAL.
Syscalls == \E w \in 0 .. NWelders :
              \/ \E n \in -1 .. MaxCycles + 1 : Weld(w, n)
              \/ \E c \in {"trig", "select"} : Sense(c, w)

Next == Kernel \/ Syscalls \/ \E w \in Welders : Alternate(w) \/ Flip(w)

\* The processor executes the call in progress, and the AC line never stops.
Spec == /\ Init /\ [][Next]_vars
        /\ WF_vars(Kernel)
        /\ \A w \in Welders : WF_vars(Alternate(w))

-----------------------------------------------------------------------------
(* Properties.                                                             *)

LineTypes ==
  /\ relay \in [Welders -> BOOLEAN] /\ phase \in [Welders -> BOOLEAN]
  /\ trigger \in [Welders -> BOOLEAN] /\ select \in [Welders -> BOOLEAN]

FlagTypes == ph \in BOOLEAN /\ steady \in BOOLEAN

CallTypes ==
  /\ call \in {"none", "weld", "trig", "select"}
  /\ result \in {"none", "0", "EPERM", "ENODEV", "EINVAL"}
  /\ stage \in {"none", "high", "low", "weld"}
  /\ unit \in Welders \union {0}
  /\ cycles \in 0 .. MaxCycles
  /\ i \in 0 .. IF Sensing THEN TrigReads ELSE cycles
  /\ halves \in Nat

\* Every variable ranges over what the C declarations and the code allow.
TypeOK == LineTypes /\ FlagTypes /\ CallTypes

\* No relay is left closed behind a weld, of any length including zero, and
\* no unit is energised on behalf of another (spotwelder_weld).
RelayInCharge == \A w \in Welders : relay[w] => call = "weld" /\ unit = w

\* A weld ends, although it holds the processor at splhigh() without a time
\* limit, as long as the AC line alternates.
WeldEnds == call = "weld" ~> call = "none"

\* No unit is told to weld by a switch that nobody touches: as long as it
\* stays off it is never reported as anything else, whatever the other
\* switches, units and debouncing do.  This is the half of the promise of
\* cncspotweldtrig(2) and cncspotweldselect(2) that the code keeps; a switch
\* that is on is reported as the error EPERM, not as the value 1.
OffStaysOff ==
  [][Sensing /\ call' = "none" /\ steady /\ ~Switch => result' = "0"]_vars
==============================================================================
