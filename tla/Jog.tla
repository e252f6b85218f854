---------------------------------- MODULE Jog ----------------------------------
(***************************************************************************)
(* Jogging: the manual pulse generator behind /dev/mpg, whose driver       *)
(* decodes a quadrature wheel with an axis selector, and jog(1), which     *)
(* reads its events, moves a target along, and lets an interval timer      *)
(* send the machine there.  Other processes may read the device too:       *)
(* mpgopen() tests sc_open, which nothing sets.                            *)
(*                                                                         *)
(* mpgread() samples all its pins at splhigh() within microseconds, so it  *)
(* is one step; a hand turns the wheel and the selector between reads.     *)
(***************************************************************************)
EXTENDS Integers

CONSTANTS
  NAxes,        \* CNC_MAX_AXES, and the axes the pendant can select
  Garbage,      \* what mpgread() may leave in ev.type without writing it
  MaxTurn,      \* bound: quarters the wheel is ahead of the driver
  MaxTarget     \* bound: clicks from the origin that jog asks for

ASSUME JogAssumption ==
  /\ NAxes \in 1 .. 3
  /\ Garbage \subseteq Int
  /\ MaxTurn \in Nat
  /\ MaxTarget \in Nat

Axes == 0 .. NAxes - 1

VARIABLES
  wheel,        \* quarter of the wheel's period that faces its sensors
  selected,     \* axes whose selector line is high
  Aprev, Bprev, \* levels of A and B when mpgread() last served each axis
  ahead,        \* history: quarters turned since then, for each axis
  event,        \* the last event read
  pc,           \* where jog's main loop is
  pos,          \* jog's pos, in clicks of the wheel
  armed         \* its timer is running

pinVars == <<wheel, selected>>
mpgVars == <<Aprev, Bprev, ahead, event>>
jogVars == <<pc, pos, armed>>

vars == <<pinVars, mpgVars, jogVars>>

-----------------------------------------------------------------------------
(* The pendant.                                                            *)

\* Forward is the sense in which A and B read 00, 10, 11, 01, and 00 again,
\* which cnc_mpgvar.h:42-49 calls counterclockwise.
A(w) == IF w \in {1, 2} THEN 1 ELSE 0
B(w) == IF w \in {2, 3} THEN 1 ELSE 0

\* The wheel turns by a quarter of its period, forward or back.
Turn(d) ==
  /\ wheel' = (wheel + d) % 4
  /\ ahead' = [a \in Axes |-> ahead[a] + d]
  /\ \A a \in Axes : ahead'[a] \in -MaxTurn .. MaxTurn
  /\ UNCHANGED <<selected, Aprev, Bprev, event, jogVars>>

\* The selector is moved; between two positions no line is high.
Select(s) ==
  /\ selected' = s
  /\ UNCHANGED <<wheel, mpgVars, jogVars>>

-----------------------------------------------------------------------------
(* mpgread()                                                               *)

WHEELDOWN == 4
WHEELUP == 5

\* mpg_get_axis(): the first line that is high, or X.
SelectedAxis ==
  IF selected = {} THEN 0
  ELSE CHOOSE a \in selected : \A b \in selected : a <= b

\* Faulty: the return to 00 is left out, as in MPG_TRANSITION_CCW.
UpwardOpen(a, b, ap, bp) ==
  <<a, b, ap, bp>> \in {<<1, 0, 0, 0>>, <<1, 1, 1, 0>>, <<0, 1, 1, 1>>}

\* The transitions that are WHEELUP; every other change is WHEELDOWN.
Upward(a, b, ap, bp) ==
  <<a, b, ap, bp>> \in {<<1, 0, 0, 0>>, <<1, 1, 1, 0>>, <<0, 1, 1, 1>>, <<0, 0, 0, 1>>}

\* Faulty: ev.data is not cleared before it is counted.
PulseAdded(up) == event.data + (IF up THEN 1 ELSE -1)

Pulse(up) == IF up THEN 1 ELSE -1

\* A read: the event it returns, and the levels it leaves for the next one.
ReadEvent ==
  LET x  == SelectedAxis
      a  == A(wheel)
      b  == B(wheel)
      up == Upward(a, b, Aprev[x], Bprev[x])
  IN /\ IF a = Aprev[x] /\ b = Bprev[x]
          THEN event' \in {[type |-> g, which |-> x, data |-> 0] : g \in Garbage}
          ELSE event' = [type  |-> IF up THEN WHEELUP ELSE WHEELDOWN,
                         which |-> x,
                         data  |-> Pulse(up)]
     /\ Aprev' = [Aprev EXCEPT ![x] = a]
     /\ Bprev' = [Bprev EXCEPT ![x] = b]
     /\ ahead' = [ahead EXCEPT ![x] = 0]
     /\ UNCHANGED pinVars

\* Another process reads the device.
ReadOther == ReadEvent /\ UNCHANGED jogVars

-----------------------------------------------------------------------------
(* jog                                                                     *)

\* jog reads a cnc_mpg_event, the driver wrote a cnc_input_event, and the
\* read is as long as the former: axis gets type, and delta gets which.
me == [axis |-> event.type, delta |-> event.which]

JogRead == /\ pc = "read"
           /\ pc' = "got"
           /\ ReadEvent
           /\ UNCHANGED <<pos, armed>>

JogIgnore == /\ pc = "got" /\ me.delta = 0
             /\ pc' = "read"
             /\ UNCHANGED <<pinVars, mpgVars, pos, armed>>

\* "invalid axis"
JogInvalid == /\ pc = "got" /\ me.delta # 0
              /\ me.axis \notin 0 .. NAxes
              /\ pc' = "dead" /\ armed' = FALSE
              /\ UNCHANGED <<pinVars, mpgVars, pos>>

\* The target moves; one axis past the last one, nothing that is modelled does.
JogUpdate ==
  LET click == IF me.delta < 0 THEN -1 ELSE 1
  IN /\ pc = "got" /\ me.delta # 0
     /\ me.axis \in 0 .. NAxes
     /\ pos' = [a \in Axes |-> IF a = me.axis THEN pos[a] + click ELSE pos[a]]
     /\ \A a \in Axes : pos'[a] \in -MaxTarget .. MaxTarget
     /\ pc' = "moved"
     /\ UNCHANGED <<pinVars, mpgVars, armed>>

\* setitimer()
JogArm == /\ pc = "moved"
          /\ pc' = "read" /\ armed' = TRUE
          /\ UNCHANGED <<pinVars, mpgVars, pos>>

\* SIGALRM, at any point of the loop: process_timeout() passes the target of
\* the moment to cncmove, and ends jog if that fails.
Alarm == /\ armed
         /\ armed' = FALSE
         /\ pc' \in {pc, "dead"}
         /\ UNCHANGED <<pinVars, mpgVars, pos>>

-----------------------------------------------------------------------------

\* mpg_attach() takes the levels as they are, and jog asks for the position.
Init ==
  /\ wheel \in 0 .. 3
  /\ selected = {}
  /\ Aprev = [a \in Axes |-> A(wheel)]
  /\ Bprev = [a \in Axes |-> B(wheel)]
  /\ ahead = [a \in Axes |-> 0]
  /\ event = [type |-> WHEELUP, which |-> 0, data |-> 0]
  /\ pc = "read"
  /\ pos = [a \in Axes |-> 0]
  /\ armed = FALSE

Jogging == JogRead \/ JogIgnore \/ JogInvalid \/ JogUpdate \/ JogArm \/ Alarm

Next ==
  \/ \E d \in {-1, 1} : Turn(d)
  \/ \E s \in {{}} \union {{a} : a \in Axes} : Select(s)
  \/ ReadOther
  \/ Jogging

Spec == Init /\ [][Next]_vars

-----------------------------------------------------------------------------
(* Properties.                                                             *)

PinTypes == wheel \in 0 .. 3 /\ selected \subseteq Axes

MpgTypes ==
  /\ Aprev \in [Axes -> {0, 1}] /\ Bprev \in [Axes -> {0, 1}]
  /\ ahead \in [Axes -> -MaxTurn .. MaxTurn]
  /\ event \in [type : Garbage \union {WHEELDOWN, WHEELUP},
                which : Axes, data : {-1, 0, 1}]

JogTypes ==
  /\ pc \in {"read", "got", "moved", "dead"}
  /\ pos \in [Axes -> -MaxTarget .. MaxTarget]
  /\ armed \in BOOLEAN

\* Every variable ranges over what the C declarations and the code allow.
TypeOK == PinTypes /\ MpgTypes /\ JogTypes

\* What a read reports of an axis depends on the quarters turned since that
\* axis was last served, whatever was selected while they were turned, and
\* on them modulo a period of four: none or four are nothing, one forward
\* is up, and everything else is down, two quarters forward included.  So a
\* wheel that is read in time is counted in its sense, an axis that is
\* selected again inherits what was turned for another, and a wheel that is
\* read too late seems to turn back (mpgread).
PulsesDecoded ==
  [][ReadEvent =>
       event'.data = CASE ahead[SelectedAxis] % 4 = 0 -> 0
                       [] ahead[SelectedAxis] % 4 = 1 -> 1
                       [] OTHER -> -1]_vars

\* jog.1: jog "polls for events from a mpg(4) device and moves a motorized
\* axis accordingly": a click it has read moves its target.
ClickMovesTarget ==
  [][pc = "got" /\ pc' # "got" /\ event.data # 0 => pos' # pos]_vars
==============================================================================
