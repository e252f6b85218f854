------------------------------- MODULE JogProofs -------------------------------
(***************************************************************************)
(* Theorems about the pendant and jog.                                     *)
(***************************************************************************)
EXTENDS Jog, TLAPS

-----------------------------------------------------------------------------
(* Types.                                                                  *)

\* mpg_get_axis() returns an axis, whichever lines are high.
LEMMA AxisSelected ==
  ASSUME selected \subseteq Axes
  PROVE  SelectedAxis \in Axes
<1>1. CASE selected = {}
  BY <1>1, JogAssumption DEF SelectedAxis, Axes
<1>2. CASE selected # {}
  <2>1. \E a \in selected : \A b \in selected : a <= b
    <3>1. selected \subseteq {0, 1, 2}
      BY JogAssumption DEF Axes
    <3>2. CASE 0 \in selected
      BY <3>1, <3>2
    <3>3. CASE 0 \notin selected /\ 1 \in selected
      BY <3>1, <3>3
    <3>4. CASE 0 \notin selected /\ 1 \notin selected
      <4>1. selected = {2}
        BY <1>2, <3>1, <3>4
      <4> QED  BY <4>1
    <3> QED  BY <3>2, <3>3, <3>4
  <2>2. SelectedAxis \in selected
    BY <1>2, <2>1 DEF SelectedAxis
  <2> QED  BY <2>2
<1> QED  BY <1>1, <1>2

LEMMA Levels ==
  ASSUME NEW w
  PROVE  A(w) \in {0, 1} /\ B(w) \in {0, 1}
BY DEF A, B

\* What mpgread() returns and leaves has its type.
LEMMA ReadTyped == PinTypes /\ MpgTypes /\ ReadEvent => PinTypes' /\ MpgTypes'
<1> SUFFICES ASSUME PinTypes, MpgTypes, ReadEvent PROVE PinTypes' /\ MpgTypes'
  OBVIOUS
<1>1. PinTypes'
  BY DEF PinTypes, ReadEvent, pinVars
<1>2. SelectedAxis \in Axes
  BY AxisSelected DEF PinTypes
<1>3. Aprev' \in [Axes -> {0, 1}] /\ Bprev' \in [Axes -> {0, 1}]
  BY <1>2, Levels DEF MpgTypes, ReadEvent
<1>4. ahead' \in [Axes -> -MaxTurn .. MaxTurn]
  <2>1. 0 \in -MaxTurn .. MaxTurn
    BY JogAssumption
  <2> QED  BY <2>1 DEF MpgTypes, ReadEvent
<1>5. event' \in [type : Garbage \union {WHEELDOWN, WHEELUP},
                  which : Axes, data : {-1, 0, 1}]
  BY <1>2 DEF ReadEvent, Pulse
<1> QED  BY <1>1, <1>3, <1>4, <1>5 DEF MpgTypes

LEMMA InitTyped == Init => TypeOK
<1> SUFFICES ASSUME Init PROVE TypeOK
  OBVIOUS
<1>1. PinTypes
  BY DEF Init, PinTypes
<1>2. MpgTypes
  BY JogAssumption, Levels DEF Init, MpgTypes, Axes
<1>3. JogTypes
  <2>1. 0 \in -MaxTarget .. MaxTarget
    BY JogAssumption
  <2> QED  BY <2>1 DEF Init, JogTypes
<1> QED  BY <1>1, <1>2, <1>3 DEF TypeOK

LEMMA StepTyped == TypeOK /\ [Next]_vars => TypeOK'
<1> SUFFICES ASSUME TypeOK, [Next]_vars PROVE TypeOK'
  OBVIOUS
<1> USE DEF TypeOK
<1>1. ASSUME NEW d \in {-1, 1}, Turn(d) PROVE TypeOK'
  <2>1. PinTypes'
    BY <1>1 DEF Turn, PinTypes
  <2>2. MpgTypes' /\ JogTypes'
    BY <1>1 DEF Turn, MpgTypes, JogTypes, jogVars
  <2> QED  BY <2>1, <2>2
<1>2. ASSUME NEW s \in {{}} \union {{a} : a \in Axes}, Select(s) PROVE TypeOK'
  BY <1>2 DEF Select, PinTypes, MpgTypes, JogTypes, mpgVars, jogVars
<1>3. CASE ReadOther
  BY <1>3, ReadTyped DEF ReadOther, JogTypes, jogVars
<1>4. CASE JogRead
  BY <1>4, ReadTyped DEF JogRead, JogTypes
<1>5. CASE JogIgnore \/ JogInvalid \/ JogArm
  BY <1>5 DEF JogIgnore, JogInvalid, JogArm, PinTypes, MpgTypes, JogTypes, pinVars, mpgVars
<1>6. CASE JogUpdate
  <2>1. PinTypes' /\ MpgTypes'
    BY <1>6 DEF JogUpdate, PinTypes, MpgTypes, pinVars, mpgVars
  <2>2. pos' \in [Axes -> -MaxTarget .. MaxTarget]
    BY <1>6 DEF JogUpdate
  <2> QED  BY <1>6, <2>1, <2>2 DEF JogUpdate, JogTypes
<1>7. CASE Alarm
  BY <1>7 DEF Alarm, PinTypes, MpgTypes, JogTypes, pinVars, mpgVars
<1>8. CASE UNCHANGED vars
  BY <1>8 DEF vars, PinTypes, MpgTypes, JogTypes, pinVars, mpgVars, jogVars
<1> QED  BY <1>1, <1>2, <1>3, <1>4, <1>5, <1>6, <1>7, <1>8 DEF Next, Jogging

\* Every variable of pendant and jog ranges over what the declarations and
\* the code of cnc_mpg.c and jog.c allow.
THEOREM JogTyping == Spec => []TypeOK
BY InitTyped, StepTyped, PTL DEF Spec

-----------------------------------------------------------------------------
(* Decoding.                                                               *)

\* The levels kept for an axis are those of the wheel when it was served.
Remembered ==
  \A a \in Axes : /\ Aprev[a] = A((wheel - ahead[a]) % 4)
                  /\ Bprev[a] = B((wheel - ahead[a]) % 4)

\* Turning the wheel and being ahead of the driver go together.
LEMMA TurnCancels ==
  ASSUME NEW w \in 0 .. 3, NEW h \in Int, NEW d \in {-1, 1}
  PROVE  (((w + d) % 4) - (h + d)) % 4 = (w - h) % 4
OBVIOUS

LEMMA InitRemembers == Init => Remembered
BY JogAssumption DEF Init, Remembered, Axes

LEMMA StepRemembers == TypeOK /\ Remembered /\ [Next]_vars => Remembered'
<1> SUFFICES ASSUME TypeOK, Remembered, [Next]_vars PROVE Remembered'
  OBVIOUS
<1> USE DEF TypeOK
<1>1. ASSUME NEW d \in {-1, 1}, Turn(d) PROVE Remembered'
  <2> SUFFICES ASSUME NEW a \in Axes
               PROVE (wheel' - ahead'[a]) % 4 = (wheel - ahead[a]) % 4
    BY <1>1 DEF Turn, Remembered
  <2>1. wheel \in 0 .. 3 /\ ahead[a] \in Int
    BY JogAssumption DEF PinTypes, MpgTypes
  <2>2. wheel' = (wheel + d) % 4 /\ ahead'[a] = ahead[a] + d
    BY <1>1 DEF Turn
  <2> QED  BY <2>1, <2>2, TurnCancels
<1>2. ASSUME ReadEvent PROVE Remembered'
  <2>1. SelectedAxis \in Axes
    BY AxisSelected DEF PinTypes
  <2>2. wheel' = wheel /\ (wheel - 0) % 4 = wheel
    BY <1>2 DEF ReadEvent, pinVars, PinTypes
  <2> SUFFICES ASSUME NEW a \in Axes
               PROVE /\ Aprev'[a] = A((wheel - ahead'[a]) % 4)
                     /\ Bprev'[a] = B((wheel - ahead'[a]) % 4)
    BY <2>2 DEF Remembered
  <2>3. CASE a = SelectedAxis
    BY <1>2, <2>1, <2>2, <2>3 DEF ReadEvent, MpgTypes
  <2>4. CASE a # SelectedAxis
    BY <1>2, <2>1, <2>4 DEF ReadEvent, MpgTypes, Remembered
  <2> QED  BY <2>3, <2>4
<1>3. CASE ReadOther \/ JogRead
  BY <1>2, <1>3 DEF ReadOther, JogRead
<1>4. CASE \/ \E s \in {{}} \union {{a} : a \in Axes} : Select(s)
           \/ JogIgnore \/ JogInvalid \/ JogArm \/ JogUpdate \/ Alarm \/ UNCHANGED vars
  <2>1. wheel' = wheel /\ Aprev' = Aprev /\ Bprev' = Bprev /\ ahead' = ahead
    BY <1>4 DEF Select, JogIgnore, JogInvalid, JogArm, JogUpdate, Alarm,
                vars, pinVars, mpgVars
  <2> QED  BY <2>1 DEF Remembered
<1> QED  BY <1>1, <1>3, <1>4 DEF Next, Jogging

\* Only the remainder of a turn modulo the period shows.
LEMMA TurnModulo ==
  ASSUME NEW w \in 0 .. 3, NEW h \in Int
  PROVE  h % 4 \in 0 .. 3 /\ (w - h) % 4 = (w - (h % 4)) % 4
OBVIOUS

\* The decoding of what is left of a turn.
LEMMA Decoded ==
  ASSUME NEW w \in 0 .. 3, NEW q \in 0 .. 3
  PROVE  LET v == (w - q) % 4
             same == A(w) = A(v) /\ B(w) = B(v)
         IN /\ q = 0 <=> same
            /\ q = 1 <=> Upward(A(w), B(w), A(v), B(v))
<1>1. CASE q = 0
  BY <1>1 DEF A, B, Upward
<1>2. CASE q = 1
  BY <1>2 DEF A, B, Upward
<1>3. CASE q = 2
  BY <1>3 DEF A, B, Upward
<1>4. CASE q = 3
  BY <1>4 DEF A, B, Upward
<1> QED  BY <1>1, <1>2, <1>3, <1>4

\* What a read reports, by the quarters turned since the axis was served.
LEMMA ReadDecodes ==
  ASSUME TypeOK, Remembered, ReadEvent
  PROVE  event'.data = CASE ahead[SelectedAxis] % 4 = 0 -> 0
                         [] ahead[SelectedAxis] % 4 = 1 -> 1
                         [] OTHER -> -1
<1> DEFINE x == SelectedAxis
           q == ahead[x] % 4
           v == (wheel - q) % 4
           same == A(wheel) = Aprev[x] /\ B(wheel) = Bprev[x]
           up == Upward(A(wheel), B(wheel), Aprev[x], Bprev[x])
<1>1. x \in Axes
  BY AxisSelected DEF TypeOK, PinTypes
<1>2. wheel \in 0 .. 3 /\ ahead[x] \in Int
  BY <1>1, JogAssumption DEF TypeOK, PinTypes, MpgTypes
<1>3. q \in 0 .. 3 /\ (wheel - ahead[x]) % 4 = v
  BY <1>2, TurnModulo
<1>4. Aprev[x] = A(v) /\ Bprev[x] = B(v)
  BY <1>1, <1>3 DEF Remembered
<1>5. (q = 0 <=> same) /\ (q = 1 <=> up)
  <2> HIDE DEF q
  <2>1. /\ q = 0 <=> A(wheel) = A(v) /\ B(wheel) = B(v)
        /\ q = 1 <=> Upward(A(wheel), B(wheel), A(v), B(v))
    BY <1>2, <1>3, Decoded
  <2> QED  BY <1>4, <2>1
<1>6. same => event'.data = 0
  BY DEF ReadEvent
<1>7. ~same => event'.data = Pulse(up)
  BY DEF ReadEvent
<1> HIDE DEF x, q, same, up
<1>8. event'.data = CASE q = 0 -> 0 [] q = 1 -> 1 [] OTHER -> -1
  BY <1>3, <1>5, <1>6, <1>7 DEF Pulse
<1> QED  BY <1>8 DEF x, q

\* Every read of the wheel is decoded modulo its period, for any number of
\* axes, whoever reads, however far the wheel turns between two reads and
\* however the selector goes from axis to axis (mpgread).
THEOREM WheelDecoded == Spec => PulsesDecoded
<1>1. TypeOK /\ Remembered /\ [Next]_vars
        => [ReadEvent => event'.data = CASE ahead[SelectedAxis] % 4 = 0 -> 0
                                         [] ahead[SelectedAxis] % 4 = 1 -> 1
                                         [] OTHER -> -1]_vars
  BY ReadDecodes
<1>2. Init => TypeOK /\ Remembered
  BY InitTyped, InitRemembers
<1>3. TypeOK /\ Remembered /\ [Next]_vars => (TypeOK /\ Remembered)'
  BY StepTyped, StepRemembers
<1> QED  BY <1>1, <1>2, <1>3, PTL DEF Spec, PulsesDecoded
==============================================================================
