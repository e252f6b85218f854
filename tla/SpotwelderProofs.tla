--------------------------- MODULE SpotwelderProofs ---------------------------
(***************************************************************************)
(* Proofs about Spotwelder for any number of units, cycles and debouncing  *)
(* reads: types, the relay left open behind every call, and the length of  *)
(* a weld.                                                                 *)
(***************************************************************************)
EXTENDS Spotwelder, TLAPS

\* Where a call stands: the relay is closed in the counting loop only, and
\* each call uses its own variables.
StageInv ==
  /\ call = "weld" <=> stage # "none"
  /\ call # "none" => unit \in Welders
  /\ \A w \in Welders : relay[w] <=> (stage = "weld" /\ unit = w)
  /\ stage # "weld" => halves = 0
  /\ stage \in {"high", "low"} => i = 0 /\ ph = FALSE
  /\ stage = "none" => cycles = 0 /\ ph = FALSE
  /\ call = "none" => i = 0

\* The edges since the relay was closed, by the edges counted: ph is the
\* level waited for, and an edge that has come is still to be counted.
EdgeInv ==
  stage = "weld" =>
    /\ halves = IF phase[unit] = ph THEN i ELSE i - 1
    /\ (i = 0 => phase[unit] = ph)
    /\ (i > 0 /\ phase[unit] = ph) => i < cycles

IInv == TypeOK /\ StageInv /\ EdgeInv

\* The lines and the flags hold Booleans, which no other part depends on.
LEMMA Booleans == (LineTypes /\ FlagTypes) /\ [Next]_vars => (LineTypes /\ FlagTypes)'
<1> USE DEF LineTypes, FlagTypes, inputVars, weldVars
<1>1. ASSUME LineTypes, FlagTypes, Kernel PROVE (LineTypes /\ FlagTypes)'
  BY <1>1 DEF Kernel, AwaitHigh, AwaitLow, CountEdge, WeldOff, SenseLow,
              SenseHigh, SenseOn, Return
<1>2. ASSUME LineTypes, FlagTypes, Syscalls PROVE (LineTypes /\ FlagTypes)'
  BY <1>2 DEF Syscalls, Weld, Sense, Refuse, Enter
<1>3. ASSUME LineTypes, FlagTypes, NEW w \in Welders, Alternate(w) \/ Flip(w)
      PROVE  (LineTypes /\ FlagTypes)'
  BY <1>3 DEF Alternate, Flip
<1>4. ASSUME LineTypes, FlagTypes, UNCHANGED vars PROVE (LineTypes /\ FlagTypes)'
  BY <1>4 DEF vars
<1>5. QED
  BY <1>1, <1>2, <1>3, <1>4 DEF Next

\* The inductive invariant holds before the first call.
LEMMA InitInv == Init => IInv
<1> SUFFICES ASSUME Init PROVE IInv
  OBVIOUS
<1> USE WelderAssumption DEF Init
<1>1. LineTypes /\ FlagTypes
  BY DEF LineTypes, FlagTypes
<1>2. CallTypes
  BY DEF CallTypes, Sensing, Welders
<1>3. StageInv /\ EdgeInv
  BY DEF StageInv, EdgeInv, Welders
<1>4. QED
  BY <1>1, <1>2, <1>3 DEF IInv, TypeOK

\* Entering a call, or being refused, keeps the invariant.
LEMMA SyscallsInv ==
  ASSUME IInv, Syscalls
  PROVE  (CallTypes /\ StageInv /\ EdgeInv)'
<1> USE WelderAssumption DEF IInv, TypeOK, Welders, inputVars, weldVars
<1>1. ASSUME NEW w \in 0 .. NWelders, NEW n \in -1 .. MaxCycles + 1, Weld(w, n)
      PROVE  (CallTypes /\ StageInv /\ EdgeInv)'
  <2>1. CallTypes'
    BY <1>1 DEF Weld, Refuse, Enter, CallTypes, Sensing, StageInv
  <2>2. StageInv'
    BY <1>1 DEF Weld, Refuse, Enter, StageInv, LineTypes
  <2>3. EdgeInv'
    BY <1>1 DEF Weld, Refuse, Enter, EdgeInv, StageInv
  <2>4. QED
    BY <2>1, <2>2, <2>3
<1>2. ASSUME NEW w \in 0 .. NWelders, NEW c \in {"trig", "select"}, Sense(c, w)
      PROVE  (CallTypes /\ StageInv /\ EdgeInv)'
  <2>1. CallTypes'
    BY <1>2 DEF Sense, Refuse, Enter, CallTypes, Sensing, StageInv
  <2>2. StageInv'
    BY <1>2 DEF Sense, Refuse, Enter, StageInv, LineTypes
  <2>3. EdgeInv'
    BY <1>2 DEF Sense, Refuse, Enter, EdgeInv, StageInv
  <2>4. QED
    BY <2>1, <2>2, <2>3
<1>3. QED
  BY <1>1, <1>2 DEF Syscalls

\* Every step of a call keeps the invariant.
LEMMA KernelInv ==
  ASSUME IInv, Kernel
  PROVE  (CallTypes /\ StageInv /\ EdgeInv)'
<1> USE WelderAssumption DEF IInv, TypeOK, Welders, inputVars, weldVars
<1>1. CASE AwaitHigh
  BY <1>1 DEF AwaitHigh, CallTypes, Sensing, StageInv, EdgeInv
<1>2. CASE AwaitLow
  <2>1. StageInv' /\ CallTypes'
    BY <1>2 DEF AwaitLow, CallTypes, Sensing, StageInv, LineTypes
  <2>2. EdgeInv'
    BY <1>2 DEF AwaitLow, StageInv, EdgeInv, LineTypes, FlagTypes
  <2>3. QED
    BY <2>1, <2>2
<1>3. CASE CountEdge
  BY <1>3 DEF CountEdge, CallTypes, Sensing, StageInv, EdgeInv, LineTypes, FlagTypes
<1>4. CASE WeldOff \/ SenseLow \/ SenseOn
  <2>1. CallTypes'
    BY <1>4 DEF WeldOff, SenseLow, SenseOn, Return, CallTypes, Sensing
  <2>2. StageInv'
    BY <1>4 DEF WeldOff, SenseLow, SenseOn, Return, Sensing, StageInv, LineTypes
  <2>3. EdgeInv'
    BY <1>4 DEF WeldOff, SenseLow, SenseOn, Return, EdgeInv
  <2>4. QED
    BY <2>1, <2>2, <2>3
<1>5. CASE SenseHigh
  BY <1>5 DEF SenseHigh, CallTypes, Sensing, StageInv, EdgeInv
<1>6. QED
  BY <1>1, <1>2, <1>3, <1>4, <1>5 DEF Kernel

\* The AC line and the switches keep it: an edge comes only while the loop
\* waits for one.
LEMMA WorldInv ==
  ASSUME IInv, NEW w \in Welders, Alternate(w) \/ Flip(w)
  PROVE  (CallTypes /\ StageInv /\ EdgeInv)'
<1> USE WelderAssumption DEF IInv, TypeOK, Welders, inputVars, weldVars
<1>1. CASE Alternate(w)
  BY <1>1 DEF Alternate, Spinning, CallTypes, Sensing, StageInv, EdgeInv,
              LineTypes, FlagTypes
<1>2. CASE Flip(w)
  BY <1>2 DEF Flip, CallTypes, Sensing, StageInv, EdgeInv
<1>3. QED
  BY <1>1, <1>2

\* A stuttering step keeps it.
LEMMA StutterInv ==
  ASSUME IInv, UNCHANGED vars
  PROVE  (CallTypes /\ StageInv /\ EdgeInv)'
  BY DEF IInv, TypeOK, CallTypes, StageInv, EdgeInv, Sensing, vars, inputVars, weldVars

\* IInv is an invariant.
LEMMA Inductive == Spec => []IInv
<1>1. IInv /\ [Next]_vars => IInv'
  BY Booleans, SyscallsInv, KernelInv, WorldInv, StutterInv DEF Next, IInv, TypeOK
<1>2. QED
  BY <1>1, InitInv, PTL DEF Spec

\* The variables of the spot welders stay within their types.
THEOREM WelderTyping == Spec => []TypeOK
<1>1. IInv => TypeOK
  BY DEF IInv
<1>2. QED
  BY <1>1, Inductive, PTL

\* A relay is closed only in the weld it was closed for.
THEOREM RelayReleased == Spec => []RelayInCharge
<1>1. IInv => RelayInCharge
  BY DEF IInv, StageInv, RelayInCharge
<1>2. QED
  BY <1>1, Inductive, PTL

\* Where a weld of n cycles ends, it is so many half cycles long.
WeldOfHalves(n) == call = "weld" /\ call' = "none" /\ cycles = n => halves = n - 1

\* Every weld falls short of the n AC cycles of cncspotweld.2:38-40: the loop
\* counts edges of the phase, which are half cycles, and the first one it
\* waits for is the one that closed the relay.  A weld of one cycle does not
\* last at all.
THEOREM WeldFallsShort ==
  ASSUME NEW n \in Nat \ {0}
  PROVE  Spec => [][WeldOfHalves(n)]_vars
<1>1. IInv /\ [Next]_vars => [WeldOfHalves(n)]_vars
  <2> SUFFICES ASSUME IInv, Next, call = "weld", call' = "none", cycles = n
               PROVE  halves = n - 1
    BY DEF WeldOfHalves
  <2>1. WeldOff
    BY DEF Next, Syscalls, Kernel, AwaitHigh, AwaitLow, CountEdge, SenseLow,
           SenseHigh, SenseOn, Sensing, Weld, Sense, Alternate, Flip
  <2>2. QED
    BY <2>1, WelderAssumption DEF WeldOff, IInv, TypeOK, CallTypes, Sensing, StageInv, EdgeInv
<1>2. QED
  BY <1>1, Inductive, PTL DEF Spec

\* While a steady switch is read, every read so far was high.
SteadyInv == Sensing /\ steady /\ i > 0 => Switch

\* SteadyInv is inductive: the reads that a change would belie are not steady.
LEMMA SteadyKept == ASSUME IInv, SteadyInv, [Next]_vars PROVE SteadyInv'
<1> USE DEF SteadyInv, Sensing, Switch, inputVars, weldVars
<1>1. CASE AwaitHigh \/ AwaitLow \/ CountEdge \/ WeldOff
  BY <1>1 DEF AwaitHigh, AwaitLow, CountEdge, WeldOff, Return
<1>2. CASE SenseLow \/ SenseHigh \/ SenseOn
  BY <1>2 DEF SenseLow, SenseHigh, SenseOn, Return
<1>3. CASE Syscalls
  <2>1. ASSUME NEW w, NEW n, Weld(w, n) PROVE call' = "none" \/ i' = 0
    BY <2>1 DEF Weld, Refuse, Enter
  <2>2. ASSUME NEW w, NEW c, Sense(c, w) PROVE call' = "none" \/ i' = 0
    BY <2>2 DEF Sense, Refuse, Enter
  <2>3. QED
    BY <1>3, <2>1, <2>2 DEF Syscalls
<1>4. ASSUME NEW w \in Welders, Alternate(w) PROVE SteadyInv'
  BY <1>4 DEF Alternate
<1>5. ASSUME NEW w \in Welders, Flip(w) PROVE SteadyInv'
  <2> SUFFICES ASSUME Sensing', steady', i' > 0 PROVE Switch'
    OBVIOUS
  <2>1. /\ UNCHANGED <<call, unit, i>>
        /\ \/ trigger' = [trigger EXCEPT ![w] = ~@] /\ ~(call = "trig" /\ unit = w) /\ select' = select
           \/ select' = [select EXCEPT ![w] = ~@] /\ ~(call = "select" /\ unit = w) /\ trigger' = trigger
    BY <1>5 DEF Flip
  <2>2. steady
    BY <1>5 DEF Flip
  <2>3. Switch
    BY <2>1, <2>2
  <2>4. (call = "trig" => trigger'[unit] = trigger[unit])
        /\ (call = "select" => select'[unit] = select[unit])
    BY <2>1 DEF IInv, TypeOK, LineTypes, StageInv
  <2>5. QED
    BY <2>1, <2>3, <2>4
<1>6. CASE UNCHANGED vars
  BY <1>6 DEF vars
<1>7. QED
  BY <1>1, <1>2, <1>3, <1>4, <1>5, <1>6 DEF Next, Kernel

\* Where the reading of a steady switch ends, it tells on from off: on is
\* the error EPERM, never the value 1.
SwitchTold == Sensing /\ call' = "none" /\ steady => result' = IF Switch THEN "EPERM" ELSE "0"

\* A read that ends tells what was read.
LEMMA SenseEnds == IInv /\ SteadyInv /\ [Next]_vars => [SwitchTold]_vars
<1> SUFFICES ASSUME IInv, SteadyInv, Next, Sensing, call' = "none", steady
             PROVE  result' = IF Switch THEN "EPERM" ELSE "0"
  BY DEF SwitchTold
<1>1. SenseLow \/ SenseOn
  BY DEF Next, Syscalls, Kernel, AwaitHigh, AwaitLow, CountEdge, WeldOff,
         SenseHigh, Sensing, Weld, Sense, Alternate, Flip, inputVars, weldVars
<1>2. CASE SenseLow
  BY <1>2 DEF SenseLow, Return
<1>3. CASE SenseOn
  BY <1>3, WelderAssumption DEF SenseOn, Return, SteadyInv
<1>4. QED
  BY <1>1, <1>2, <1>3

\* SteadyInv is an invariant.
LEMMA SteadyAlways == Spec => []SteadyInv
<1>1. Init => SteadyInv
  BY DEF Init, SteadyInv, Sensing
<1>2. IInv /\ SteadyInv /\ [Next]_vars => SteadyInv'
  BY SteadyKept
<1>3. QED
  BY <1>1, <1>2, Inductive, PTL DEF Spec

\* A switch that stays off is reported off, for any number of debouncing
\* reads (spotwelder_trig, spotwelder_select).
THEOREM NoFalseTrigger == Spec => OffStaysOff
<1>1. [SwitchTold]_vars
        => [Sensing /\ call' = "none" /\ steady /\ ~Switch => result' = "0"]_vars
  BY DEF SwitchTold
<1>2. QED
  BY <1>1, SenseEnds, SteadyAlways, Inductive, PTL DEF Spec, OffStaysOff

\* No switch is ever reported as the value 1 that cncspotweldtrig.2:38-41 and
\* cncspotweldselect.2:38-41 promise: one that stays on ends every call in
\* an error they do not list.
THEOREM OnIsAnError == Spec => [][SwitchTold]_vars
BY SenseEnds, SteadyAlways, Inductive, PTL DEF Spec
==============================================================================
