------------------------------- MODULE BootProofs -------------------------------
(***************************************************************************)
(* Proofs about Boot: the registry keeps its promises through every        *)
(* configuration, and the timings theirs through every crash and kill.     *)
(***************************************************************************)
EXTENDS Boot, TLAPS

-----------------------------------------------------------------------------
(* The registry.                                                           *)

\* Devices that have not attached yet have no outcome.
Pending == \A i \in Devices : i >= next => outcome[i] = "none"

RegistryInv == RegistryTypeOK /\ Pending /\ PinsHeld /\ PinsAccounted /\ AxisNumbers

LEMMA ConfigTyped ==
  ASSUME RegistryTypeOK, NEW i \in Devices
  PROVE  /\ Devices = 1 .. Len(config) /\ Len(config) \in Nat
         /\ config[i].type \in Types
         /\ config[i].pins \in Seq(Int)
<1>1. config \in Seq([type : Types, pins : Seq(Int)])
  BY RegistryAssumption DEF RegistryTypeOK
<1>2. Devices = 1 .. Len(config) /\ Len(config) \in Nat
  BY <1>1 DEF Devices
<1>3. config[i] \in [type : Types, pins : Seq(Int)]
  <2>. DEFINE S == [type : Types, pins : Seq(Int)]
  <2>1. config \in Seq(S) /\ i \in 1 .. Len(config)
    BY <1>1, <1>2
  <2>. HIDE DEF S
  <2>2. config[i] \in S
    BY <2>1
  <2>. QED  BY <2>2 DEF S
<1>. QED  BY <1>2, <1>3

LEMMA MarkedPins ==
  ASSUME NEW d, d.pins \in Seq(Int)
  PROVE  /\ Marked(d) \subseteq Pins
         /\ Marked(d) \subseteq {d.pins[k] : k \in DOMAIN d.pins}
<1>. SUFFICES ASSUME NEW p \in Marked(d)
              PROVE  p \in Pins /\ p \in {d.pins[k] : k \in DOMAIN d.pins}
  OBVIOUS
<1>1. PICK k \in DOMAIN d.pins : p = d.pins[k] /\ \A j \in 1 .. k : Free(d.pins[j])
  BY DEF Marked
<1>2. k \in 1 .. k
  BY <1>1
<1>. QED  BY <1>1, <1>2 DEF Free

\* All pins of a device that can be mapped are marked.
LEMMA MappableMarked ==
  ASSUME NEW d, d.pins \in Seq(Int), Mappable(d)
  PROVE  /\ Marked(d) = {d.pins[k] : k \in DOMAIN d.pins}
         /\ \A k \in DOMAIN d.pins : d.pins[k] \notin mapped
<1>1. \A k \in DOMAIN d.pins : \A j \in 1 .. k : Free(d.pins[j])
  BY DEF Mappable
<1>2. ~(Len(d.pins) > NPins)
  BY RegistryAssumption DEF Mappable
<1>3. {k \in DOMAIN d.pins : \A j \in 1 .. k : Free(d.pins[j])} = DOMAIN d.pins
  BY <1>1
<1>. QED  BY <1>2, <1>3 DEF Marked, Mappable, Free

LEMMA RegistryStarts == ASSUME RegistryInit PROVE RegistryInv
<1>1. config \in Seq([type : Types, pins : Seq(Int)])
  BY RegistryAssumption DEF RegistryInit
<1>2. Len(config) \in Nat /\ Devices = 1 .. Len(config)
  BY <1>1 DEF Devices
<1>3. RegistryTypeOK
  BY <1>1, <1>2 DEF RegistryInit, RegistryTypeOK
<1>4. Attached = {}
  BY DEF RegistryInit, Attached
<1>5. PinsHeld /\ PinsAccounted /\ Pending
  BY <1>4 DEF RegistryInit, PinsHeld, PinsAccounted, Pending
<1>6. AxisNumbers
  <2>. SUFFICES ASSUME NEW ty \in Types PROVE Numbered(ty)
    BY DEF AxisNumbers
  <2>1. registered[ty] = <<>> /\ next = 1 /\ Room[ty] \in Nat
    BY RegistryAssumption DEF RegistryInit
  <2>2. Len(registered[ty]) = 0 /\ DOMAIN registered[ty] = {}
    BY <2>1
  <2>. QED  BY <2>1, <2>2 DEF Numbered
<1>. QED
  BY <1>3, <1>5, <1>6 DEF RegistryInv

LEMMA RegistryRestarts == ASSUME RegistryInv, RegistryReset PROVE RegistryInv'
<1>. Devices' = Devices
  BY DEF Devices, RegistryReset
<1>1. config \in Seq([type : Types, pins : Seq(Int)])
  BY RegistryAssumption DEF RegistryInv, RegistryTypeOK
<1>2. Len(config) \in Nat /\ Devices = 1 .. Len(config)
  BY <1>1 DEF Devices
<1>3. RegistryTypeOK'
  BY <1>1, <1>2 DEF RegistryReset, RegistryTypeOK, RegistryInv
<1>4. Attached' = {}
  BY DEF RegistryReset, Attached
<1>5. PinsHeld' /\ PinsAccounted' /\ Pending'
  BY <1>4 DEF RegistryReset, PinsHeld, PinsAccounted, Pending
<1>6. AxisNumbers'
  <2>. SUFFICES ASSUME NEW ty \in Types PROVE Numbered(ty)'
    BY DEF AxisNumbers
  <2>1. registered'[ty] = <<>> /\ next' = 1 /\ Room[ty] \in Nat
    BY RegistryAssumption DEF RegistryReset
  <2>2. Len(registered'[ty]) = 0 /\ DOMAIN registered'[ty] = {}
    BY <2>1
  <2>. QED  BY <2>1, <2>2 DEF Numbered
<1>. QED
  BY <1>3, <1>5, <1>6 DEF RegistryInv

LEMMA RegistryStays == ASSUME RegistryInv, UNCHANGED registryVars PROVE RegistryInv'
<1>. Devices' = Devices /\ Attached' = Attached /\ \A i : PinSet(i)' = PinSet(i)
  BY DEF Devices, Attached, PinSet, registryVars
<1>1. RegistryTypeOK'
  BY DEF RegistryInv, RegistryTypeOK, registryVars
<1>2. Pending'
  BY DEF RegistryInv, Pending, registryVars
<1>3. PinsHeld' /\ PinsAccounted'
  BY DEF RegistryInv, PinsHeld, PinsAccounted, registryVars
<1>4. AxisNumbers'
  <2>1. \A type : Numbered(type)' = Numbered(type)
    BY DEF Numbered, registryVars
  <2>. QED  BY <2>1 DEF RegistryInv, AxisNumbers
<1>. QED  BY <1>1, <1>2, <1>3, <1>4 DEF RegistryInv

LEMMA AttachType == ASSUME RegistryTypeOK, Attach PROVE RegistryTypeOK'
<1>. DEFINE d == config[next]
<1>. next \in Devices /\ Devices' = Devices
  BY DEF Attach, Devices
<1>1. d.type \in Types /\ d.pins \in Seq(Int) /\ Devices = 1 .. Len(config) /\ Len(config) \in Nat
  BY ConfigTyped
<1>2. registered' \in [Types -> Seq(Devices)]
  <2>1. registered \in [Types -> Seq(Devices)] /\ registered[d.type] \in Seq(Devices)
    BY <1>1 DEF RegistryTypeOK
  <2>2. Append(registered[d.type], next) \in Seq(Devices)
    BY <2>1
  <2>3. registered' = Register(d)
    BY DEF Attach
  <2>. QED  BY <2>1, <2>2, <2>3, <1>1 DEF Register
<1>3. mapped' \subseteq Pins
  <2>1. mapped' = PinsAfter(d) /\ mapped \subseteq Pins
    BY DEF Attach, RegistryTypeOK
  <2>. QED  BY <2>1, <1>1, MarkedPins DEF PinsAfter
<1>4. outcome' \in [Devices -> {"none", "mask", "map", "caps", "attached"}]
  <2>1. Outcome(d) \in {"mask", "map", "caps", "attached"}
    BY DEF Outcome
  <2>. QED  BY <2>1 DEF Attach, RegistryTypeOK
<1>5. config' \in Configs /\ next' \in 1 .. Len(config') + 1
  BY <1>1 DEF Attach, RegistryTypeOK
<1>. QED  BY <1>2, <1>3, <1>4, <1>5 DEF RegistryTypeOK

LEMMA AttachPins ==
  ASSUME RegistryTypeOK, Pending, PinsHeld, PinsAccounted, Attach
  PROVE  Pending' /\ PinsHeld' /\ PinsAccounted'
<1>. DEFINE d == config[next]
<1>. next \in Devices /\ Devices' = Devices /\ config' = config
  BY DEF Attach, Devices
<1>1. d.type \in Types /\ d.pins \in Seq(Int) /\ Devices = 1 .. Len(config) /\ Len(config) \in Nat
  BY ConfigTyped
<1>2. mapped' = PinsAfter(d) /\ mapped \subseteq mapped'
  BY DEF Attach, PinsAfter
<1>3. /\ outcome'[next] = Outcome(d)
      /\ \A i \in Devices : i # next => outcome'[i] = outcome[i]
  BY DEF Attach, RegistryTypeOK
<1>4. outcome[next] = "none"
  BY <1>1 DEF Pending
<1>5. \A i : PinSet(i)' = PinSet(i)
  BY DEF PinSet
<1>6. Pending'
  BY <1>1, <1>3 DEF Pending, Attach
<1>7. ASSUME Outcome(d) = "attached"
      PROVE  PinSet(next) \subseteq mapped' /\ PinSet(next) \cap mapped = {}
  <2>1. Mappable(d)
    BY <1>7 DEF Outcome
  <2>2. Marked(d) = PinSet(next) /\ PinSet(next) \cap mapped = {}
    BY <2>1, <1>1, MappableMarked DEF PinSet
  <2>. QED  BY <2>2, <1>2, <1>7 DEF PinsAfter
<1>8. PinsHeld'
  <2>1. ASSUME NEW i \in Attached' PROVE PinSet(i)' \subseteq mapped'
    <3>1. CASE i = next
      BY <3>1, <1>3, <1>5, <1>7, <2>1 DEF Attached
    <3>2. CASE i # next
      BY <3>2, <1>2, <1>3, <1>5, <2>1 DEF Attached, PinsHeld
    <3>. QED  BY <3>1, <3>2
  <2>2. ASSUME NEW i \in Attached', i # next, next \in Attached'
        PROVE  PinSet(i) \cap PinSet(next) = {}
    <3>1. i \in Attached /\ PinSet(i) \subseteq mapped
      BY <2>2, <1>3 DEF Attached, PinsHeld
    <3>2. Outcome(d) = "attached"
      BY <2>2, <1>3 DEF Attached
    <3>. QED  BY <3>1, <3>2, <1>7
  <2>3. ASSUME NEW i \in Attached', NEW j \in Attached', i # j
        PROVE  PinSet(i)' \cap PinSet(j)' = {}
    <3>1. CASE i = next \/ j = next
      BY <3>1, <2>2, <2>3, <1>5
    <3>2. CASE i # next /\ j # next
      BY <3>2, <2>3, <1>3, <1>5 DEF Attached, PinsHeld
    <3>. QED  BY <3>1, <3>2
  <2>. QED  BY <2>1, <2>3 DEF PinsHeld
<1>9. PinsAccounted'
  <2>. SUFFICES ASSUME NEW p \in mapped'
                PROVE  \E i \in Devices : p \in PinSet(i) /\ outcome'[i] \in {"attached", "map"}
    BY <1>5 DEF PinsAccounted
  <2>1. CASE p \in mapped
    <3>1. PICK i \in Devices : p \in PinSet(i) /\ outcome[i] \in {"attached", "map"}
      BY <2>1 DEF PinsAccounted
    <3>. QED  BY <3>1, <1>3, <1>4
  <2>2. CASE p \notin mapped
    <3>1. Outcome(d) \in {"map", "attached"} /\ p \in Marked(d)
      BY <2>2, <1>2 DEF PinsAfter
    <3>2. p \in PinSet(next)
      BY <3>1, <1>1, MarkedPins DEF PinSet
    <3>. QED  BY <3>1, <3>2, <1>3
  <2>. QED  BY <2>1, <2>2
<1>. QED  BY <1>6, <1>8, <1>9

LEMMA AttachNumbers ==
  ASSUME RegistryTypeOK, AxisNumbers, Attach
  PROVE  AxisNumbers'
<1>. DEFINE d == config[next]
<1>. next \in Devices /\ Devices' = Devices /\ config' = config /\ next' = next + 1
  BY DEF Attach, Devices
<1>1. d.type \in Types /\ Devices = 1 .. Len(config) /\ Len(config) \in Nat
  BY ConfigTyped
<1>2. registered' = Register(d)
  BY DEF Attach
<1>. SUFFICES ASSUME NEW ty \in Types PROVE Numbered(ty)'
  BY DEF AxisNumbers
<1>. DEFINE seq == registered[ty]
            new == registered'[ty]
<1>3. /\ seq \in Seq(Devices)
      /\ Len(seq) <= Room[ty]
      /\ \A k \in DOMAIN seq : config[seq[k]].type = ty /\ seq[k] < next
      /\ \A j, k \in DOMAIN seq : j < k => seq[j] < seq[k]
      /\ \A i \in 1 .. next - 1 :
           config[i].type = ty /\ (\A k \in DOMAIN seq : seq[k] # i)
             => Len(seq) = Room[ty] /\ \A k \in DOMAIN seq : seq[k] < i
  BY DEF AxisNumbers, Numbered, RegistryTypeOK
<1>4. Room[ty] \in Nat /\ Len(seq) \in Nat /\ DOMAIN seq = 1 .. Len(seq)
  BY <1>3, RegistryAssumption
<1>5. \A k \in DOMAIN seq : seq[k] \in 1 .. Len(config)
  BY <1>1, <1>3
<1>6. next \in 1 .. Len(config) /\ next + 1 - 1 = next
  BY <1>1
<1>7. SUFFICES
        /\ Len(new) <= Room[ty]
        /\ \A k \in DOMAIN new : config[new[k]].type = ty /\ new[k] < next + 1
        /\ \A j, k \in DOMAIN new : j < k => new[j] < new[k]
        /\ \A i \in 1 .. next :
             config[i].type = ty /\ (\A k \in DOMAIN new : new[k] # i)
               => Len(new) = Room[ty] /\ \A k \in DOMAIN new : new[k] < i
  BY <1>6 DEF Numbered
<1>8. CASE ty = d.type /\ Len(seq) < Room[ty]
  <2>1. new = Append(seq, next)
    BY <1>2, <1>8 DEF Register, RegistryTypeOK
  <2>. HIDE DEF new
  <2>2. /\ Len(new) = Len(seq) + 1
        /\ \A k \in DOMAIN seq : new[k] = seq[k]
        /\ new[Len(seq) + 1] = next
        /\ DOMAIN new = 1 .. Len(seq) + 1
    BY <2>1, <1>3, <1>4
  <2>. HIDE DEF seq
  <2>3. ASSUME NEW k \in DOMAIN new PROVE config[new[k]].type = ty /\ new[k] < next + 1
    <3>1. CASE k = Len(seq) + 1
      BY <3>1, <2>2, <1>6, <1>8
    <3>2. CASE k # Len(seq) + 1
      <4>1. k \in DOMAIN seq
        BY <2>2, <2>3, <3>2, <1>4
      <4>. QED  BY <4>1, <2>2, <1>3, <1>5, <1>6
    <3>. QED  BY <3>1, <3>2
  <2>4. ASSUME NEW j \in DOMAIN new, NEW k \in DOMAIN new, j < k PROVE new[j] < new[k]
    <3>1. j \in DOMAIN seq
      BY <2>2, <2>4, <1>4
    <3>2. CASE k = Len(seq) + 1
      BY <3>1, <3>2, <2>2, <1>3
    <3>3. CASE k # Len(seq) + 1
      <4>1. k \in DOMAIN seq
        BY <2>2, <2>4, <3>3, <1>4
      <4>. QED  BY <4>1, <3>1, <2>2, <2>4, <1>3
    <3>. QED  BY <3>2, <3>3
  <2>5. ASSUME NEW i \in 1 .. next, config[i].type = ty, \A k \in DOMAIN new : new[k] # i
        PROVE  FALSE
    <3>1. i # next
      BY <2>2, <2>5, <1>4
    <3>2. \A k \in DOMAIN seq : seq[k] # i
      BY <2>2, <2>5, <1>4
    <3>3. i \in 1 .. next - 1
      BY <3>1, <2>5, <1>6
    <3>. QED  BY <3>2, <3>3, <2>5, <1>3, <1>8, <1>4
  <2>6. Len(new) <= Room[ty]
    BY <2>2, <1>8, <1>4
  <2>. QED  BY <2>3, <2>4, <2>5, <2>6
<1>9. CASE ~(ty = d.type /\ Len(seq) < Room[ty])
  <2>1. new = seq
    BY <1>2, <1>9, <1>1 DEF Register, RegistryTypeOK
  <2>2. ASSUME NEW i \in 1 .. next, config[i].type = ty, \A k \in DOMAIN seq : seq[k] # i
        PROVE  Len(seq) = Room[ty] /\ \A k \in DOMAIN seq : seq[k] < i
    <3>1. CASE i = next
      <4>1. ~(Len(seq) < Room[ty])
        BY <3>1, <2>2, <1>9
      <4>2. Len(seq) = Room[ty]
        BY <4>1, <1>3, <1>4
      <4>. QED  BY <4>2, <3>1, <1>3
    <3>2. CASE i # next
      BY <3>2, <2>2, <1>6, <1>3
    <3>. QED  BY <3>1, <3>2
  <2>3. \A k \in DOMAIN seq : seq[k] < next + 1
    BY <1>3, <1>5, <1>6
  <2>. HIDE DEF seq, new
  <2>. QED  BY <2>1, <2>2, <2>3, <1>3
<1>. QED  BY <1>8, <1>9

-----------------------------------------------------------------------------
(* The calibration.                                                        *)

\* What a quotient is.
LEMMA Quotient ==
  ASSUME NEW K \in Nat \ {0}, NEW a \in Int, NEW q \in Int,
         K * q <= a, a < K * (q + 1)
  PROVE  a \div K = q
OBVIOUS

LEMMA QuotientBounds ==
  ASSUME NEW K \in Nat \ {0}, NEW a \in Int
  PROVE  /\ a \div K \in Int
         /\ K * (a \div K) <= a
         /\ a < K * ((a \div K) + 1)
OBVIOUS

\* A dividend below a multiple of the divisor has a quotient below the factor.
LEMMA QuotientBelow ==
  ASSUME NEW K \in Nat \ {0}, NEW a \in Int, NEW c \in Int, a < K * (c + 1)
  PROVE  a \div K <= c
<1>. DEFINE q == a \div K
<1>1. q \in Int /\ K * q <= a
  BY QuotientBounds
<1>. HIDE DEF q
<1>2. ASSUME q >= c + 1 PROVE FALSE
  <2>1. K * q >= K * (c + 1)
    BY <1>1, <1>2
  <2>. QED  BY <2>1, <1>1
<1>3. q <= c
  BY <1>1, <1>2
<1>. QED  BY <1>3 DEF q

LEMMA QuotientAbove ==
  ASSUME NEW K \in Nat \ {0}, NEW a \in Int, NEW c \in Int, K * c <= a
  PROVE  a \div K >= c
<1>. DEFINE q == a \div K
<1>1. q \in Int /\ a < K * (q + 1)
  BY QuotientBounds
<1>. HIDE DEF q
<1>2. ASSUME q + 1 <= c PROVE FALSE
  <2>1. K * (q + 1) <= K * c
    BY <1>1, <1>2
  <2>. QED  BY <2>1, <1>1
<1>3. q >= c
  BY <1>1, <1>2
<1>. QED  BY <1>3 DEF q

LEMMA Times ==
  ASSUME NEW K \in Nat, K >= 4, NEW e \in Nat
  PROVE  4 * e <= K * e
OBVIOUS

LEMMA Numbers == Second \in Nat /\ Second > 0 /\ FirstLoops \in Nat
BY SMT DEF Second, FirstLoops

\* The correction by four times the error contracts, if a microsecond is at
\* least four loops, and does not overshoot.
LEMMA Contracts ==
  ASSUME speed \in Nat, speed >= 4, NEW r \in Int
  PROVE  Corrected(r) \in Int /\ Distance(Corrected(r)) <= Distance(r)
<1>. DEFINE m == Measured(r)
            e == Second - m
            s == Corrected(r)
<1>0. speed \in Nat \ {0} /\ Second \in Nat /\ Second > 0
  BY Numbers
<1>1. m \in Int /\ e \in Int /\ s = r + 4 * e /\ s \in Int
  <2>1. r \div speed \in Int
    BY <1>0, QuotientBounds
  <2>. QED  BY <2>1, <1>0 DEF Measured, Corrected, Error
<1>2. CASE r <= 0
  <2>1. m = 0 /\ e = Second
    BY <1>2, <1>0 DEF Measured
  <2>2. CASE s <= 0
    BY <2>1, <2>2, <1>0, <1>1 DEF Distance, Error, Measured
  <2>3. CASE s > 0
    <3>1. s < speed * (Second + 1)
      <4>1. 4 * Second <= speed * Second
        BY <1>0, Times
      <4>. QED  BY <4>1, <1>0, <1>1, <1>2, <2>1
    <3>2. s \div speed <= Second
      BY <3>1, <1>0, <1>1, QuotientBelow
    <3>3. s \div speed >= 0
      BY <2>3, <1>0, <1>1, QuotientAbove
    <3>4. s \div speed \in Int
      BY <1>0, <1>1, QuotientBounds
    <3>5. Measured(s) = s \div speed
      BY <2>3 DEF Measured
    <3>6. Distance(s) <= Second
      <4>. HIDE DEF s
      <4>. QED  BY <3>2, <3>3, <3>4, <3>5, <1>0 DEF Distance, Error
    <3>7. Distance(r) = Second
      BY <2>1, <1>0, <1>2 DEF Distance, Error, Measured
    <3>. QED  BY <3>6, <3>7, <1>1
  <2>. QED  BY <2>2, <2>3, <1>1
<1>3. CASE r > 0
  <2>1. m = r \div speed /\ speed * m <= r /\ r < speed * (m + 1)
    BY <1>3, <1>0, QuotientBounds DEF Measured
  <2>. HIDE DEF m, s
  <2>2. CASE e >= 0
    <3>1. 4 * e <= speed * e /\ speed * (m + 1) + speed * e = speed * (m + e + 1)
      BY <2>2, <1>1, Times
    <3>2. s < speed * (m + e + 1)
      BY <3>1, <2>1, <1>1
    <3>3. speed * m <= s /\ s > 0
      BY <2>1, <2>2, <1>1, <1>3
    <3>4. s \div speed \in Int /\ s \div speed <= m + e /\ s \div speed >= m
      BY <3>2, <3>3, <1>0, <1>1, QuotientBelow, QuotientAbove, QuotientBounds
    <3>5. Measured(s) = s \div speed
      BY <3>3 DEF Measured
    <3>. QED  BY <3>4, <3>5, <2>2, <1>0, <1>1 DEF Distance, Error, m, s
  <2>3. CASE e < 0
    <3>. DEFINE f == -e
    <3>1. f \in Nat /\ s = r - 4 * f /\ m - f = Second
      BY <2>3, <1>0, <1>1
    <3>. HIDE DEF f, e
    <3>2. 4 * f <= speed * f /\ speed * m - speed * f = speed * (m - f)
      BY <3>1, <1>1, Times
    <3>3. speed * Second <= s /\ s > 0
      BY <3>1, <3>2, <2>1, <1>0, <1>1
    <3>4. s < speed * (m + 1)
      BY <3>1, <2>1, <1>1
    <3>5. s \div speed \in Int /\ s \div speed <= m /\ s \div speed >= Second
      BY <3>3, <3>4, <1>0, <1>1, QuotientBelow, QuotientAbove, QuotientBounds
    <3>6. Measured(s) = s \div speed
      BY <3>3 DEF Measured
    <3>. QED  BY <3>5, <3>6, <2>3, <1>0, <1>1 DEF Distance, Error, m, s
  <2>. QED  BY <2>2, <2>3, <1>1
<1>. QED  BY <1>1, <1>2, <1>3

-----------------------------------------------------------------------------
(* One cncctl at a time.                                                   *)

\* Who runs has /dev/cnc open.
Exclusive == \A p \in Ctls : pc[p] # "idle" => opener = p

ZeroUntilDone == \A p \in Ctls : pc[p] \in {"calibrate", "loop"} => hz = 0

EmptyExplained == file = Empty => torn \/ \E p \in Ctls : pc[p] = "write"

TimingsInv == TimingsTypeOK /\ Exclusive /\ ZeroUntilDone /\ EmptyExplained

TimingsStep == Userland \/ KernelUp \/ TimingsReset \/ UNCHANGED timingsVars

LEMMA CorrectedInt ==
  ASSUME TimingsTypeOK
  PROVE  Corrected(loops) \in Int
<1>1. loops \in Int /\ speed \in Nat \ {0}
  BY TimingsAssumption DEF TimingsTypeOK
<1>2. loops \div speed \in Int
  BY <1>1, QuotientBounds
<1>. QED  BY <1>1, <1>2, Numbers DEF Corrected, Error, Measured

LEMMA HoldingFile == ASSUME NEW n \in Int PROVE Holding(n) \in Files /\ Holding(n) # Empty
<1>1. <<n>> \in Seq(Int) /\ Len(<<n>>) = 1 /\ Len(<<>>) = 0
  OBVIOUS
<1>2. <<n>> # <<>>
  BY <1>1
<1>3. Holding(n).line = <<n>> /\ Empty.line = <<>>
  BY DEF Holding, Empty
<1>. QED  BY <1>1, <1>2, <1>3 DEF Holding, Files

LEMMA LineTyped == ASSUME NEW f \in Files, f.line # <<>> PROVE f.line[1] \in Int
<1>1. f.line \in Seq(Int)
  BY DEF Files
<1>. QED  BY <1>1

LEMMA TimingsStarts == ASSUME TimingsInit PROVE TimingsInv
<1>1. Absent \in Files /\ Absent # Empty
  BY DEF Absent, Empty, Files
<1>2. 0 \in 0 .. MaxCrashes /\ 0 \in 0 .. MaxIters - 1
  BY TimingsAssumption DEF MaxIters
<1>3. TimingsTypeOK
  <2>1. loops \in Int /\ iters \in 0 .. MaxIters - 1 /\ hz \in Int /\ crashes \in 0 .. MaxCrashes
    BY <1>2 DEF TimingsInit
  <2>2. file \in Files /\ disk \subseteq Files
    BY <1>1 DEF TimingsInit
  <2>3. tHz \in [Ctls -> Int]
    BY DEF TimingsInit
  <2>. QED  BY <2>1, <2>2, <2>3 DEF TimingsInit, TimingsTypeOK
<1>4. Exclusive /\ ZeroUntilDone
  BY DEF TimingsInit, Exclusive, ZeroUntilDone
<1>5. EmptyExplained
  BY <1>1 DEF TimingsInit, EmptyExplained
<1>. QED  BY <1>3, <1>4, <1>5 DEF TimingsInv

\* What a step of p leaves alone.
LEMMA Others ==
  ASSUME TimingsInv, NEW p \in Ctls, NEW where, Go(p, where)
  PROVE  /\ pc'[p] = where
         /\ \A q \in Ctls : q # p => pc'[q] = pc[q]
         /\ pc[p] # "idle" => \A q \in Ctls : q # p => pc[q] = "idle"
         /\ opener = "nobody" => \A q \in Ctls : pc[q] = "idle"
<1>1. pc \in [Ctls -> {"idle", "read", "set", "calibrate", "loop", "open", "write", "final"}]
  BY DEF TimingsInv, TimingsTypeOK
<1>2. "nobody" \notin Ctls
  BY TimingsAssumption DEF Ctls
<1>. QED  BY <1>1, <1>2 DEF TimingsInv, Exclusive, Go

LEMMA TypeKept ==
  ASSUME TimingsTypeOK, TimingsStep
  PROVE  TimingsTypeOK'
<1>. DEFINE Places == {"idle", "read", "set", "calibrate", "loop", "open", "write", "final"}
<1>0. \A p, where : Go(p, where) /\ where \in Places => pc' \in [Ctls -> Places]
  BY DEF Go, TimingsTypeOK
<1>1. 0 \in Int /\ FirstLoops \in Int /\ 0 \in 0 .. MaxIters - 1
  BY Numbers DEF MaxIters
<1>2. Corrected(loops) \in Int
  BY CorrectedInt
<1>3. Absent \in Files /\ Empty \in Files
  BY DEF Absent, Empty, Files
<1>. HIDE DEF Places
<1>4. ASSUME NEW p \in Ctls, StartLoop(p) PROVE TimingsTypeOK'
  <2>. "loop" \in Places /\ "open" \in Places
    BY DEF Places
  <2>1. pc' \in [Ctls -> Places]
    BY <1>4, <1>0 DEF StartLoop
  <2>. QED  BY <2>1, <1>4, <1>1
            DEF StartLoop, TimingsTypeOK, machineVars, calVars, fileVars, Places
<1>5. ASSUME NEW p \in Ctls, Iterate(p) PROVE TimingsTypeOK'
  <2>. "open" \in Places
    BY DEF Places
  <2>1. ASSUME NEW r \in Int, Calibrated(p, r) PROVE TimingsTypeOK'
    <3>1. pc' \in [Ctls -> Places]
      BY <2>1, <1>0 DEF Calibrated
    <3>. QED  BY <3>1, <2>1, <1>1, <1>5
              DEF Iterate, Calibrated, TimingsTypeOK, machineVars, fileVars, Places
  <2>2. CASE iters + 1 # MaxIters /\ loops' = Corrected(loops) /\ iters' = iters + 1
             /\ UNCHANGED <<hz, tHz, pc>>
    <3>1. iters' \in 0 .. MaxIters - 1
      BY <2>2 DEF TimingsTypeOK, MaxIters
    <3>. QED  BY <3>1, <2>2, <1>2, <1>5 DEF Iterate, TimingsTypeOK, machineVars, fileVars
  <2>3. loops \in Int
    BY DEF TimingsTypeOK
  <2>. QED  BY <2>1, <2>2, <2>3, <1>2, <1>5 DEF Iterate
<1>6. ASSUME NEW p \in Ctls, ReadFile(p) PROVE TimingsTypeOK'
  <2>. "set" \in Places
    BY DEF Places
  <2>1. pc' \in [Ctls -> Places]
    BY <1>6, <1>0 DEF ReadFile
  <2>2. PICK n \in IF ~file.there THEN {0}
                    ELSE IF file.line = <<>> THEN Garbage \cup {0}
                    ELSE {file.line[1]} : tHz' = [tHz EXCEPT ![p] = n]
    BY <1>6 DEF ReadFile
  <2>3. n \in Int
    <3>1. file \in Files
      BY DEF TimingsTypeOK
    <3>2. file.line # <<>> => file.line[1] \in Int
      BY <3>1, LineTyped
    <3>. QED  BY <2>2, <3>2, TimingsAssumption
  <2>4. tHz' \in [Ctls -> Int]
    BY <2>2, <2>3 DEF TimingsTypeOK
  <2>. QED  BY <2>1, <2>4, <1>6 DEF ReadFile, TimingsTypeOK, machineVars, calVars, fileVars, Places
<1>7. ASSUME NEW p \in Ctls, SetFromFile(p) PROVE TimingsTypeOK'
  <2>. "calibrate" \in Places /\ "final" \in Places
    BY DEF Places
  <2>1. pc' \in [Ctls -> Places]
    BY <1>7, <1>0 DEF SetFromFile
  <2>. QED  BY <2>1, <1>7 DEF SetFromFile, TimingsTypeOK, machineVars, calVars, fileVars, Places
<1>8. ASSUME NEW p \in Ctls, OpenFile(p) PROVE TimingsTypeOK'
  <2>. "write" \in Places /\ "final" \in Places
    BY DEF Places
  <2>1. pc' \in [Ctls -> Places]
    BY <1>8, <1>0 DEF OpenFile
  <2>. QED  BY <2>1, <1>8, <1>3 DEF OpenFile, TimingsTypeOK, machineVars, calVars, Places
<1>9. ASSUME NEW p \in Ctls, WriteFile(p) PROVE TimingsTypeOK'
  <2>. "final" \in Places
    BY DEF Places
  <2>1. pc' \in [Ctls -> Places]
    BY <1>9, <1>0 DEF WriteFile
  <2>2. Holding(tHz[p]) \in Files
    BY HoldingFile DEF TimingsTypeOK
  <2>. QED  BY <2>1, <2>2, <1>9 DEF WriteFile, TimingsTypeOK, machineVars, calVars, Places
<1>10. ASSUME NEW p \in Ctls, Exits(p)
       PROVE  /\ pc' \in [Ctls -> Places] /\ tHz' \in [Ctls -> Int] /\ opener' = "nobody"
              /\ phase' \in {"off", "rc", "calibrating", "multi"}
  <2>. "idle" \in Places
    BY DEF Places
  <2>1. pc' \in [Ctls -> Places]
    BY <1>10, <1>0 DEF Exits
  <2>. QED  BY <2>1, <1>10 DEF Exits, TimingsTypeOK
<1>11. ASSUME NEW p \in Ctls, Finish(p) PROVE TimingsTypeOK'
  <2>1. Exits(p)
    BY <1>11 DEF Finish
  <2>. QED  BY <2>1, <1>11, <1>10 DEF Finish, TimingsTypeOK, calVars, fileVars, Places
<1>12. ASSUME NEW p \in Ctls, Kill(p) PROVE TimingsTypeOK'
  <2>1. Exits(p)
    BY <1>12 DEF Kill
  <2>. QED  BY <2>1, <1>12, <1>10 DEF Kill, TimingsTypeOK, calVars, Places
<1>13. ASSUME NEW p \in Ctls, Start(p) PROVE TimingsTypeOK'
  <2>. "read" \in Places
    BY DEF Places
  <2>1. pc' \in [Ctls -> Places]
    BY <1>13, <1>0 DEF Start
  <2>. QED  BY <2>1, <1>13 DEF Start, Opens, TimingsTypeOK, machineVars, calVars, fileVars, Places
<1>14. ASSUME Rc PROVE TimingsTypeOK'
  <2>. "read" \in Places /\ "rc" \in Ctls
    BY DEF Places, Ctls
  <2>1. pc' \in [Ctls -> Places]
    BY <1>14, <1>0 DEF Rc, TimingsTypeOK, Places
  <2>. QED  BY <2>1, <1>14 DEF Rc, Opens, TimingsTypeOK, calVars, fileVars, Places
<1>15. CASE OtherOpens \/ OtherCloses \/ KernelUp \/ UNCHANGED timingsVars
  BY <1>15 DEF OtherOpens, OtherCloses, KernelUp, TimingsTypeOK, timingsVars, machineVars, calVars,
               fileVars
<1>16. CASE Sync
  BY <1>16 DEF Sync, TimingsTypeOK, machineVars, calVars
<1>17. CASE TimingsReset
  <2>1. crashes' \in 0 .. MaxCrashes
    BY <1>17, TimingsAssumption DEF TimingsReset, TimingsTypeOK
  <2>2. file' \in Files /\ disk' \subseteq Files
    BY <1>17 DEF TimingsReset, TimingsTypeOK
  <2>. QED  BY <2>1, <2>2, <1>17, <1>1 DEF TimingsReset, TimingsTypeOK
<1>. QED
  BY <1>4, <1>5, <1>6, <1>7, <1>8, <1>9, <1>11, <1>12, <1>13, <1>14, <1>15, <1>16, <1>17
     DEF TimingsStep, Userland, Ctl

\* cncctl holds the device from its first system call to its last, sets hz
\* to 0 before it calibrates, and empties the file for as long as it writes.
LEMMA CtlKept ==
  ASSUME TimingsInv, NEW p \in Ctls, Ctl(p)
  PROVE  Exclusive' /\ ZeroUntilDone' /\ EmptyExplained'
<1>1. pc[p] # "idle" /\ opener = p
  BY DEF Ctl, StartLoop, Iterate, ReadFile, SetFromFile, OpenFile, WriteFile, Finish,
         TimingsInv, Exclusive
<1>2. \A q \in Ctls : q # p => pc[q] = "idle"
  BY <1>1 DEF TimingsInv, Exclusive
<1>. USE DEF TimingsInv
<1>3. CASE StartLoop(p)
  <2>1. PICK where \in {"loop", "open"} : Go(p, where)
    BY <1>3 DEF StartLoop
  <2>2. pc'[p] = where /\ \A q \in Ctls : q # p => pc'[q] = "idle"
    BY <2>1, <1>2, Others
  <2>3. hz = 0 /\ hz' = hz
    BY <1>3 DEF StartLoop, ZeroUntilDone
  <2>. QED  BY <2>2, <2>3, <1>1, <1>2, <1>3
            DEF StartLoop, Exclusive, ZeroUntilDone, EmptyExplained, fileVars
<1>4. CASE Iterate(p)
  <2>1. hz = 0 /\ opener' = p /\ UNCHANGED <<file, torn>>
    BY <1>4, <1>1 DEF Iterate, ZeroUntilDone, fileVars
  <2>2. CASE pc' = pc /\ hz' = hz
    BY <2>1, <2>2, <1>1 DEF Exclusive, ZeroUntilDone, EmptyExplained
  <2>3. CASE Go(p, "open")
    <3>1. pc'[p] = "open" /\ \A q \in Ctls : q # p => pc'[q] = "idle"
      BY <2>3, <1>2, Others
    <3>. QED  BY <3>1, <2>1, <1>2, <1>4 DEF Iterate, Exclusive, ZeroUntilDone, EmptyExplained
  <2>. QED  BY <2>2, <2>3, <1>4 DEF Iterate, Calibrated
<1>5. CASE ReadFile(p)
  <2>1. pc'[p] = "set" /\ \A q \in Ctls : q # p => pc'[q] = "idle"
    BY <1>5, <1>2, Others DEF ReadFile
  <2>. QED  BY <2>1, <1>1, <1>2, <1>5
            DEF ReadFile, Exclusive, ZeroUntilDone, EmptyExplained, fileVars
<1>6. CASE SetFromFile(p)
  <2>1. Go(p, IF tHz[p] = 0 THEN "calibrate" ELSE "final")
    BY <1>6 DEF SetFromFile
  <2>2. /\ pc'[p] = IF tHz[p] = 0 THEN "calibrate" ELSE "final"
        /\ \A q \in Ctls : q # p => pc'[q] = "idle"
    BY <2>1, <1>2, Others
  <2>. QED  BY <2>2, <1>1, <1>2, <1>6
            DEF SetFromFile, Exclusive, ZeroUntilDone, EmptyExplained, fileVars
<1>7. CASE OpenFile(p)
  <2>1. PICK where \in {"write", "final"} :
           Go(p, where) /\ (where = "final" => UNCHANGED <<file, torn>>)
    BY <1>7 DEF OpenFile
  <2>2. pc'[p] = where /\ \A q \in Ctls : q # p => pc'[q] = "idle"
    BY <2>1, <1>2, Others
  <2>. QED  BY <2>1, <2>2, <1>1, <1>2, <1>7 DEF OpenFile, Exclusive, ZeroUntilDone, EmptyExplained
<1>8. CASE WriteFile(p)
  <2>1. pc'[p] = "final" /\ \A q \in Ctls : q # p => pc'[q] = "idle"
    BY <1>8, <1>2, Others DEF WriteFile
  <2>2. file' # Empty
    BY <1>8, HoldingFile DEF WriteFile, TimingsTypeOK
  <2>. QED  BY <2>1, <2>2, <1>1, <1>8 DEF WriteFile, Exclusive, ZeroUntilDone, EmptyExplained
<1>9. CASE Finish(p)
  <2>1. pc'[p] = "idle" /\ \A q \in Ctls : q # p => pc'[q] = "idle"
    BY <1>9, <1>2, Others DEF Finish, Exits
  <2>. QED  BY <2>1, <1>1, <1>2, <1>9
            DEF Finish, Exclusive, ZeroUntilDone, EmptyExplained, fileVars
<1>. QED  BY <1>3, <1>4, <1>5, <1>6, <1>7, <1>8, <1>9 DEF Ctl

LEMMA TimingsKept == ASSUME TimingsInv, TimingsStep PROVE TimingsInv'
<1>1. TimingsTypeOK'
  BY TypeKept DEF TimingsInv
<1>. SUFFICES Exclusive' /\ ZeroUntilDone' /\ EmptyExplained'
  BY <1>1 DEF TimingsInv
<1>2. CASE \E p \in Ctls : Ctl(p)
  BY <1>2, CtlKept
<1>3. ASSUME NEW p \in Ctls, opener = "nobody", opener' = p, Go(p, "read"),
             UNCHANGED <<hz, file, torn>>
      PROVE  Exclusive' /\ ZeroUntilDone' /\ EmptyExplained'
  <2>1. pc'[p] = "read" /\ \A q \in Ctls : q # p => pc'[q] = "idle"
    BY <1>3, Others
  <2>2. \A q \in Ctls : pc[q] = "idle"
    BY <1>3, Others
  <2>. QED  BY <2>1, <2>2, <1>3 DEF Exclusive, ZeroUntilDone, EmptyExplained, TimingsInv
<1>4. ASSUME NEW p \in Ctls, Start(p) PROVE Exclusive' /\ ZeroUntilDone' /\ EmptyExplained'
  BY <1>3, <1>4 DEF Start, Opens, fileVars
<1>5. ASSUME NEW p \in Ctls, Kill(p) PROVE Exclusive' /\ ZeroUntilDone' /\ EmptyExplained'
  <2>1. pc'[p] = "idle" /\ \A q \in Ctls : q # p => pc'[q] = "idle" /\ pc[q] = "idle"
    BY <1>5, Others DEF Kill, Exits
  <2>. QED  BY <2>1, <1>5 DEF Kill, Exclusive, ZeroUntilDone, EmptyExplained, TimingsInv
<1>6. CASE Rc
  <2>1. CASE file.there
    BY <2>1, <1>3, <1>6 DEF Rc, Opens, fileVars, Ctls
  <2>2. CASE ~file.there
    BY <2>2, <1>6 DEF Rc, Exclusive, ZeroUntilDone, EmptyExplained, TimingsInv, fileVars
  <2>. QED  BY <2>1, <2>2
<1>7. CASE OtherOpens \/ OtherCloses
  <2>1. \A p \in Ctls : opener # p
    BY <1>7, TimingsAssumption DEF OtherOpens, OtherCloses, Ctls
  <2>. QED  BY <2>1, <1>7 DEF OtherOpens, OtherCloses, Exclusive, ZeroUntilDone, EmptyExplained,
                            TimingsInv, fileVars
<1>8. CASE Sync \/ KernelUp \/ UNCHANGED timingsVars
  BY <1>8 DEF Sync, KernelUp, timingsVars, Exclusive, ZeroUntilDone, EmptyExplained, TimingsInv,
              fileVars
<1>9. CASE TimingsReset
  <2>1. \A p \in Ctls : pc'[p] = "idle"
    BY <1>9 DEF TimingsReset
  <2>. QED  BY <2>1, <1>9 DEF TimingsReset, Exclusive, ZeroUntilDone, EmptyExplained
<1>. QED  BY <1>2, <1>4, <1>5, <1>6, <1>7, <1>8, <1>9 DEF TimingsStep, Userland

-----------------------------------------------------------------------------
(* What the timings hold.                                                  *)

\* Loops no farther from a second than the first guess.
CloseLoops == {n \in Int : Distance(n) <= Distance(FirstLoops)}

Plausible == {0} \cup CloseLoops \cup (IF torn THEN Garbage ELSE {})

CloseFiles == {f \in Files : f.line = <<>> \/ f.line[1] \in CloseLoops}

\* Where hz comes from: the file and each cncctl hold plausible values, and
\* whoever is about to write has one that it calibrated.
HzInv ==
  /\ hz \in Plausible
  /\ \A p \in Ctls : tHz[p] \in Plausible /\ (pc[p] = "idle" => tHz[p] = 0)
  /\ \A p \in Ctls : pc[p] = "loop" => loops \in CloseLoops
  /\ \A p \in Ctls : pc[p] \in {"open", "write"} => hz \in CloseLoops /\ tHz[p] = hz
  /\ file \in CloseFiles /\ disk \subseteq CloseFiles

LEMMA SetsStay ==
  ASSUME speed' = speed
  PROVE  CloseLoops' = CloseLoops /\ CloseFiles' = CloseFiles
BY DEF CloseLoops, CloseFiles, Distance, Error, Measured

LEMMA PlausibleStays ==
  ASSUME speed' = speed, torn => torn'
  PROVE  Plausible \subseteq Plausible' /\ CloseLoops \subseteq Plausible' /\ 0 \in Plausible'
BY SetsStay DEF Plausible

LEMMA FirstClose ==
  ASSUME TimingsTypeOK
  PROVE  FirstLoops \in CloseLoops /\ Absent \in CloseFiles /\ Empty \in CloseFiles
<1>1. speed \in Nat \ {0} /\ FirstLoops \in Nat /\ Second \in Nat
  BY TimingsAssumption, Numbers DEF TimingsTypeOK
<1>2. FirstLoops \div speed \in Int
  BY <1>1, QuotientBounds
<1>3. Distance(FirstLoops) \in Int
  BY <1>1, <1>2 DEF Distance, Error, Measured
<1>. QED  BY <1>1, <1>3 DEF CloseLoops, CloseFiles, Absent, Empty, Files

\* A guess that is close is corrected to one that is.
LEMMA CloseCorrected ==
  ASSUME TimingsTypeOK, speed >= 4, loops \in CloseLoops
  PROVE  Corrected(loops) \in CloseLoops
<1>1. speed \in Nat \ {0} /\ FirstLoops \in Nat /\ Second \in Nat /\ loops \in Int
  BY TimingsAssumption, Numbers DEF TimingsTypeOK
<1>2. Corrected(loops) \in Int /\ Distance(Corrected(loops)) <= Distance(loops)
  BY <1>1, Contracts
<1>3. \A n \in Int : Distance(n) \in Int
  <2>. TAKE n \in Int
  <2>1. n \div speed \in Int
    BY <1>1, QuotientBounds
  <2>. QED  BY <1>1, <2>1 DEF Distance, Error, Measured
<1>4. Distance(loops) <= Distance(FirstLoops)
  BY DEF CloseLoops
<1>5. Distance(Corrected(loops)) <= Distance(FirstLoops)
  BY <1>1, <1>2, <1>3, <1>4
<1>. QED  BY <1>2, <1>5 DEF CloseLoops

LEMMA HoldingClose == ASSUME NEW n \in CloseLoops PROVE Holding(n) \in CloseFiles
<1>1. n \in Int
  BY DEF CloseLoops
<1>2. Holding(n) \in Files /\ Holding(n).line[1] = n
  BY <1>1, HoldingFile DEF Holding
<1>. QED  BY <1>2 DEF CloseFiles

LEMMA HzStarts == ASSUME TimingsInit, TimingsTypeOK PROVE HzInv
BY FirstClose DEF TimingsInit, HzInv, Plausible

\* What is to be shown of a step of p, when nobody else runs.
LEMMA HzFromOne ==
  ASSUME NEW p \in Ctls, NEW n, NEW where,
         \A q \in Ctls : q # p => pc'[q] = "idle" /\ tHz'[q] = 0,
         pc'[p] = where, tHz'[p] = n, 0 \in Plausible',
         hz' \in Plausible', n \in Plausible',
         where = "idle" => n = 0,
         where = "loop" => loops' \in CloseLoops',
         where \in {"open", "write"} => hz' \in CloseLoops' /\ n = hz',
         file' \in CloseFiles', disk' \subseteq CloseFiles'
  PROVE  HzInv'
<1>. HIDE DEF CloseLoops, CloseFiles, Plausible
<1>1. ASSUME NEW q \in Ctls
      PROVE  /\ tHz'[q] \in Plausible' /\ (pc'[q] = "idle" => tHz'[q] = 0)
             /\ pc'[q] = "loop" => loops' \in CloseLoops'
             /\ pc'[q] \in {"open", "write"} => hz' \in CloseLoops' /\ tHz'[q] = hz'
  BY <1>1
<1>. QED  BY <1>1 DEF HzInv

LEMMA HzCtl ==
  ASSUME TimingsInv, HzInv, speed >= 4, NEW p \in Ctls, Ctl(p)
  PROVE  HzInv'
<1>1. pc[p] # "idle" /\ \A q \in Ctls : q # p => pc[q] = "idle"
  BY DEF Ctl, StartLoop, Iterate, ReadFile, SetFromFile, OpenFile, WriteFile, Finish,
         TimingsInv, Exclusive
<1>2. speed' = speed
  BY DEF Ctl, StartLoop, Iterate, ReadFile, SetFromFile, OpenFile, WriteFile, Finish, Exits,
         machineVars
<1>3. CloseLoops' = CloseLoops /\ CloseFiles' = CloseFiles
  BY <1>2, SetsStay
<1>4. (torn => torn') => Plausible \subseteq Plausible'
  BY <1>2, PlausibleStays
<1>5. CloseLoops \subseteq Plausible' /\ 0 \in Plausible' /\ 0 \in Plausible
  BY <1>3 DEF Plausible
<1>6. TimingsTypeOK /\ tHz \in [Ctls -> Int] /\ \A q \in Ctls : q # p => tHz[q] = 0
  BY <1>1 DEF TimingsInv, TimingsTypeOK, HzInv
<1>7. hz \in Plausible /\ tHz[p] \in Plausible /\ file \in CloseFiles /\ disk \subseteq CloseFiles
  BY DEF HzInv
<1>8. /\ pc[p] = "loop" => loops \in CloseLoops
      /\ pc[p] \in {"open", "write"} => hz \in CloseLoops /\ tHz[p] = hz
  BY DEF HzInv
<1>9. \A where : Go(p, where) => pc'[p] = where /\ \A q \in Ctls : q # p => pc'[q] = "idle"
  BY <1>1, Others
<1>10. \A n : tHz' = [tHz EXCEPT ![p] = n] =>
                tHz'[p] = n /\ \A q \in Ctls : q # p => tHz'[q] = 0
  BY <1>6
<1>. HIDE DEF CloseLoops, CloseFiles, Plausible
<1>11. CASE StartLoop(p)
  <2>1. hz = 0 /\ torn' = torn /\ file' = file /\ disk' = disk /\ hz' = hz
    BY <1>11 DEF StartLoop, TimingsInv, ZeroUntilDone, fileVars
  <2>2. loops' = FirstLoops /\ Go(p, "loop") /\ tHz' = tHz
    BY <2>1, <1>11 DEF StartLoop
  <2>3. pc'[p] = "loop" /\ tHz'[p] = tHz[p] /\ \A q \in Ctls : q # p => pc'[q] = "idle" /\ tHz'[q] = 0
    BY <2>2, <1>6, <1>9
  <2>4. FirstLoops \in CloseLoops
    BY <1>6, FirstClose
  <2>5. tHz[p] \in Plausible' /\ hz' \in Plausible'
    BY <2>1, <1>4, <1>5, <1>7
  <2>6. loops' \in CloseLoops' /\ file' \in CloseFiles' /\ disk' \subseteq CloseFiles'
    BY <2>1, <2>2, <2>4, <1>3, <1>7
  <2>. QED  BY <2>3, <2>5, <2>6, <1>5, HzFromOne
<1>12. CASE Iterate(p)
  <2>1. pc[p] = "loop" /\ torn' = torn /\ file' = file /\ disk' = disk
    BY <1>12 DEF Iterate, fileVars
  <2>2. loops \in CloseLoops /\ Corrected(loops) \in CloseLoops
    BY <2>1, <1>6, <1>8, CloseCorrected
  <2>3. file' \in CloseFiles' /\ disk' \subseteq CloseFiles'
    BY <2>1, <1>3, <1>7
  <2>4. ASSUME NEW r \in CloseLoops, Calibrated(p, r) PROVE HzInv'
    <3>1. hz' = r /\ tHz' = [tHz EXCEPT ![p] = r] /\ Go(p, "open")
      BY <2>4 DEF Calibrated
    <3>2. pc'[p] = "open" /\ tHz'[p] = r /\ \A q \in Ctls : q # p => pc'[q] = "idle" /\ tHz'[q] = 0
      BY <3>1, <1>9, <1>10
    <3>3. r \in Plausible' /\ r \in CloseLoops'
      BY <1>3, <1>5
    <3>. QED  BY <3>1, <3>2, <3>3, <2>3, <1>5, HzFromOne
  <2>5. CASE loops' = Corrected(loops) /\ UNCHANGED <<hz, tHz, pc>>
    <3>1. pc'[p] = "loop" /\ tHz'[p] = tHz[p] /\ \A q \in Ctls : q # p => pc'[q] = "idle" /\ tHz'[q] = 0
      BY <2>1, <2>5, <1>1, <1>6
    <3>2. hz' \in Plausible' /\ tHz[p] \in Plausible' /\ loops' \in CloseLoops'
      BY <2>1, <2>2, <2>5, <1>3, <1>4, <1>7
    <3>. QED  BY <3>1, <3>2, <2>3, <1>5, HzFromOne
  <2>. QED  BY <2>2, <2>4, <2>5, <1>12 DEF Iterate
<1>13. CASE ReadFile(p)
  <2>1. PICK n \in IF ~file.there THEN {0}
                    ELSE IF file.line = <<>> THEN Garbage \cup {0}
                    ELSE {file.line[1]} : tHz' = [tHz EXCEPT ![p] = n]
    BY <1>13 DEF ReadFile
  <2>2. n \in Plausible
    <3>1. CASE file.there /\ file.line = <<>>
      <4>1. file = Empty
        BY <3>1, <1>6 DEF TimingsTypeOK, Files, Empty
      <4>2. torn
        BY <4>1, <1>1, <1>13 DEF TimingsInv, EmptyExplained, ReadFile
      <4>. QED  BY <3>1, <4>2, <2>1 DEF Plausible
    <3>2. CASE file.there /\ file.line # <<>>
      <4>1. file.line[1] \in CloseLoops
        BY <3>2, <1>7 DEF CloseFiles
      <4>. QED  BY <4>1, <3>2, <2>1 DEF Plausible
    <3>3. CASE ~file.there
      BY <3>3, <2>1, <1>5
    <3>. QED  BY <3>1, <3>2, <3>3
  <2>3. Go(p, "set") /\ hz' = hz /\ torn' = torn /\ file' = file /\ disk' = disk
    BY <1>13 DEF ReadFile, fileVars
  <2>4. pc'[p] = "set" /\ tHz'[p] = n /\ \A q \in Ctls : q # p => pc'[q] = "idle" /\ tHz'[q] = 0
    BY <2>1, <2>3, <1>9, <1>10
  <2>5. hz' \in Plausible' /\ n \in Plausible'
    BY <2>2, <2>3, <1>4, <1>7
  <2>6. file' \in CloseFiles' /\ disk' \subseteq CloseFiles'
    BY <2>3, <1>3, <1>7
  <2>. QED  BY <2>4, <2>5, <2>6, <1>5, HzFromOne
<1>14. CASE SetFromFile(p)
  <2>1. PICK where \in {"calibrate", "final"} : Go(p, where)
    BY <1>14 DEF SetFromFile
  <2>2. hz' = tHz[p] /\ tHz' = tHz /\ torn' = torn /\ file' = file /\ disk' = disk
    BY <1>14 DEF SetFromFile, fileVars
  <2>3. pc'[p] = where /\ tHz'[p] = tHz[p] /\ \A q \in Ctls : q # p => pc'[q] = "idle" /\ tHz'[q] = 0
    BY <2>1, <2>2, <1>6, <1>9
  <2>4. hz' \in Plausible' /\ tHz[p] \in Plausible'
    BY <2>2, <1>4, <1>7
  <2>5. file' \in CloseFiles' /\ disk' \subseteq CloseFiles'
    BY <2>2, <1>3, <1>7
  <2>. QED  BY <2>1, <2>3, <2>4, <2>5, <1>5, HzFromOne
<1>15. CASE OpenFile(p)
  <2>1. PICK where \in {"write", "final"} : Go(p, where)
    BY <1>15 DEF OpenFile
  <2>2. pc[p] = "open" /\ hz' = hz /\ tHz' = tHz /\ torn' = torn
    BY <1>15 DEF OpenFile
  <2>3. pc'[p] = where /\ tHz'[p] = tHz[p] /\ \A q \in Ctls : q # p => pc'[q] = "idle" /\ tHz'[q] = 0
    BY <2>1, <2>2, <1>6, <1>9
  <2>4. hz \in CloseLoops /\ tHz[p] = hz /\ hz' \in CloseLoops'
    BY <2>2, <1>3, <1>8
  <2>5. file' \in CloseFiles' /\ disk' \subseteq CloseFiles'
    <3>1. Empty \in CloseFiles
      BY <1>6, FirstClose
    <3>. QED  BY <3>1, <1>3, <1>7, <1>15 DEF OpenFile
  <2>. QED  BY <2>1, <2>2, <2>3, <2>4, <2>5, <1>5, HzFromOne
<1>16. CASE WriteFile(p)
  <2>1. Go(p, "final") /\ pc[p] = "write" /\ hz' = hz /\ tHz' = tHz
    BY <1>16 DEF WriteFile
  <2>2. pc'[p] = "final" /\ tHz'[p] = tHz[p] /\ \A q \in Ctls : q # p => pc'[q] = "idle" /\ tHz'[q] = 0
    BY <2>1, <1>6, <1>9
  <2>3. hz' \in Plausible' /\ tHz[p] \in Plausible' /\ tHz[p] \in CloseLoops
    BY <2>1, <1>5, <1>8
  <2>4. file' \in CloseFiles' /\ disk' \subseteq CloseFiles'
    <3>1. Holding(tHz[p]) \in CloseFiles
      BY <2>3, HoldingClose
    <3>. QED  BY <3>1, <1>3, <1>7, <1>16 DEF WriteFile
  <2>. QED  BY <2>2, <2>3, <2>4, <1>5, HzFromOne
<1>17. CASE Finish(p)
  <2>1. /\ Go(p, "idle") /\ tHz' = [tHz EXCEPT ![p] = 0]
        /\ hz' = tHz[p] /\ torn' = torn /\ file' = file /\ disk' = disk
    BY <1>17 DEF Finish, Exits, fileVars
  <2>2. pc'[p] = "idle" /\ tHz'[p] = 0 /\ \A q \in Ctls : q # p => pc'[q] = "idle" /\ tHz'[q] = 0
    BY <2>1, <1>9, <1>10
  <2>3. hz' \in Plausible' /\ file' \in CloseFiles' /\ disk' \subseteq CloseFiles'
    BY <2>1, <1>3, <1>4, <1>7
  <2>. QED  BY <2>2, <2>3, <1>5, HzFromOne
<1>. QED  BY <1>11, <1>12, <1>13, <1>14, <1>15, <1>16, <1>17 DEF Ctl

LEMMA HzKept ==
  ASSUME TimingsInv, HzInv, speed >= 4, TimingsStep
  PROVE  HzInv'
<1>1. speed' = speed
  BY DEF TimingsStep, Userland, Start, Ctl, StartLoop, Iterate, ReadFile, SetFromFile, OpenFile,
         WriteFile, Finish, Kill, Rc, OtherOpens, OtherCloses, Sync, KernelUp, TimingsReset,
         timingsVars, machineVars
<1>2. CloseLoops' = CloseLoops /\ CloseFiles' = CloseFiles
  BY <1>1, SetsStay
<1>3. (torn => torn') => Plausible \subseteq Plausible'
  BY <1>1, PlausibleStays
<1>4. 0 \in Plausible' /\ tHz \in [Ctls -> Int]
  BY DEF Plausible, TimingsInv, TimingsTypeOK
<1>. HIDE DEF CloseLoops, CloseFiles, Plausible
<1>5. ASSUME NEW p \in Ctls, opener = "nobody", Go(p, "read"), UNCHANGED <<hz, tHz, loops, fileVars>>
      PROVE  HzInv'
  <2>1. pc'[p] = "read" /\ \A q \in Ctls : q # p => pc'[q] = "idle" /\ pc[q] = "idle"
    BY <1>5, Others
  <2>2. hz \in Plausible' /\ tHz[p] \in Plausible' /\ \A q \in Ctls : q # p => tHz[q] = 0
    BY <1>3, <1>5, <2>1 DEF HzInv, fileVars
  <2>3. file' \in CloseFiles' /\ disk' \subseteq CloseFiles'
    BY <1>2, <1>5 DEF HzInv, fileVars
  <2>. QED  BY <2>1, <2>2, <2>3, <1>4, <1>5, HzFromOne
<1>6. ASSUME NEW p \in Ctls, Kill(p) PROVE HzInv'
  <2>1. pc[p] # "idle" /\ Go(p, "idle") /\ tHz' = [tHz EXCEPT ![p] = 0]
    BY <1>6 DEF Kill, Exits
  <2>2. hz' = hz /\ (torn => torn') /\ file' = file /\ disk' = disk
    BY <1>6 DEF Kill
  <2>3. pc'[p] = "idle" /\ \A q \in Ctls : q # p => pc'[q] = "idle" /\ pc[q] = "idle"
    BY <2>1, Others
  <2>4. tHz'[p] = 0 /\ \A q \in Ctls : q # p => tHz'[q] = 0
    BY <2>1, <2>3, <1>4 DEF HzInv
  <2>5. hz' \in Plausible' /\ file' \in CloseFiles' /\ disk' \subseteq CloseFiles'
    BY <2>2, <1>2, <1>3 DEF HzInv
  <2>. QED  BY <2>3, <2>4, <2>5, <1>4, HzFromOne
\* What no cncctl does.
<1>7. ASSUME UNCHANGED <<hz, tHz, pc, loops, torn>>, file' \in CloseFiles, disk' \subseteq CloseFiles
      PROVE  HzInv'
  BY <1>2, <1>3, <1>7 DEF HzInv
<1>8. CASE Rc
  <2>1. CASE file.there
    BY <2>1, <1>5, <1>8 DEF Rc, Opens, calVars, Ctls
  <2>2. CASE ~file.there
    BY <2>2, <1>7, <1>8 DEF Rc, calVars, fileVars, HzInv
  <2>. QED  BY <2>1, <2>2
<1>9. ASSUME NEW p \in Ctls, Start(p) PROVE HzInv'
  BY <1>5, <1>9 DEF Start, Opens, calVars
<1>10. CASE OtherOpens \/ OtherCloses \/ KernelUp \/ UNCHANGED timingsVars
  BY <1>7, <1>10 DEF OtherOpens, OtherCloses, KernelUp, timingsVars, calVars, fileVars, HzInv
<1>11. CASE Sync
  BY <1>7, <1>11 DEF Sync, calVars, HzInv
<1>12. CASE TimingsReset
  <2>1. hz' = 0 /\ \A q \in Ctls : pc'[q] = "idle" /\ tHz'[q] = 0
    BY <1>12 DEF TimingsReset
  <2>2. file' \in CloseFiles' /\ disk' \subseteq CloseFiles'
    BY <1>2, <1>12 DEF TimingsReset, HzInv
  <2>. QED  BY <2>1, <2>2, <1>4 DEF HzInv
<1>. QED  BY <1>6, <1>8, <1>9, <1>10, <1>11, <1>12, HzCtl DEF TimingsStep, Userland

LEMMA HzMeans == ASSUME HzInv PROVE HzCalibrated
BY DEF HzInv, Plausible, CloseLoops, HzCalibrated

-----------------------------------------------------------------------------
(* The machine.                                                            *)

IInv == RegistryInv /\ TimingsInv /\ (speed >= 4 => HzInv)

LEMMA Starts == BootInit => IInv
BY RegistryStarts, TimingsStarts, HzStarts DEF BootInit, IInv, TimingsInv

LEMMA Kept == IInv /\ [BootNext]_bootVars => IInv'
<1>. SUFFICES ASSUME IInv, [BootNext]_bootVars PROVE IInv'
  OBVIOUS
<1>1. TimingsStep /\ (Attach \/ RegistryReset \/ UNCHANGED registryVars)
  BY DEF BootNext, AttachDevice, Up, Runs, Crash, TimingsStep, bootVars
<1>2. TimingsInv'
  BY <1>1, TimingsKept DEF IInv
<1>3. speed' >= 4 => HzInv'
  <2>1. speed' = speed
    BY <1>1 DEF TimingsStep, Userland, Start, Ctl, StartLoop, Iterate, ReadFile, SetFromFile,
                OpenFile, WriteFile, Finish, Kill, Rc, OtherOpens, OtherCloses, Sync, KernelUp,
                TimingsReset, timingsVars, machineVars
  <2>. QED  BY <2>1, <1>1, HzKept DEF IInv
<1>4. RegistryInv'
  <2>1. CASE Attach
    BY <2>1, AttachType, AttachPins, AttachNumbers DEF IInv, RegistryInv
  <2>2. CASE RegistryReset
    BY <2>2, RegistryRestarts DEF IInv
  <2>3. CASE UNCHANGED registryVars
    BY <2>3, RegistryStays DEF IInv
  <2>. QED  BY <2>1, <2>2, <2>3, <1>1
<1>. QED  BY <1>2, <1>3, <1>4 DEF IInv

LEMMA Inductive == BootSpec => []IInv
<1>1. QED
  BY Starts, Kept, PTL DEF BootSpec

\* Every variable of the registry and of cncctl has its type.
THEOREM BootTyping == BootSpec => []BootTypeOK
<1>1. IInv => BootTypeOK
  BY DEF IInv, RegistryInv, TimingsInv, BootTypeOK
<1>2. QED
  BY <1>1, Inductive, PTL

\* The pins of a device that attached are mapped, and no other's.
THEOREM PinsTheirOwn == BootSpec => []PinsHeld
<1>1. IInv => PinsHeld
  BY DEF IInv, RegistryInv
<1>2. QED
  BY <1>1, Inductive, PTL

\* A mapped pin is one that a device has, or that one left behind.
THEOREM PinsKept == BootSpec => []PinsAccounted
<1>1. IInv => PinsAccounted
  BY DEF IInv, RegistryInv
<1>2. QED
  BY <1>1, Inductive, PTL

\* The axis of a servo follows from the configuration.
THEOREM NumbersFollow == BootSpec => []AxisNumbers
<1>1. IInv => AxisNumbers
  BY DEF IInv, RegistryInv
<1>2. QED
  BY <1>1, Inductive, PTL

\* Nobody sets the timings while a calibration is under way.
THEOREM CalibrationAlone == BootSpec => []CalibratesAlone
<1>1. IInv => CalibratesAlone
  BY DEF IInv, TimingsInv, Exclusive, ZeroUntilDone, CalibratesAlone
<1>2. QED
  BY <1>1, Inductive, PTL

\* No cncctl reads the file that another has emptied and not yet written.
THEOREM ReadsWhole == BootSpec => []ReadWhole
<1>1. IInv => ReadWhole
  <2>. SUFFICES ASSUME IInv, NEW p \in Ctls, pc[p] = "read", file = Empty PROVE torn
    BY DEF ReadWhole
  <2>1. \A q \in Ctls : pc[q] # "idle" => q = p
    BY DEF IInv, TimingsInv, Exclusive
  <2>. QED  BY <2>1 DEF IInv, TimingsInv, EmptyExplained
<1>2. QED
  BY <1>1, Inductive, PTL

\* On any machine with at least four loops in a microsecond, hz is 0, or as
\* good as the first guess, or was misread of a torn file.
THEOREM HzTrue == BootSpec => []HzCalibrated
<1>1. IInv => HzCalibrated
  BY HzMeans DEF IInv, HzCalibrated
<1>2. QED
  BY <1>1, Inductive, PTL

\* On any such machine the error of the calibration never grows.
THEOREM ErrorContracts == BootSpec => ErrorNeverGrows
<1>1. IInv /\ [BootNext]_bootVars
        => [speed >= 4 /\ (\E p \in Ctls : pc[p] = "loop" /\ pc'[p] = "loop")
              => Distance(loops') <= Distance(loops)]_timingsVars
  <2>. SUFFICES ASSUME IInv, BootNext, speed >= 4,
                       NEW p \in Ctls, pc[p] = "loop", pc'[p] = "loop", timingsVars' # timingsVars
                PROVE  Distance(loops') <= Distance(loops)
    BY DEF bootVars
  <2>. USE DEF IInv
  <2>1. speed \in Nat \ {0} /\ loops \in Int /\ loops \div speed \in Int /\ Second \in Nat
    <3>1. speed \in Nat \ {0} /\ loops \in Int
      BY TimingsAssumption DEF TimingsInv, TimingsTypeOK
    <3>. QED  BY <3>1, QuotientBounds, Numbers
  <2>2. Distance(loops) <= Distance(loops)
    BY <2>1 DEF Distance, Error, Measured
  <2>3. Distance(Corrected(loops)) <= Distance(loops)
    BY <2>1, Contracts
  <2>4. \A q \in Ctls : q # p => pc[q] = "idle"
    BY DEF TimingsInv, Exclusive
  <2>5. loops' = loops \/ loops' = Corrected(loops)
    <3>1. CASE \E q \in Ctls : Ctl(q)
      <4>1. PICK q \in Ctls : Ctl(q)
        BY <3>1
      <4>2. q = p
        BY <4>1, <2>4 DEF Ctl, StartLoop, Iterate, ReadFile, SetFromFile, OpenFile, WriteFile, Finish
      <4>3. Iterate(p)
        BY <4>1, <4>2 DEF Ctl, StartLoop, Iterate, ReadFile, SetFromFile, OpenFile, WriteFile, Finish
      <4>4. ASSUME NEW r, Calibrated(p, r) PROVE FALSE
        <5>1. pc'[p] = "open"
          BY <4>4, Others DEF Calibrated
        <5>. QED  BY <5>1
      <4>. QED  BY <4>3, <4>4 DEF Iterate
    <3>2. CASE TimingsReset
      BY <3>2 DEF TimingsReset
    <3>3. CASE (\E q \in Ctls : Start(q) \/ Kill(q)) \/ Rc \/ OtherOpens \/ OtherCloses \/ Sync
               \/ KernelUp
      BY <3>3 DEF Start, Kill, Rc, OtherOpens, OtherCloses, Sync, KernelUp, calVars
    <3>. QED  BY <3>1, <3>2, <3>3 DEF BootNext, AttachDevice, Up, Runs, Crash, Userland
  <2>. QED  BY <2>2, <2>3, <2>5
<1>2. QED
  BY <1>1, Inductive, PTL DEF BootSpec, ErrorNeverGrows
-----------------------------------------------------------------------------
(* A hundred iterations are enough.                                        *)

\* By how much the loop is too long.
Excess(r) == (r \div speed) - Second

\* The truncation stalls the correction at an excess of six at most; it is
\* what exceeds six that contracts.
Surplus(d) == IF d <= 6 THEN 0 ELSE d - 6

\* What the surplus is halved to by every four iterations, rounded up, from
\* the greatest it can begin with.
Halvings ==
  <<94000000, 47000000, 23500000, 11750000, 5875000, 2937500, 1468750, 734375, 367188, 183594,
    91797, 45899, 22950, 11475, 5738, 2869, 1435, 718, 359, 180, 90, 45, 23, 12, 6>>

\* Each iteration leaves at most 21/25 of the surplus: four of them less than half.
Contracted(e, k, j) ==
  \/ j = 0 /\ e <= Halvings[k]
  \/ j = 1 /\ 25 * e <= 21 * Halvings[k]
  \/ j = 2 /\ 625 * e <= 441 * Halvings[k]
  \/ j = 3 /\ 15625 * e <= 9261 * Halvings[k]

\* Where the calibration is after n iterations that ended with r.
OnTheWay(r, n) ==
  /\ r > 0 /\ Excess(r) >= 0
  /\ \E k \in 1 .. 25, j \in 0 .. 3 : n = 4 * (k - 1) + j /\ Contracted(Surplus(Excess(r)), k, j)

WayInv == \A p \in Ctls : pc[p] = "loop" => OnTheWay(loops, iters)

\* Where the calibration ends.
SettledInv == \A p \in Ctls : pc[p] \in {"open", "write"} => Distance(tHz[p]) < Tolerance

LEMMA HalvingsHalve ==
  /\ \A k \in 1 .. 25 : Halvings[k] \in Nat
  /\ \A k \in 1 .. 24 : Halvings[k] <= 2 * Halvings[k + 1]
  /\ Halvings[1] = 94000000 /\ Halvings[25] = 6
<1>1. ASSUME NEW k \in 1 .. 25 PROVE Halvings[k] \in Nat
  BY SMT DEF Halvings
<1>2. ASSUME NEW k \in 1 .. 24 PROVE Halvings[k] <= 2 * Halvings[k + 1]
  BY SMT DEF Halvings
<1>3. Halvings[1] = 94000000 /\ Halvings[25] = 6
  BY SMT DEF Halvings
<1>. QED  BY <1>1, <1>2, <1>3

\* What one correction makes of an excess.
LEMMA Shrinks ==
  ASSUME speed \in 4 .. 25, NEW r \in Int, r > 0, Excess(r) >= 0
  PROVE  /\ Corrected(r) \in Int /\ Corrected(r) > 0
         /\ Excess(r) \in Int /\ Excess(Corrected(r)) \in Int /\ Excess(Corrected(r)) >= 0
         /\ 25 * Surplus(Excess(Corrected(r))) <= 21 * Surplus(Excess(r))
<1>. DEFINE m == r \div speed
            d == m - Second
            s == r - 4 * d
            n == s \div speed
<1>0. speed \in Nat \ {0} /\ speed \in Int /\ Second \in Nat /\ Second > 0
  BY Numbers
<1>1. m \in Int /\ speed * m <= r /\ r < speed * (m + 1)
  BY <1>0, QuotientBounds
<1>. HIDE DEF m
<1>2. d \in Nat /\ s \in Int /\ m = Second + d /\ Excess(r) = d
  BY <1>0, <1>1 DEF Excess, m
<1>3. Corrected(r) = s
  BY <1>0, <1>1, <1>2 DEF Corrected, Error, Measured, m
<1>. HIDE DEF d
<1>4. n \in Int /\ speed * n <= s
  BY <1>0, <1>2, QuotientBounds
<1>5. speed * Second <= s
  <2>1. 4 * d <= speed * d
    BY <1>0, <1>2, Times
  <2>2. speed * m = speed * Second + speed * d
    BY <1>0, <1>2
  <2>. QED  BY <2>1, <2>2, <1>0, <1>1, <1>2
<1>6. s > 0
  <2>1. speed * Second >= 1
    BY <1>0
  <2>. QED  BY <2>1, <1>0, <1>2, <1>5
<1>7. n >= Second
  BY <1>0, <1>2, <1>5, QuotientAbove
<1>8. speed * (n - Second) <= speed * d + speed - 1 - 4 * d
  <2>1. r <= speed * m + speed - 1
    <3>1. speed * (m + 1) = speed * m + speed
      BY <1>0, <1>1
    <3>2. speed * m \in Int
      BY <1>0, <1>1
    <3>. QED  BY <3>1, <3>2, <1>0, <1>1
  <2>2. speed * m = speed * Second + speed * d
    BY <1>0, <1>2
  <2>3. speed * (n - Second) = speed * n - speed * Second
    BY <1>0, <1>4
  <2>4. speed * m \in Int /\ speed * Second \in Int /\ speed * d \in Int /\ speed * n \in Int
    BY <1>0, <1>1, <1>2, <1>4
  <2>5. speed * n <= r - 4 * d
    BY <1>4 DEF s
  <2>. QED  BY <2>1, <2>2, <2>3, <2>4, <2>5, <1>0, <1>2
<1>. HIDE DEF n, s
<1>. DEFINE e == n - Second
<1>9. e \in Nat /\ Excess(Corrected(r)) = e
  BY <1>0, <1>3, <1>4, <1>7 DEF Excess, n
<1>10. speed * (e - 6) <= (speed - 4) * (d - 6)
  <2>1. speed * (e - 6) = speed * e - 6 * speed
        /\ (speed - 4) * (d - 6) = speed * d - 6 * speed - 4 * d + 24
    BY <1>0, <1>2, <1>9
  <2>2. speed * e \in Int /\ speed * d \in Int
    BY <1>0, <1>2, <1>9
  <2>. QED  BY <2>1, <2>2, <1>0, <1>2, <1>8
<1>. HIDE DEF e
<1>11. 25 * Surplus(e) <= 21 * Surplus(d)
  <2>1. CASE e <= 6
    BY <2>1, <1>2 DEF Surplus
  <2>2. CASE e > 6
    <3>1. speed * (e - 6) >= 1
      BY <2>2, <1>0, <1>9
    <3>2. d > 6
      <4>1. ASSUME d <= 6 PROVE (speed - 4) * (d - 6) <= 0
        <5>1. (speed - 4) * (6 - d) >= 0
          BY <4>1, <1>0, <1>2
        <5>2. (speed - 4) * (d - 6) = -((speed - 4) * (6 - d))
          BY <1>0, <1>2
        <5>3. (speed - 4) * (6 - d) \in Int
          BY <1>0, <1>2
        <5>. QED  BY <5>1, <5>2, <5>3
      <4>2. speed * (e - 6) \in Int /\ (speed - 4) * (d - 6) \in Int
        BY <1>0, <1>2, <1>9
      <4>. QED  BY <4>1, <4>2, <3>1, <1>2, <1>10
    <3>. DEFINE a == e - 6
                b == d - 6
    <3>3. a \in Nat /\ b \in Nat /\ speed * a <= (speed - 4) * b
      BY <2>2, <3>2, <1>2, <1>9, <1>10
    <3>. HIDE DEF a, b
    <3>4. 25 * ((speed - 4) * b) <= 21 * (speed * b)
      <4>1. 21 * (speed * b) - 25 * ((speed - 4) * b) = 4 * ((25 - speed) * b)
        BY <1>0, <3>3
      <4>2. (25 - speed) * b \in Nat
        BY <1>0, <3>3
      <4>3. speed * b \in Int /\ (speed - 4) * b \in Int
        BY <1>0, <3>3
      <4>. QED  BY <4>1, <4>2, <4>3
    <3>5. speed * (25 * a) <= speed * (21 * b)
      <4>1. speed * (25 * a) = 25 * (speed * a) /\ speed * (21 * b) = 21 * (speed * b)
        BY <1>0, <3>3
      <4>2. speed * a \in Int /\ speed * b \in Int /\ (speed - 4) * b \in Int
        BY <1>0, <3>3
      <4>. QED  BY <4>1, <4>2, <3>3, <3>4
    <3>6. 25 * a <= 21 * b
      <4>1. ASSUME 25 * a >= 21 * b + 1 PROVE FALSE
        <5>1. speed * (25 * a) >= speed * (21 * b + 1)
          BY <4>1, <1>0, <3>3
        <5>2. speed * (21 * b + 1) = speed * (21 * b) + speed
          BY <1>0, <3>3
        <5>3. speed * (21 * b) \in Int /\ speed * (25 * a) \in Int
          BY <1>0, <3>3
        <5>. QED  BY <5>1, <5>2, <5>3, <3>5, <1>0
      <4>. QED  BY <4>1, <3>3
    <3>. QED  BY <3>6, <2>2, <3>2, <1>2, <1>9 DEF Surplus, a, b
  <2>. QED  BY <2>1, <2>2, <1>9
<1>. QED  BY <1>2, <1>3, <1>6, <1>9, <1>11

\* The first guess is too long, and its surplus is below the first bound.
LEMMA BeginsTheWay == ASSUME speed \in 4 .. 25 PROVE OnTheWay(FirstLoops, 0)
<1>. DEFINE m == FirstLoops \div speed
<1>1. speed \in Nat \ {0} /\ Second = 1000000 /\ FirstLoops = 380000000
  BY DEF Second, FirstLoops
<1>2. m \in Int /\ m >= Second
  BY <1>1, QuotientBounds, QuotientAbove
<1>3. m <= 95000000
  BY <1>1, QuotientBelow
<1>. HIDE DEF m
<1>4. Excess(FirstLoops) = m - 1000000 /\ Surplus(m - 1000000) <= 94000000
  BY <1>1, <1>2, <1>3 DEF Excess, Surplus, m
<1>5. Contracted(Surplus(Excess(FirstLoops)), 1, 0)
  BY <1>4, HalvingsHalve DEF Contracted
<1>6. 0 = 4 * (1 - 1) + 0 /\ 1 \in 1 .. 25 /\ 0 \in 0 .. 3
  OBVIOUS
<1>. QED  BY <1>1, <1>2, <1>4, <1>5, <1>6 DEF OnTheWay

LEMMA ContractsOnce ==
  ASSUME NEW e \in Nat, NEW f \in Nat, 25 * f <= 21 * e,
         NEW k \in 1 .. 25, NEW j \in 0 .. 3, Contracted(e, k, j)
  PROVE  IF j < 3 THEN Contracted(f, k, j + 1) ELSE k < 25 => Contracted(f, k + 1, 0)
<1>1. Halvings[k] \in Nat
  BY HalvingsHalve
<1>2. CASE j < 3
  BY <1>1, <1>2 DEF Contracted
<1>3. CASE j = 3
  <2>1. ASSUME k < 25 PROVE Contracted(f, k + 1, 0)
    <3>1. Halvings[k + 1] \in Nat /\ Halvings[k] <= 2 * Halvings[k + 1]
      BY <2>1, HalvingsHalve
    <3>2. 15625 * e <= 9261 * Halvings[k]
      BY <1>3 DEF Contracted
    <3>3. f <= Halvings[k + 1]
      BY <1>1, <3>1, <3>2
    <3>. QED  BY <3>3 DEF Contracted
  <2>. QED  BY <2>1, <1>3
<1>. QED  BY <1>2, <1>3

LEMMA SurplusNat == ASSUME NEW d \in Int PROVE Surplus(d) \in Nat
BY DEF Surplus

\* One iteration farther.
LEMMA StaysOnTheWay ==
  ASSUME speed \in 4 .. 25, NEW r \in Int, NEW n \in 0 .. 98, OnTheWay(r, n)
  PROVE  OnTheWay(Corrected(r), n + 1)
<1>1. r > 0 /\ Excess(r) >= 0
  BY DEF OnTheWay
<1>2. PICK k \in 1 .. 25, j \in 0 .. 3 : n = 4 * (k - 1) + j /\ Contracted(Surplus(Excess(r)), k, j)
  BY DEF OnTheWay
<1>. DEFINE e == Surplus(Excess(r))
            f == Surplus(Excess(Corrected(r)))
<1>3. /\ Corrected(r) > 0 /\ Excess(Corrected(r)) >= 0
      /\ e \in Nat /\ f \in Nat /\ 25 * f <= 21 * e
  BY <1>1, Shrinks, SurplusNat
<1>4. IF j < 3 THEN Contracted(f, k, j + 1) ELSE k < 25 => Contracted(f, k + 1, 0)
  <2>. HIDE DEF e, f
  <2>1. Contracted(e, k, j)
    BY <1>2 DEF e
  <2>. QED  BY <1>3, <2>1, ContractsOnce
<1>5. \E a \in 1 .. 25, b \in 0 .. 3 : n + 1 = 4 * (a - 1) + b /\ Contracted(f, a, b)
  <2>1. CASE j < 3
    <3>1. j + 1 \in 0 .. 3 /\ n + 1 = 4 * (k - 1) + (j + 1) /\ Contracted(f, k, j + 1)
      BY <2>1, <1>2, <1>4
    <3>. QED  BY <3>1
  <2>2. CASE j = 3
    <3>1. k < 25 /\ k + 1 \in 1 .. 25 /\ n + 1 = 4 * ((k + 1) - 1) + 0
      BY <2>2, <1>2
    <3>2. Contracted(f, k + 1, 0) /\ 0 \in 0 .. 3
      BY <2>2, <3>1, <1>4
    <3>. QED  BY <3>1, <3>2
  <2>. QED  BY <2>1, <2>2
<1>. QED  BY <1>3, <1>5 DEF OnTheWay

\* After the last iteration but one there is nothing left to correct.
LEMMA Arrives ==
  ASSUME speed \in 4 .. 25, NEW r \in Int, OnTheWay(r, 99)
  PROVE  Distance(r) < Tolerance
<1>1. r > 0 /\ Excess(r) >= 0 /\ Excess(r) \in Int
  BY Shrinks DEF OnTheWay
<1>2. PICK k \in 1 .. 25, j \in 0 .. 3 : 99 = 4 * (k - 1) + j /\ Contracted(Surplus(Excess(r)), k, j)
  BY DEF OnTheWay
<1>3. k = 25 /\ j = 3
  BY <1>2
<1>4. 15625 * Surplus(Excess(r)) <= 9261 * 6
  BY <1>2, <1>3, HalvingsHalve DEF Contracted
<1>5. Excess(r) <= 9
  BY <1>1, <1>4 DEF Surplus
<1>6. Distance(r) = Excess(r)
  BY <1>1, Numbers, TimingsAssumption DEF Distance, Error, Measured, Excess
<1>. QED  BY <1>1, <1>5, <1>6 DEF Tolerance

\* What is to be shown of a step of p, when nobody else runs.
LEMMA SettledFromOne ==
  ASSUME NEW p \in Ctls, \A q \in Ctls : q # p => pc'[q] = "idle",
         pc'[p] = "loop" => OnTheWay(loops, iters)',
         pc'[p] \in {"open", "write"} => Distance(tHz[p])' < Tolerance
  PROVE  WayInv' /\ SettledInv'
<1>. HIDE DEF OnTheWay, Distance
<1>1. ASSUME NEW q \in Ctls
      PROVE  /\ pc'[q] = "loop" => OnTheWay(loops, iters)'
             /\ pc'[q] \in {"open", "write"} => Distance(tHz[q])' < Tolerance
  BY <1>1
<1>. QED  BY <1>1 DEF WayInv, SettledInv

LEMMA SettledCtl ==
  ASSUME TimingsInv, WayInv, SettledInv, speed \in 4 .. 25, NEW p \in Ctls, Ctl(p)
  PROVE  WayInv' /\ SettledInv'
<1>1. pc[p] # "idle" /\ \A q \in Ctls : q # p => pc[q] = "idle"
  BY DEF Ctl, StartLoop, Iterate, ReadFile, SetFromFile, OpenFile, WriteFile, Finish,
         TimingsInv, Exclusive
<1>2. speed' = speed
  BY DEF Ctl, StartLoop, Iterate, ReadFile, SetFromFile, OpenFile, WriteFile, Finish, Exits,
         machineVars
<1>3. OnTheWay(loops, iters)' <=> OnTheWay(loops', iters')
  BY <1>2 DEF OnTheWay, Excess
<1>4. Distance(tHz[p])' = Distance(tHz'[p])
  BY <1>2 DEF Distance, Error, Measured
<1>5. \A where : Go(p, where) => pc'[p] = where /\ \A q \in Ctls : q # p => pc'[q] = "idle"
  BY <1>1, Others
<1>6. tHz \in [Ctls -> Int] /\ loops \in Int /\ iters \in 0 .. 99
      /\ \A n : tHz' = [tHz EXCEPT ![p] = n] => tHz'[p] = n
  BY DEF TimingsInv, TimingsTypeOK, MaxIters
<1>. HIDE DEF OnTheWay, Distance
<1>7. CASE StartLoop(p)
  <2>1. hz = 0
    BY <1>7 DEF StartLoop, TimingsInv, ZeroUntilDone
  <2>2. loops' = FirstLoops /\ iters' = 0 /\ Go(p, "loop")
    BY <2>1, <1>7 DEF StartLoop
  <2>3. OnTheWay(loops, iters)'
    BY <2>2, <1>3, BeginsTheWay
  <2>. QED  BY <2>2, <2>3, <1>5, SettledFromOne
<1>8. CASE Iterate(p)
  <2>1. pc[p] = "loop" /\ OnTheWay(loops, iters)
    BY <1>8 DEF Iterate, WayInv
  <2>2. ASSUME NEW r, Calibrated(p, r), Distance(r) < Tolerance PROVE WayInv' /\ SettledInv'
    <3>1. tHz' = [tHz EXCEPT ![p] = r] /\ Go(p, "open")
      BY <2>2 DEF Calibrated
    <3>2. tHz'[p] = r /\ pc'[p] = "open" /\ \A q \in Ctls : q # p => pc'[q] = "idle"
      BY <3>1, <1>5, <1>6
    <3>. QED  BY <3>2, <2>2, <1>4, SettledFromOne
  <2>3. CASE Distance(loops) >= Tolerance
    <3>1. iters # 99
      <4>1. iters = 99 => Distance(loops) < Tolerance
        BY <2>1, <1>6, Arrives
      <4>2. Distance(loops) \in Int /\ Tolerance \in Int
        <5>1. loops \div speed \in Int
          BY <1>6, QuotientBounds
        <5>. QED  BY <5>1, <1>6, Numbers DEF Distance, Error, Measured, Tolerance
      <4>. QED  BY <4>1, <4>2, <2>3
    <3>2. iters \in 0 .. 98 /\ iters + 1 # MaxIters
      BY <3>1, <1>6 DEF MaxIters
    <3>3. ~(Distance(loops) < Tolerance)
      BY <2>3, <1>6, QuotientBounds, Numbers DEF Distance, Error, Measured, Tolerance
    <3>4. loops' = Corrected(loops) /\ iters' = iters + 1 /\ pc' = pc
      BY <1>8, <3>2, <3>3 DEF Iterate
    <3>5. OnTheWay(loops, iters)'
      BY <3>2, <3>4, <2>1, <1>3, <1>6, StaysOnTheWay
    <3>. QED  BY <3>4, <3>5, <2>1, <1>1, SettledFromOne
  <2>. QED  BY <2>2, <2>3, <1>8 DEF Iterate
<1>9. CASE ReadFile(p) \/ SetFromFile(p) \/ WriteFile(p) \/ Finish(p)
  <2>1. PICK where \in {"set", "calibrate", "final", "idle"} : Go(p, where)
    BY <1>9 DEF ReadFile, SetFromFile, WriteFile, Finish, Exits
  <2>. QED  BY <2>1, <1>5, SettledFromOne
<1>10. CASE OpenFile(p)
  <2>1. PICK where \in {"write", "final"} : Go(p, where)
    BY <1>10 DEF OpenFile
  <2>2. tHz' = tHz /\ Distance(tHz[p]) < Tolerance
    BY <1>10 DEF OpenFile, SettledInv
  <2>. QED  BY <2>1, <2>2, <1>4, <1>5, SettledFromOne
<1>. QED  BY <1>7, <1>8, <1>9, <1>10 DEF Ctl

LEMMA SettledKept ==
  ASSUME TimingsInv, WayInv, SettledInv, speed \in 4 .. 25, TimingsStep
  PROVE  WayInv' /\ SettledInv'
<1>1. speed' = speed
  BY DEF TimingsStep, Userland, Start, Ctl, StartLoop, Iterate, ReadFile, SetFromFile, OpenFile,
         WriteFile, Finish, Kill, Rc, OtherOpens, OtherCloses, Sync, KernelUp, TimingsReset,
         timingsVars, machineVars
<1>2. ASSUME \A q \in Ctls : pc'[q] \in {"idle", "read"} PROVE WayInv' /\ SettledInv'
  BY <1>2 DEF WayInv, SettledInv
<1>3. ASSUME NEW p \in Ctls, opener = "nobody", Go(p, "read") PROVE WayInv' /\ SettledInv'
  <2>1. pc'[p] = "read" /\ \A q \in Ctls : q # p => pc'[q] = "idle"
    BY <1>3, Others
  <2>. QED  BY <2>1, <1>2
<1>4. ASSUME NEW p \in Ctls, Kill(p) PROVE WayInv' /\ SettledInv'
  <2>1. pc[p] # "idle" /\ Go(p, "idle")
    BY <1>4 DEF Kill, Exits
  <2>2. pc'[p] = "idle" /\ \A q \in Ctls : q # p => pc'[q] = "idle"
    BY <2>1, Others
  <2>. QED  BY <2>2, <1>2
<1>5. ASSUME UNCHANGED <<pc, tHz, loops, iters>> PROVE WayInv' /\ SettledInv'
  BY <1>1, <1>5 DEF WayInv, SettledInv, OnTheWay, Excess, Distance, Error, Measured
<1>6. CASE Rc
  BY <1>3, <1>5, <1>6 DEF Rc, Opens, calVars, Ctls
<1>7. ASSUME NEW p \in Ctls, Start(p) PROVE WayInv' /\ SettledInv'
  BY <1>3, <1>7 DEF Start, Opens
<1>8. CASE OtherOpens \/ OtherCloses \/ Sync \/ KernelUp \/ UNCHANGED timingsVars
  BY <1>5, <1>8 DEF OtherOpens, OtherCloses, Sync, KernelUp, timingsVars, calVars
<1>9. CASE TimingsReset
  BY <1>2, <1>9 DEF TimingsReset
<1>. QED  BY <1>4, <1>6, <1>7, <1>8, <1>9, SettledCtl DEF TimingsStep, Userland

\* On every machine with four to twenty-five loops in a microsecond the
\* calibration settles before its iterations run out, and what cncctl is
\* about to write is within the tolerance.
THEOREM CalibrationSettles == BootSpec => []Settles
<1>. DEFINE SettlesInv == speed \in 4 .. 25 => WayInv /\ SettledInv
<1>1. BootInit => SettlesInv
  BY DEF BootInit, TimingsInit, WayInv, SettledInv
<1>2. IInv /\ SettlesInv /\ [BootNext]_bootVars => SettlesInv'
  <2>. SUFFICES ASSUME IInv, SettlesInv, [BootNext]_bootVars, speed' \in 4 .. 25
                PROVE  WayInv' /\ SettledInv'
    OBVIOUS
  <2>1. TimingsStep
    BY DEF BootNext, AttachDevice, Up, Runs, Crash, TimingsStep, bootVars
  <2>2. speed' = speed
    BY <2>1 DEF TimingsStep, Userland, Start, Ctl, StartLoop, Iterate, ReadFile, SetFromFile,
                OpenFile, WriteFile, Finish, Kill, Rc, OtherOpens, OtherCloses, Sync, KernelUp,
                TimingsReset, timingsVars, machineVars
  <2>. QED  BY <2>1, <2>2, SettledKept DEF IInv
<1>3. SettlesInv => Settles
  BY DEF SettledInv, Settles
<1>4. QED
  BY <1>1, <1>2, <1>3, Inductive, PTL DEF BootSpec

==============================================================================
