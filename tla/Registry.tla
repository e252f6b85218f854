-------------------------------- MODULE Registry --------------------------------
(***************************************************************************)
(* Autoconfiguration of the devices at gpio(4): their registration by      *)
(* cnc_device_attach() in the arrays the motion core indexes (cnc_servos,  *)
(* cnc_estops, ...), and the mapping of their pins by gpio_pin_map().      *)
(*                                                                         *)
(* A device is a record: its type, and the pins that its offset and mask   *)
(* name, in increasing order.  Devices attach one after the other, in the  *)
(* order of the kernel's configuration, so that an attach routine is one   *)
(* action.  Nothing detaches them but the end of the kernel.               *)
(***************************************************************************)
EXTENDS Integers, Sequences

CONSTANTS
  NPins,        \* sc_npins
  Caps,         \* pin_caps: whether a pin can be an input, an output
  Room,         \* CNC_NAXES, CNC_MAX_ESTOPS, ...
  Configs       \* kernel configurations

Types == {"servo", "estop", "encoder", "mpg", "spotwelder"}

MpgPinLast == 8
Pins == 0 .. NPins - 1

ASSUME RegistryAssumption ==
  /\ NPins \in Nat
  /\ Caps \in [Pins -> SUBSET {"in", "out"}]
  /\ Room \in [Types -> Nat]
  /\ Configs \subseteq Seq([type : Types, pins : Seq(Int)])

VARIABLES
  config,       \* the configuration of this kernel
  next,         \* the device that attaches next
  registered,   \* cnc_servos and its likes: for each type, devices by number
  mapped,       \* the pins that are pin_mapped
  outcome       \* history: how the attach routine of each device ended

registryVars == <<config, next, registered, mapped, outcome>>

Devices == DOMAIN config

-----------------------------------------------------------------------------
(* gpio(4).                                                                *)

\* Faulty: a mapped pin is mapped again.
FreeMapped(p) == p \in Pins

Free(p) == p \in Pins /\ p \notin mapped

\* gpio_pin_map() succeeds.
Mappable(d) == /\ Len(d.pins) <= NPins
               /\ \A k \in DOMAIN d.pins : Free(d.pins[k])

\* What gpio_pin_map() marks: it stops at the first pin that is not free, and
\* leaves the ones before it marked.
Marked(d) ==
  IF Len(d.pins) > NPins THEN {}
  ELSE {d.pins[k] : k \in {k \in DOMAIN d.pins : \A j \in 1 .. k : Free(d.pins[j])}}

-----------------------------------------------------------------------------
(* The attach routines.                                                    *)

\* What CNC_MAP_INPUT and CNC_MAP_OUTPUT ask of the pins, in their order.
Roles(d) ==
  CASE d.type = "servo" -> <<"out", "out">>
    [] d.type = "estop" -> <<"in">>
    [] d.type = "encoder" -> <<"in", "in">>
    [] d.type = "spotwelder" -> <<"out", "in", "in", "in">>
    [] d.type = "mpg" -> [k \in DOMAIN d.pins |-> "in"]

RightMask(d) == IF d.type = "mpg" THEN Len(d.pins) \in 2 .. MpgPinLast
                ELSE Len(d.pins) = Len(Roles(d))

Capable(d) == \A k \in DOMAIN d.pins : Roles(d)[k] \in Caps[d.pins[k]]

Outcome(d) == IF ~RightMask(d) THEN "mask"
              ELSE IF ~Mappable(d) THEN "map"
              ELSE IF ~Capable(d) THEN "caps"
              ELSE "attached"

\* Faulty: the pins of a device that cannot use them stay mapped.
PinsAfterKept(d) == IF RightMask(d) THEN mapped \cup Marked(d) ELSE mapped

\* The pins that are mapped afterwards: only a device without the capabilities
\* it needs gives its pins back (the label fail).
PinsAfter(d) == IF Outcome(d) \in {"map", "attached"} THEN mapped \cup Marked(d) ELSE mapped

\* Faulty: a device takes a number when its pins are mapped.
RegisterMapped(d) ==
  IF Mappable(d) /\ Len(registered[d.type]) < Room[d.type]
    THEN [registered EXCEPT ![d.type] = Append(@, next)]
    ELSE registered

\* cnc_device_attach(): before anything else, and beyond the size of its array
\* a device is ignored.
Register(d) ==
  IF Len(registered[d.type]) < Room[d.type]
    THEN [registered EXCEPT ![d.type] = Append(@, next)]
    ELSE registered

\* servo_attach(), estop_attach(), ...
Attach ==
  LET d == config[next]
  IN /\ next \in Devices
     /\ registered' = Register(d)
     /\ outcome' = [outcome EXCEPT ![next] = Outcome(d)]
     /\ mapped' = PinsAfter(d)
     /\ next' = next + 1
     /\ UNCHANGED config

\* A kernel that starts: bss is zero, and gpio_attach() has not mapped a pin.
RegistryInit ==
  /\ config \in Configs
  /\ next = 1
  /\ registered = [t \in Types |-> <<>>]
  /\ mapped = {}
  /\ outcome = [i \in Devices |-> "none"]

\* The same kernel, started again.
RegistryReset ==
  /\ next' = 1
  /\ registered' = [t \in Types |-> <<>>]
  /\ mapped' = {}
  /\ outcome' = [i \in Devices |-> "none"]
  /\ UNCHANGED config

-----------------------------------------------------------------------------
(* Properties.                                                             *)

RegistryTypeOK ==
  /\ config \in Configs
  /\ next \in 1 .. Len(config) + 1
  /\ registered \in [Types -> Seq(Devices)]
  /\ mapped \subseteq Pins
  /\ outcome \in [Devices -> {"none", "mask", "map", "caps", "attached"}]

PinSet(i) == {config[i].pins[k] : k \in DOMAIN config[i].pins}

Attached == {i \in Devices : outcome[i] = "attached"}

\* Each device that attached has its pins to itself, whatever devices that
\* failed to attach did before or after it: gpio_pin_map() refuses them to
\* the others, and no failing attach routine unmaps them.
PinsHeld ==
  /\ \A i \in Attached : PinSet(i) \subseteq mapped
  /\ \A i, j \in Attached : i # j => PinSet(i) \cap PinSet(j) = {}

\* A pin stays mapped, and out of gpioctl's and the other devices' reach,
\* only for a device that attached or for one that found another of its pins
\* taken: the label fail gives all others back.
PinsAccounted ==
  \A p \in mapped : \E i \in Devices : p \in PinSet(i) /\ outcome[i] \in {"attached", "map"}

\* The devices of a type are numbered in the order of the configuration, and
\* one that has no number came when the array was full.
Numbered(type) ==
  LET seq == registered[type]
  IN /\ Len(seq) <= Room[type]
     /\ \A k \in DOMAIN seq : config[seq[k]].type = type /\ seq[k] < next
     /\ \A j, k \in DOMAIN seq : j < k => seq[j] < seq[k]
     /\ \A i \in 1 .. next - 1 :
          config[i].type = type /\ (\A k \in DOMAIN seq : seq[k] # i)
            => Len(seq) = Room[type] /\ \A k \in DOMAIN seq : seq[k] < i

\* The number of a device, which is the axis of a servo, follows from the
\* configuration alone: devices are numbered in its order, without a gap for
\* those that fail to attach, and only beyond the size of the array, which
\* is not written, does one have no number.
AxisNumbers == \A type \in Types : Numbered(type)
==============================================================================
