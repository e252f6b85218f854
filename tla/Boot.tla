---------------------------------- MODULE Boot ----------------------------------
(***************************************************************************)
(* A machine that boots, runs and crashes: the kernel attaches the devices *)
(* of its configuration (Registry), /etc/rc and the users calibrate and    *)
(* load the timings (Timings), and a crash takes both back to their start, *)
(* with what is left of the timings file.                                  *)
(***************************************************************************)
EXTENDS Registry, Timings

bootVars == <<registryVars, timingsVars>>

BootInit == RegistryInit /\ TimingsInit

\* Autoconfiguration runs before any process does.
AttachDevice == phase = "off" /\ Attach /\ UNCHANGED timingsVars

Up == next > Len(config) /\ KernelUp /\ UNCHANGED registryVars

Runs == Userland /\ UNCHANGED registryVars

Crash == RegistryReset /\ TimingsReset

BootNext == AttachDevice \/ Up \/ Runs \/ Crash

\* Processes run on: no cncctl waits for anything, and the calibration loop
\* is the processor's.
BootSpec == BootInit /\ [][BootNext]_bootVars
            /\ \A p \in Ctls : WF_bootVars(Ctl(p) /\ UNCHANGED registryVars)

-----------------------------------------------------------------------------

\* Every variable ranges over what the C declarations and the code allow.
BootTypeOK == RegistryTypeOK /\ TimingsTypeOK
==============================================================================
