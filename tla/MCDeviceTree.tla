---------------------------- MODULE MCDeviceTree ----------------------------
(***************************************************************************)
(* Model-checking DeviceTree on a few devices.                             *)
(***************************************************************************)
EXTENDS DeviceTree

CONSTANTS cpu, bus, hic, ram, rom
=============================================================================
