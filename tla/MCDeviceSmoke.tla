---------------------------- MODULE MCDeviceSmoke ----------------------------
(* Small instances of DeviceSmoke.                                         *)
EXTENDS DeviceSmoke
==============================================================================
