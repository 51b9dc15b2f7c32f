--------------------------- MODULE MCDevicePolling ---------------------------
(* Instances of DevicePolling: every constant is given in the .cfg files.     *)
EXTENDS DevicePolling
==============================================================================
