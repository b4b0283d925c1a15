--------------------------- MODULE MCDeviceSocket ---------------------------
(* Instance of DeviceSocket for TLC.                                        *)
EXTENDS DeviceSocket
=============================================================================
