--------------------------- MODULE MCDeviceSession ---------------------------
(* A small instance of DeviceSession: tokens either cover every device or none of them. *)
EXTENDS DeviceSession

CONSTANT d1

MCDevices == {d1}
MCScopes == {{d1}, {}}
=============================================================================
