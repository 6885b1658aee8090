--------------------------- MODULE MCCaptureTask ---------------------------
(* Small instances of CaptureTask.                                         *)
EXTENDS CaptureTask

CONSTANTS c1, c2, d1, d2
=============================================================================
