---------------------------- MODULE MCScanTasks ----------------------------
(* Small instances of ScanTasks.                                           *)
EXTENDS ScanTasks

CONSTANTS s1, t1, t2
=============================================================================
