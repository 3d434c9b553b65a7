---------------------------- MODULE MCSysThread ----------------------------
(* SysThread with two callers, for the runs of TLC. *)
EXTENDS SysThread

CONSTANTS gui, executor
=============================================================================
