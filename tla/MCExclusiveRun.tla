-------------------------- MODULE MCExclusiveRun --------------------------
(* Two invocations with the same output folder, one of them with --force.   *)
(* Either may be given --clear-cache, either may be killed, and either may  *)
(* have been started without standard input.                                *)
EXTENDS ExclusiveRun

CONSTANTS p1, p2
===========================================================================
