---------------------------- MODULE MCEventSync ----------------------------
(* Two machines on a chain of a few blocks, one of which may be replaced.  *)
EXTENDS EventSync, TLC

CONSTANTS m1, m2

Machines == Permutations({m1, m2})
=============================================================================
