---------------------------- MODULE MCSensorHub -----------------------------
(***************************************************************************)
(* A small instance of SensorHub: the two input endpoints, and the         *)
(* configurations the daemon and a tool can give them.                     *)
(***************************************************************************)
EXTENDS SensorHub, TLC

CONSTANTS pir, sht20

MCEndpoints == <<pir, sht20>>
MCCfgs == [enabled : BOOLEAN, debounce : {TRUE}]

CallerSymmetry == Permutations(Callers)
=============================================================================
