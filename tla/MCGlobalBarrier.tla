-------------------------- MODULE MCGlobalBarrier ---------------------------
(* GlobalBarrier for TLC: three clusters of a DM core and a compute core,  *)
(* two calls each; every core contributes another power of two, so the     *)
(* reduced value tells which contributions it holds.                       *)
EXTENDS GlobalBarrier

MCClusters == 0..2
MCCoreIds == 0..1
MCExitCode(c, i) == 2 ^ (2 * c + i)
=============================================================================
