-------------------------- MODULE MCActiveRuntime --------------------------
(* Small instances of ActiveRuntime for TLC.                                 *)
EXTENDS ActiveRuntime, TLC

RuntimeSymmetry == Permutations(Exchanges)
=============================================================================
