---------------------------- MODULE MCAcquisition ----------------------------
(* Instances of Acquisition for TLC.  Acquirers, code versions and candle     *)
(* values are interchangeable: no definition names one of them.               *)
EXTENDS Acquisition, TLC

Symmetry == Permutations(Acquirers) \cup Permutations(Values) \cup Permutations(Configs)
==============================================================================
