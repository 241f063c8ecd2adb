----------------------------- MODULE MCInputDevices ----------------------------
EXTENDS InputDevices, TLC

(* Names, paths and data bytes are only compared. *)
Symmetry == Permutations(DevName) \cup Permutations(DevPath) \cup Permutations(Data)
=============================================================================
