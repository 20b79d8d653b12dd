---------------------------- MODULE MCBleAnswers ----------------------------
(* Instance of BleAnswers: any two commands, or one among two reports, with *)
(* two devices and any frame lost, late or repeated.                       *)
EXTENDS BleAnswers, TLC

MCUsed == Commands

Symmetry == Permutations(Devices)
=============================================================================
