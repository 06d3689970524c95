----------------------------- MODULE MCIvrCall -----------------------------
(* IvrCall with a few presses; the presses are interchangeable. *)
EXTENDS IvrCall, TLC

CONSTANTS p1, p2, p3

Interchangeable == Permutations(Presses)
=============================================================================
