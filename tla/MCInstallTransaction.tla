------------------------ MODULE MCInstallTransaction ------------------------
(* Small instances of InstallTransaction for TLC.                          *)
EXTENDS InstallTransaction, TLC

CONSTANTS g0, d1, d2, d3

MCDir      == {d1, d2, d3}
MCSymmetry == Permutations(MCDir)
=============================================================================
