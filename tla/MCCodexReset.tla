---------------------------- MODULE MCCodexReset ----------------------------
(* Small instances of CodexReset for TLC.                                  *)
EXTENDS CodexReset, TLC

CONSTANTS s1, a1, a2, i1, i2, i3

MCServer   == {s1}
MCAccount  == {a1, a2}
MCIds      == {i1, i2, i3}
MCSymmetry == Permutations(MCAccount) \cup Permutations(MCIds)
=============================================================================
