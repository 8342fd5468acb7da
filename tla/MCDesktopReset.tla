--------------------------- MODULE MCDesktopReset ---------------------------
(* Small instances of DesktopReset for TLC.                                *)
EXTENDS DesktopReset, TLC

CONSTANTS s1, a1, a2, i1, i2

MCServer   == {s1}
MCAccount  == {a1, a2}
MCOne      == {a1}
MCIds      == {i1, i2}
MCOneId    == {i1}
MCSymmetry == Permutations(MCAccount) \cup Permutations(MCIds)
MCIdSymmetry == Permutations(MCIds)
=============================================================================
