--------------------------- MODULE MCPairedUpdate ---------------------------
(* Small instances of PairedUpdate for TLC.                                *)
EXTENDS PairedUpdate

MCIds == 1 .. 2
MCOps == 1 .. 4
=============================================================================
