------------------------- MODULE MCApplyTransaction -------------------------
(* Small instances of ApplyTransaction for TLC.                            *)
EXTENDS ApplyTransaction

CONSTANTS g0, t1, t2

MCTxn     == {t1, t2}
MCOneTxn  == {t1}
(* The second package is older than the first, and as old as the initial.  *)
MCVersion == [g \in Txn \cup {g0} |-> IF g = t1 THEN 2 ELSE 1]
=============================================================================
