--------------------------- MODULE AtomicInstall ----------------------------
(***************************************************************************)
(* What the update transaction promises about the installation: a          *)
(* generation is activated only once all stable entries are its own, it is *)
(* taken back only once they are the previous one's again, and a           *)
(* transaction ends only when entries and active generation agree.         *)
(***************************************************************************)
CONSTANTS Gen, Initial, NoGen, Mixed

VARIABLES
  active,    \* the generation install-state.json names
  entries,   \* the one whose files stand at all the stable entries, or Mixed
  base       \* the generation an open transaction started from, or NoGen

view == <<active, entries, base>>

Init == active = Initial /\ entries = Initial /\ base = NoGen

Begin == base = NoGen /\ base' = active /\ UNCHANGED <<active, entries>>

Replace ==
  /\ base # NoGen
  /\ entries' \in Gen \cup {Mixed}
  /\ UNCHANGED <<active, base>>

Activate ==
  /\ base # NoGen /\ active = base
  /\ entries \in Gen /\ active' = entries
  /\ UNCHANGED <<entries, base>>

TakeBack ==
  /\ base # NoGen /\ entries = base /\ active' = base
  /\ UNCHANGED <<entries, base>>

End ==
  /\ base # NoGen /\ entries = active
  /\ base' = NoGen
  /\ UNCHANGED <<active, entries>>

Next == Begin \/ Replace \/ Activate \/ TakeBack \/ End

Spec == Init /\ [][Next]_view
=============================================================================
