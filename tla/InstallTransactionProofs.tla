---------------------- MODULE InstallTransactionProofs ----------------------
(***************************************************************************)
(* Theorems about InstallTransaction: its types, that no clean-up removes  *)
(* the active generation, that what a completed install superseded is      *)
(* never undone, and that the entries are complete once every transaction  *)
(* is closed, for any number of transactions and of faults.                *)
(***************************************************************************)
EXTENDS InstallTransaction, TLAPS

(***************************************************************************)
(* The invariant.  Every transaction but a migration has a generation of   *)
(* its own, named like its directory.                                      *)
(***************************************************************************)
Prev(d) == journal[d].prev
Cand(d) == journal[d].cand
Own(d)  == journal[d].kind \in {"apply", "install"}

(* A journal names what its transaction started from and what it creates.  *)
JournalOK ==
  \A d \in Dir :
    /\ journal[d].kind = "none" => Fresh(d)
    /\ ~Fresh(d) => Cand(d) \in [gen : Gen, layout : Layouts]
    /\ Own(d) => Cand(d).gen = d
    /\ journal[d].kind = "migrate" => Prev(d) # None /\ Cand(d).gen = Prev(d).gen
    /\ \A e \in journal[d].over : Own(e)

(* No state, and no transaction, has started from generation x.            *)
NeverUsed(x) ==
  /\ state # None => state.gen # x
  /\ \A d \in Dir : Prev(d) # None => Prev(d).gen # x

UnusedOK ==
  /\ \A x \in Dir : Fresh(x) => NeverUsed(x) /\ x \notin gens
  /\ \A x \in Dir : Own(x) /\ journal[x].phase = "ready" => NeverUsed(x)

(* What the holder of the lock has reached.                                *)
HolderOK ==
  /\ pc \notin {"idle", "recover"} => cur \in Dir /\ ~Fresh(cur)
  /\ pc = "backup" => state = Prev(cur) /\ (Own(cur) => journal[cur].phase = "ready")
  /\ pc = "replace" => state = Prev(cur) /\ journal[cur].phase = "intent"
  /\ pc \in {"backup", "replace"} => Cand(cur).gen \in gens
  /\ pc = "verify" => state = Cand(cur) /\ journal[cur].phase = "intent"
  /\ pc = "clean" => journal[cur].phase = "complete"
  /\ pc = "restore" => state \in {Prev(cur), Cand(cur)}
  /\ pc = "restore" /\ Own(cur) => journal[cur].phase \in {"intent", "obsolete"}
  /\ pc = "dropGeneration" => Own(cur) /\ (state = Prev(cur) \/ NeverUsed(cur))
  /\ pc = "mark" => Own(cur)
  /\ pc = "recover" => Recovering
  /\ Recovering => proc.who # "none"

(* L holds the active generation and all that it descends from.            *)
Lineage(L) ==
  /\ L \subseteq gens
  /\ state # None => state.gen \in L
  /\ \A d \in L \cap Dir : Own(d) /\ Prev(d) # None => Prev(d).gen \in L

Settled(i) == Own(i) /\ journal[i].phase \in {"complete", "cleaned"}

(* The generations, in the order in which they were created.               *)
Timeline(rank, n) ==
  /\ state # None => rank[state.gen] <= n
  /\ \A d \in Dir :
       Own(d) => /\ rank[d] <= n
                 /\ Prev(d) # None => rank[Prev(d).gen] < rank[d]
                 /\ \A e \in journal[d].over : rank[e] < rank[d]
                 /\ \A e \in Dir : Own(e) /\ e # d => rank[e] # rank[d]
                 /\ pc \in {"backup", "replace", "verify"} /\ Own(cur) => rank[d] <= rank[cur]

(* Nothing goes back behind a transaction that is complete.                *)
Forward(rank) ==
  \A i \in Dir :
    Settled(i) =>
      /\ state # None /\ rank[i] <= rank[state.gen]
      /\ \A c \in Dir : Own(c) /\ rank[i] < rank[c]
           => Prev(c) # None /\ rank[i] <= rank[Prev(c).gen]

History ==
  \E rank \in [Gen -> Nat], n \in Nat :
    Timeline(rank, n) /\ Forward(rank) /\ \E L \in SUBSET Gen : Lineage(L)

InstallInv == ProgramTypeOK /\ JournalOK /\ UnusedOK /\ HolderOK /\ History

(***************************************************************************)
(* Journals.                                                               *)
(***************************************************************************)
Phases == {"ready", "intent"} \cup Terminal \cup Gone
Journals == [kind : Kinds \cup {"none"}, phase : Phases,
             prev : States, cand : States, over : SUBSET Dir]

(* Only phases change.                                                     *)
SameJournals ==
  \A d \in Dir :
    /\ journal'[d].kind = journal[d].kind
    /\ journal'[d].prev = journal[d].prev
    /\ journal'[d].cand = journal[d].cand
    /\ journal'[d].over = journal[d].over
    /\ Fresh(d)' <=> Fresh(d)

(* A journal that moves on keeps what it says.                             *)
LEMMA PhaseStep ==
  ASSUME ProgramTypeOK, JournalOK, NEW d \in Dir, ~Fresh(d), NEW phase \in Phases, Phase(d, phase)
  PROVE  /\ journal' \in [Dir -> Journals]
         /\ SameJournals
         /\ journal'[d].phase = phase
         /\ \A e \in Dir \ {d} : journal'[e] = journal[e]
<1>1. journal \in [Dir -> Journals]
  BY DEF ProgramTypeOK, Journals, Phases
<1> DEFINE j == [journal[d] EXCEPT !.phase = phase]
<1>2. journal' = [journal EXCEPT ![d] = j]
  BY DEF Phase
<1>3. j \in Journals /\ j.phase = phase
  BY <1>1 DEF Journals
<1>4. /\ j.kind = journal[d].kind /\ j.prev = journal[d].prev
      /\ j.cand = journal[d].cand /\ j.over = journal[d].over
  BY <1>1 DEF Journals
<1>5. j # NoJournal
  BY <1>4 DEF JournalOK, NoJournal
<1> HIDE DEF j
<1>6. journal'[d] = j /\ \A e \in Dir \ {d} : journal'[e] = journal[e]
  BY <1>1, <1>2
<1>7. journal' \in [Dir -> Journals]
  BY <1>1, <1>2, <1>3
<1>8. SameJournals
  BY <1>4, <1>5, <1>6 DEF SameJournals, Fresh
<1> QED
  BY <1>3, <1>6, <1>7, <1>8

(* Journals that stay stay the same.                                       *)
LEMMA NoPhaseStep ==
  ASSUME UNCHANGED journal
  PROVE  SameJournals /\ \A d \in Dir : journal'[d] = journal[d]
BY DEF SameJournals, Fresh

(* The directories that a finished transaction tidies up.                  *)
LEMMA CleanStep ==
  ASSUME ProgramTypeOK, JournalOK, HolderOK, Clean
  PROVE  /\ journal' \in [Dir -> Journals]
         /\ SameJournals
         /\ \A d \in Dir :
              \/ journal'[d].phase \in {journal[d].phase, "removed"}
              \/ d = cur /\ journal'[d].phase = "cleaned"
<1>1. journal \in [Dir -> Journals] /\ cur \in Dir /\ ~Fresh(cur)
  BY DEF ProgramTypeOK, Journals, Phases, HolderOK, Clean, At
<1>2. ASSUME NEW d \in Dir
      PROVE  /\ journal'[d] \in Journals
             /\ journal'[d].kind = journal[d].kind
             /\ journal'[d].prev = journal[d].prev
             /\ journal'[d].cand = journal[d].cand
             /\ journal'[d].over = journal[d].over
             /\ Fresh(d)' <=> Fresh(d)
             /\ \/ journal'[d].phase \in {journal[d].phase, "removed"}
                \/ d = cur /\ journal'[d].phase = "cleaned"
  <2>2. CASE journal'[d] = journal[d]
    BY <1>1, <2>2 DEF Fresh
  <2>3. ASSUME NEW phase \in {"cleaned", "removed"}, ~Fresh(d),
               journal'[d] = [journal[d] EXCEPT !.phase = phase]
        PROVE  /\ journal'[d] \in Journals
               /\ journal'[d].kind = journal[d].kind
               /\ journal'[d].prev = journal[d].prev
               /\ journal'[d].cand = journal[d].cand
               /\ journal'[d].over = journal[d].over
               /\ journal'[d].phase = phase
               /\ ~Fresh(d)'
    <3>1. /\ journal'[d] \in Journals
          /\ journal'[d].kind = journal[d].kind
          /\ journal'[d].prev = journal[d].prev
          /\ journal'[d].cand = journal[d].cand
          /\ journal'[d].over = journal[d].over
          /\ journal'[d].phase = phase
      BY <1>1, <2>3 DEF Journals, Phases, Gone
    <3> QED
      BY <2>3, <3>1 DEF Fresh, JournalOK, NoJournal
  <2>4. CASE d = cur /\ journal'[d] = [journal[d] EXCEPT !.phase = "cleaned"]
    BY <1>1, <2>3, <2>4
  <2>5. CASE d \in journal[cur].over /\ journal'[d] = [journal[d] EXCEPT !.phase = "removed"]
    <3>1. ~Fresh(d)
      BY <1>1, <2>5 DEF JournalOK, Own, Fresh, NoJournal
    <3> QED
      BY <2>3, <2>5, <3>1
  <2> QED
    BY <2>2, <2>4, <2>5 DEF Clean
<1>3. journal' \in [Dir -> Journals]
  <2>1. journal' = [d \in Dir |-> journal'[d]]
    BY DEF Clean
  <2> QED
    BY <1>2, <2>1
<1>4. SameJournals
  BY <1>2 DEF SameJournals
<1> QED
  BY <1>2, <1>3, <1>4

(* The journal of a new transaction.                                       *)
LEMMA BeginStep ==
  ASSUME ProgramTypeOK, NEW d \in Dir, NEW kind \in Kinds, NEW cand \in [gen : Gen, layout : Layouts],
         NEW over \in SUBSET Dir, Begin(d, kind, cand, over)
  PROVE  /\ journal' \in [Dir -> Journals]
         /\ journal'[d].kind = kind /\ journal'[d].prev = state
         /\ journal'[d].cand = cand /\ journal'[d].over = over
         /\ journal'[d].phase = IF kind = "migrate" THEN "unwritten" ELSE "ready"
         /\ ~Fresh(d)'
         /\ \A e \in Dir \ {d} : journal'[e] = journal[e]
<1> DEFINE j == [kind |-> kind, phase |-> IF kind = "migrate" THEN "unwritten" ELSE "ready",
                 prev |-> state, cand |-> cand, over |-> over]
<1>1. journal \in [Dir -> Journals] /\ journal' = [journal EXCEPT ![d] = j]
  BY DEF ProgramTypeOK, Journals, Phases, Begin
<1>2. j \in Journals
  BY DEF Journals, Phases, Gone, Kinds, ProgramTypeOK, States
<1>3. j # NoJournal
  BY DEF NoJournal, Kinds
<1>4. /\ j.kind = kind /\ j.prev = state /\ j.cand = cand /\ j.over = over
      /\ j.phase = IF kind = "migrate" THEN "unwritten" ELSE "ready"
  OBVIOUS
<1> HIDE DEF j
<1> QED
  BY <1>1, <1>2, <1>3, <1>4 DEF Fresh

(* What a layout has at its entries is a file.                             *)
LEMMA FileType ==
  ASSUME NEW g \in Gen, NEW x
  PROVE  FileOf(g, x) \in Files
BY DEF FileOf, Files

(* Where the kinds of transactions begin.                                  *)
LEMMA Beginnings ==
  ASSUME ProgramTypeOK, NEW d \in Dir, NEW layout \in Layouts,
         Migrate(d) \/ Apply(d) \/ Install(d, layout)
  PROVE  \E kind \in Kinds, cand \in [gen : Gen, layout : Layouts], over \in SUBSET Dir :
           /\ Begin(d, kind, cand, over)
           /\ kind # "migrate" => cand.gen = d
           /\ kind = "migrate" => state # None /\ cand.gen = state.gen
           /\ \A e \in over : Own(e)
<1>1. CASE Install(d, layout)
  <2> DEFINE c == [gen |-> d, layout |-> layout]
             over == IF proc.failed THEN Supersedable ELSE {}
  <2>1. c \in [gen : Gen, layout : Layouts] /\ c.gen = d
    BY DEF Gen
  <2>2. over \in SUBSET Dir /\ \A e \in over : Own(e)
    BY DEF Supersedable, Own
  <2>3. Begin(d, "install", c, over)
    BY <1>1 DEF Install
  <2> QED
    BY <2>1, <2>2, <2>3 DEF Kinds
<1>2. CASE Apply(d)
  <2> DEFINE c == [gen |-> d, layout |-> state.layout]
  <2>1. state \in [gen : Gen, layout : Layouts]
    BY <1>2 DEF Apply, ProgramTypeOK, States
  <2>2. c \in [gen : Gen, layout : Layouts] /\ c.gen = d
    BY <2>1 DEF Gen
  <2>3. Begin(d, "apply", c, {})
    BY <1>2 DEF Apply
  <2> QED
    BY <2>2, <2>3 DEF Kinds
<1>3. CASE Migrate(d)
  <2> DEFINE c == [state EXCEPT !.layout = "managed"]
  <2>1. state # None
    BY <1>3 DEF Migrate, CanMigrate
  <2>2. state \in [gen : Gen, layout : Layouts]
    BY <2>1 DEF ProgramTypeOK, States
  <2>3. c \in [gen : Gen, layout : Layouts] /\ c.gen = state.gen
    BY <2>2 DEF Layouts
  <2>4. Begin(d, "migrate", c, {})
    BY <1>3 DEF Migrate
  <2> QED
    BY <2>1, <2>3, <2>4 DEF Kinds
<1> QED
  BY <1>1, <1>2, <1>3

(***************************************************************************)
(* Types.                                                                  *)
(***************************************************************************)
JournalType == journal \in [Dir -> Journals]

ProcType ==
  /\ proc \in [who : {"none", "launch", "install", "migrate"},
              at : {"none", "recovering", "waiting"}, failed : BOOLEAN]
  /\ proc.at = "waiting" => proc.who \in {"install", "migrate"}

(* A recovery ends with a process of one of these kinds.                   *)
LEMMA RecoverEndType ==
  ASSUME ProgramTypeOK, HolderOK, Recovering, NEW failed \in BOOLEAN, RecoverEnd(failed)
  PROVE  ProcType' /\ ~Recovering' /\ pc' = "idle" /\ cur' = None /\ todo' = {}
<1>1. proc.who \in {"launch", "install", "migrate"}
  BY DEF ProgramTypeOK, HolderOK
<1>2. CASE proc.who = "launch"
  BY <1>2 DEF RecoverEnd, NoProc, ProcType, Recovering, Idle, Goto
<1>3. CASE proc.who # "launch"
  BY <1>1, <1>3 DEF RecoverEnd, ProgramTypeOK, ProcType, Recovering, Idle, Goto
<1> QED
  BY <1>2, <1>3

(* Steps of transactions keep the types.                                   *)
LEMMA TransactionTypes ==
  ASSUME ProgramTypeOK, JournalOK, HolderOK, Transaction
  PROVE  ProgramTypeOK'
<1>1. JournalType
  BY DEF ProgramTypeOK, JournalType, Journals, Phases
<1>2. ASSUME NEW d \in Dir, NEW layout \in Layouts, Migrate(d) \/ Apply(d) \/ Install(d, layout)
      PROVE  ProgramTypeOK'
  <2>1. PICK kind \in Kinds, cand \in [gen : Gen, layout : Layouts], over \in SUBSET Dir :
          Begin(d, kind, cand, over) /\ (kind # "migrate" => cand.gen = d)
    BY <1>2, Beginnings
  <2>2. journal' \in [Dir -> Journals]
    BY <2>1, BeginStep
  <2>3. proc' \in {NoProc, proc}
    BY <1>2 DEF Migrate, Apply, Install
  <2>4. gens' \subseteq Gen /\ pc' = "backup" /\ cur' = d
        /\ UNCHANGED <<state, corrupt, boot, backup, todo, faults>>
    BY <2>1 DEF Begin, Goto, ProgramTypeOK
  <2>5. ProcType'
    <3>1. CASE proc' = proc
      BY <3>1 DEF ProcType, ProgramTypeOK
    <3>2. CASE proc' = NoProc
      BY <3>2 DEF ProcType, NoProc
    <3> QED
      BY <2>3, <3>1, <3>2
  <2> QED
    BY <2>2, <2>4, <2>5 DEF ProgramTypeOK, Journals, Phases, ProcType
<1>3. CASE InstallRefused \/ MigrateRefused
  <2>1. proc' = NoProc /\ UNCHANGED <<disk, pc, cur, todo, faults>>
    BY <1>3 DEF InstallRefused, MigrateRefused
  <2> QED
    BY <2>1 DEF ProgramTypeOK, NoProc, disk
<1>4. CASE Backup
  <2>1. cur \in Dir /\ ~Fresh(cur) /\ Cand(cur) \in [gen : Gen, layout : Layouts]
    BY <1>4 DEF Backup, At, HolderOK, JournalOK
  <2>2. journal' \in [Dir -> Journals]
    BY <1>4, <2>1, PhaseStep DEF Backup, Phases
  <2>3. [x \in Targets |-> boot[x]] \in [Managed(Cand(cur).layout) -> Files]
    BY DEF Targets, Managed, Cand, ProgramTypeOK, Entry
  <2>4. \A d \in Dir : backup'[d] = None
           \/ \E layout \in Layouts : backup'[d] \in [Managed(layout) -> Files]
    <3>1. backup' = [backup EXCEPT ![cur] = [x \in Targets |-> boot[x]]]
      BY <1>4 DEF Backup
    <3>2. Cand(cur).layout \in Layouts
      BY <2>1
    <3>3. \A d \in Dir : backup'[d] = backup[d]
                        \/ (d = cur /\ backup'[d] = [x \in Targets |-> boot[x]])
      BY <3>1
    <3> QED
      BY <2>3, <3>2, <3>3 DEF ProgramTypeOK
  <2> QED
    BY <1>4, <2>1, <2>2, <2>4 DEF Backup, Goto, ProgramTypeOK, Journals, Phases
<1>5. CASE WriteState
  <2>1. Cand(cur) \in [gen : Gen, layout : Layouts]
    BY <1>5 DEF WriteState, At, HolderOK, JournalOK
  <2> QED
    BY <1>5, <2>1 DEF WriteState, Goto, Cand, States, ProgramTypeOK
<1>6. CASE Finish
  <2>1. journal' \in [Dir -> Journals]
    BY <1>6, PhaseStep DEF Finish, At, HolderOK, Phases, Terminal
  <2> QED
    BY <1>6, <2>1 DEF Finish, Goto, ProgramTypeOK, Journals, Phases
<1>7. CASE Clean
  BY <1>7, CleanStep DEF Clean, Idle, Goto, ProgramTypeOK, Journals, Phases
<1>8. CASE Fail
  <2>1. journal' \in [Dir -> Journals]
    <3>1. CASE At("backup")
      BY <1>8, <3>1, PhaseStep DEF Fail, At, HolderOK, Phases, Gone
    <3>2. CASE ~At("backup")
      BY <1>1, <1>8, <3>2 DEF Fail, JournalType
    <3> QED
      BY <3>1, <3>2
  <2>2. faults' \in 0 .. MaxFaults
    BY <1>8, InstallAssumption DEF Fail, Fault, ProgramTypeOK
  <2>3. gens' \subseteq Gen
    BY <1>8 DEF Fail, ProgramTypeOK
  <2>4. pc' \in {"idle", "restore"} /\ cur' \in {cur, None} /\ todo' = {}
    BY <1>8 DEF Fail, Idle, Goto
  <2> QED
    BY <1>8, <2>1, <2>2, <2>3, <2>4 DEF Fail, ProgramTypeOK, Journals, Phases
<1>9. ASSUME NEW x \in Entry, Replace(x)
      PROVE  ProgramTypeOK'
  <2>1. Cand(cur) \in [gen : Gen, layout : Layouts]
    BY <1>9 DEF Replace, At, HolderOK, JournalOK
  <2>2. FileOf(Cand(cur).gen, x) \in Files
    BY <2>1, FileType
  <2>3. boot' \in [Entry -> Files]
    BY <1>9, <2>2 DEF Replace, Cand, ProgramTypeOK
  <2> QED
    BY <1>9, <2>3 DEF Replace, ProgramTypeOK
<1> QED
  BY <1>2, <1>3, <1>4, <1>5, <1>6, <1>7, <1>8, <1>9 DEF Transaction, Layouts

(* A process that begins to recover, and one that ends it, have types.     *)
LEMMA RecoverTypes ==
  ASSUME ProgramTypeOK, JournalOK, HolderOK, Recover
  PROVE  ProgramTypeOK'
<1>1. JournalType
  BY DEF ProgramTypeOK, JournalType, Journals, Phases
<1>2. ASSUME NEW who \in {"launch", "install", "migrate"}, RecoverStart(who)
      PROVE  ProgramTypeOK'
  BY <1>2 DEF RecoverStart, Goto, ProgramTypeOK, disk
<1>3. ASSUME NEW d \in Dir, RecoverPass(d)
      PROVE  ProgramTypeOK'
  <2>1. journal' \in [Dir -> Journals]
    <3>1. CASE UNCHANGED journal
      BY <1>1, <3>1 DEF JournalType
    <3>2. ASSUME ~Fresh(d), Phase(d, "removed") \/ Phase(d, "obsolete")
          PROVE  journal' \in [Dir -> Journals]
      BY <3>2, PhaseStep DEF Phases, Gone, Terminal
    <3>3. Fresh(d) => ~Removable(d) /\ ~Obsolete(d)
      BY DEF Fresh, NoJournal, Removable, Obsolete, Pending, SetAside, Passed, Open, Gone
    <3> QED
      BY <1>3, <3>1, <3>2, <3>3 DEF RecoverPass
  <2> QED
    BY <1>3, <2>1 DEF RecoverPass, ProgramTypeOK, Journals, Phases
<1>4. ASSUME NEW d \in Dir, RecoverUndo(d)
      PROVE  ProgramTypeOK'
  <2>1. /\ cur' = d /\ todo' \subseteq todo /\ pc' \in {"restore", "dropGeneration"}
        /\ UNCHANGED <<disk, proc, faults>>
    BY <1>4 DEF RecoverUndo, Goto, Undo
  <2> QED
    BY <2>1 DEF ProgramTypeOK, disk
<1>5. ASSUME NEW failed \in BOOLEAN, Recovering, RecoverEnd(failed), UNCHANGED <<disk, faults>>
      PROVE  ProgramTypeOK'
  BY <1>5, RecoverEndType DEF ProgramTypeOK, ProcType, disk
<1>6. ASSUME RecoverDone \/ \E d \in Dir : RecoverManual(d)
      PROVE  ProgramTypeOK'
  BY <1>5, <1>6 DEF RecoverDone, RecoverManual, Examines, At, HolderOK
<1> QED
  BY <1>2, <1>3, <1>4, <1>6 DEF Recover

(* What was saved is restored, and accidents happen, within the types.     *)
LEMMA RestoreTypes ==
  ASSUME ProgramTypeOK, JournalOK, HolderOK, Restore \/ Accident
  PROVE  ProgramTypeOK'
<1>1. JournalType
  BY DEF ProgramTypeOK, JournalType, Journals, Phases
<1>2. ASSUME NEW x \in Entry, RestoreEntry(x)
      PROVE  ProgramTypeOK'
  <2>1. cur \in Dir /\ x \in DOMAIN backup[cur] /\ backup[cur] # None
    BY <1>2 DEF RestoreEntry, At, HolderOK, FirstOf, ToRestore
  <2>2. backup[cur][x] \in Files
    BY <2>1 DEF ProgramTypeOK
  <2>3. boot' \in [Entry -> Files]
    BY <1>2, <2>2 DEF RestoreEntry, ProgramTypeOK
  <2> QED
    BY <1>2, <2>3 DEF RestoreEntry, ProgramTypeOK
<1>3. CASE RestoreState
  <2>1. cur \in Dir /\ ~Fresh(cur)
    BY <1>3 DEF RestoreState, At, HolderOK
  <2>2. journal' \in [Dir -> Journals]
    <3>1. CASE Phase(cur, "removed")
      BY <2>1, <3>1, PhaseStep DEF Phases, Gone
    <3> QED
      BY <1>1, <1>3, <3>1 DEF RestoreState, JournalType
  <2>3. state' \in States
    BY <1>1, <1>3, <2>1 DEF RestoreState, JournalType, Journals
  <2>4. pc' \in {"dropGeneration", "recover", "idle"} /\ cur' \in {cur, None} /\ todo' \in {todo, {}}
    BY <1>3 DEF RestoreState, Idle, Goto
  <2> QED
    BY <1>3, <2>2, <2>3, <2>4 DEF RestoreState, ProgramTypeOK, Journals, Phases
<1>4. CASE RestoreFails
  <2>1. faults' \in 0 .. MaxFaults
    BY <1>4, InstallAssumption DEF RestoreFails, Fault, ProgramTypeOK
  <2>2. CASE Recovering
    BY <1>4, <2>1, <2>2, RecoverEndType DEF RestoreFails, ProgramTypeOK, ProcType, disk
  <2>3. CASE ~Recovering
    BY <1>4, <2>1, <2>3 DEF RestoreFails, Idle, Goto, ProgramTypeOK, disk
  <2> QED
    BY <2>2, <2>3
<1>5. CASE DropGeneration
  BY <1>5 DEF DropGeneration, Goto, ProgramTypeOK
<1>6. CASE Mark
  <2>1. journal' \in [Dir -> Journals]
    BY <1>6, PhaseStep DEF Mark, At, HolderOK, Phases, Terminal
  <2>2. pc' \in {"recover", "idle"} /\ cur' \in {cur, None} /\ todo' \in {todo, {}}
    BY <1>6 DEF Mark, Idle, Goto
  <2> QED
    BY <1>6, <2>1, <2>2 DEF Mark, ProgramTypeOK, Journals, Phases
<1>7. CASE Crash
  <2>1. faults' \in 0 .. MaxFaults
    BY <1>7, InstallAssumption DEF Crash, Fault, ProgramTypeOK
  <2>2. ProcType'
    BY <1>7 DEF Crash, ProcType, NoProc, ProgramTypeOK
  <2> QED
    BY <1>7, <2>1, <2>2 DEF Crash, Idle, Goto, ProgramTypeOK, ProcType, disk
<1>8. CASE Corrupt
  <2>1. faults' \in 0 .. MaxFaults
    BY <1>8, InstallAssumption DEF Corrupt, Fault, ProgramTypeOK
  <2>2. state.gen \in Gen
    BY <1>8 DEF Corrupt, ProgramTypeOK, States
  <2> QED
    BY <1>8, <2>1, <2>2 DEF Corrupt, ProgramTypeOK
<1>9. ASSUME NEW d \in Dir, LoseBackup(d)
      PROVE  ProgramTypeOK'
  <2>1. faults' \in 0 .. MaxFaults
    BY <1>9, InstallAssumption DEF LoseBackup, Fault, ProgramTypeOK
  <2>2. \A e \in Dir : backup'[e] = None \/ backup'[e] = backup[e]
    BY <1>9 DEF LoseBackup
  <2>3. \A e \in Dir : backup'[e] = None
           \/ \E layout \in Layouts : backup'[e] \in [Managed(layout) -> Files]
    BY <2>2 DEF ProgramTypeOK
  <2> QED
    BY <1>9, <2>1, <2>3 DEF LoseBackup, ProgramTypeOK
<1> QED
  BY <1>2, <1>3, <1>4, <1>5, <1>6, <1>7, <1>8, <1>9 DEF Restore, Accident

(***************************************************************************)
(* Steps that change neither the state nor the generations.                *)
(***************************************************************************)

(* What a journal says of its transaction outlives its phases.             *)
LEMMA JournalsKept ==
  ASSUME ProgramTypeOK, JournalOK, SameJournals
  PROVE  /\ JournalOK'
         /\ \A d \in Dir : /\ Own(d)' <=> Own(d)
                           /\ Prev(d)' = Prev(d) /\ Cand(d)' = Cand(d)
<1>1. \A d \in Dir : /\ Own(d)' <=> Own(d)
                     /\ Prev(d)' = Prev(d) /\ Cand(d)' = Cand(d)
  BY DEF SameJournals, Own, Prev, Cand
<1>2. \A d \in Dir : journal[d].over \subseteq Dir
  BY DEF ProgramTypeOK
<1>3. JournalOK'
  <2> SUFFICES ASSUME NEW d \in Dir
               PROVE  /\ journal'[d].kind = "none" => Fresh(d)'
                      /\ ~Fresh(d)' => Cand(d)' \in [gen : Gen, layout : Layouts]
                      /\ Own(d)' => Cand(d).gen' = d
                      /\ journal'[d].kind = "migrate"
                           => Prev(d)' # None /\ Cand(d).gen' = Prev(d).gen'
                      /\ \A e \in journal'[d].over : Own(e)'
    BY DEF JournalOK
  <2> QED
    BY <1>1, <1>2 DEF JournalOK, SameJournals
<1> QED
  BY <1>1, <1>3

(* Phases that only leave "ready" keep what is unused.                     *)
LEMMA UnusedKept ==
  ASSUME ProgramTypeOK, JournalOK, UnusedOK, SameJournals, UNCHANGED state, gens' \subseteq gens,
         \A d \in Dir : journal'[d].phase = "ready" => journal[d].phase = "ready"
  PROVE  UnusedOK'
BY JournalsKept DEF UnusedOK, NeverUsed, SameJournals

(* The order of the generations does not depend on phases, and what comes  *)
(* behind a complete transaction only on the state.                        *)
LEMMA TimelineKept ==
  ASSUME ProgramTypeOK, JournalOK, SameJournals, UNCHANGED state,
         pc' \in {"backup", "replace", "verify"} =>
           pc \in {"backup", "replace", "verify"} /\ cur' = cur,
         \A d \in Dir : Settled(d)' => Settled(d),
         NEW rank \in [Gen -> Nat], NEW n \in Nat, Timeline(rank, n), Forward(rank),
         cur \in Dir \/ pc' \notin {"backup", "replace", "verify"}
  PROVE  Timeline(rank, n)' /\ Forward(rank)'
<1>1. \A d \in Dir : /\ Own(d)' <=> Own(d) /\ Prev(d)' = Prev(d)
                     /\ journal'[d].over = journal[d].over
  BY JournalsKept DEF SameJournals
<1>2. Timeline(rank, n)'
  BY <1>1 DEF Timeline
<1>3. Forward(rank)'
  BY <1>1 DEF Forward
<1> QED
  BY <1>2, <1>3

(* Together: a step of this kind keeps the invariant of the journals.      *)
LEMMA QuietStep ==
  ASSUME InstallInv, SameJournals, UNCHANGED <<state, gens>>,
         pc' \in {"backup", "replace", "verify"} =>
           pc \in {"backup", "replace", "verify"} /\ cur' = cur,
         \A d \in Dir : journal'[d].phase = "ready" => journal[d].phase = "ready",
         \A d \in Dir : Settled(d)' => Settled(d)
  PROVE  JournalOK' /\ UnusedOK' /\ History'
<1>1. ProgramTypeOK /\ JournalOK /\ UnusedOK /\ HolderOK /\ History
  BY DEF InstallInv
<1>2. JournalOK' /\ \A d \in Dir : (Own(d)' <=> Own(d)) /\ Prev(d)' = Prev(d)
  BY <1>1, JournalsKept
<1>3. UnusedOK'
  BY <1>1, UnusedKept
<1>4. History'
  <2>1. PICK rank \in [Gen -> Nat], n \in Nat :
          Timeline(rank, n) /\ Forward(rank) /\ \E L \in SUBSET Gen : Lineage(L)
    BY <1>1 DEF History
  <2>2. PICK L \in SUBSET Gen : Lineage(L)
    BY <2>1
  <2>3. pc' \in {"backup", "replace", "verify"} => cur \in Dir
    BY <1>1 DEF HolderOK
  <2>4. Timeline(rank, n)' /\ Forward(rank)'
    BY <1>1, <2>1, <2>3, TimelineKept
  <2>5. Lineage(L)'
    BY <1>2, <2>2 DEF Lineage
  <2> QED
    BY <2>4, <2>5 DEF History
<1> QED
  BY <1>2, <1>3, <1>4

(* The generation of a transaction that failed, or that is undone, goes:   *)
(* nothing that is active descends from it.                                *)
LEMMA DropStep ==
  ASSUME InstallInv, cur \in Dir, Own(cur), state = Prev(cur) \/ NeverUsed(cur),
         gens' = gens \ {cur}, SameJournals, UNCHANGED state,
         pc' \notin {"backup", "replace", "verify"},
         \A d \in Dir : journal'[d].phase = "ready" => journal[d].phase = "ready",
         \A d \in Dir : Settled(d)' => Settled(d)
  PROVE  JournalOK' /\ UnusedOK' /\ History'
<1>1. ProgramTypeOK /\ JournalOK /\ UnusedOK /\ HolderOK /\ History
  BY DEF InstallInv
<1>2. JournalOK' /\ \A d \in Dir : (Own(d)' <=> Own(d)) /\ Prev(d)' = Prev(d)
  BY <1>1, JournalsKept
<1>3. UnusedOK'
  BY <1>1, UnusedKept
<1>4. PICK rank \in [Gen -> Nat], n \in Nat :
        Timeline(rank, n) /\ Forward(rank) /\ \E L \in SUBSET Gen : Lineage(L)
  BY <1>1 DEF History
<1>5. PICK L \in SUBSET Gen : Lineage(L)
  BY <1>4
<1>6. Timeline(rank, n)' /\ Forward(rank)'
  BY <1>1, <1>4, TimelineKept
<1>7. \E K \in SUBSET Gen : Lineage(K)'
  <2>1. CASE NeverUsed(cur)
    <3>1. PICK K \in SUBSET Gen : K = L \ {cur}
      OBVIOUS
    <3>2. Lineage(K)'
      BY <1>2, <1>5, <2>1, <3>1 DEF Lineage, NeverUsed
    <3> QED
      BY <3>2
  <2>2. CASE state = None
    <3>1. Lineage({})'
      BY <2>2 DEF Lineage
    <3> QED
      BY <3>1
  <2>3. CASE state = Prev(cur) /\ state # None
    <3> DEFINE K == {g \in L : rank[g] <= rank[state.gen]}
    <3>1. state.gen \in Gen /\ rank[state.gen] < rank[cur]
      BY <1>1, <1>4, <2>3 DEF Timeline, ProgramTypeOK, States
    <3>2. rank[state.gen] \in Nat /\ rank[cur] \in Nat
      BY <3>1 DEF Gen
    <3>3. cur \notin K
      BY <3>1, <3>2
    <3>4. K \subseteq gens' /\ state.gen \in K
      BY <1>5, <2>3, <3>2, <3>3 DEF Lineage
    <3>5. ASSUME NEW d \in K \cap Dir, Own(d), Prev(d) # None
          PROVE  Prev(d).gen \in K
      <4>1. Prev(d).gen \in L /\ rank[Prev(d).gen] < rank[d] /\ rank[d] <= rank[state.gen]
        BY <1>4, <1>5, <3>5 DEF Lineage, Timeline
      <4>2. Prev(d).gen \in Gen /\ d \in Gen
        BY <4>1, <3>5
      <4>3. rank[Prev(d).gen] \in Nat /\ rank[d] \in Nat
        BY <4>2
      <4>4. rank[Prev(d).gen] <= rank[state.gen]
        BY <3>2, <4>1, <4>3
      <4> QED
        BY <4>1, <4>4
    <3>6. Lineage(K)'
      BY <1>2, <3>4, <3>5 DEF Lineage
    <3> QED
      BY <3>6
  <2> QED
    BY <2>1, <2>2, <2>3
<1>8. History'
  BY <1>6, <1>7 DEF History
<1> QED
  BY <1>2, <1>3, <1>8

(***************************************************************************)
(* Transactions.                                                           *)
(***************************************************************************)

(* A new transaction is the latest, and starts from the active state.      *)
LEMMA BeginKeeps ==
  ASSUME InstallInv, NEW d \in Dir, NEW layout \in Layouts,
         Migrate(d) \/ Apply(d) \/ Install(d, layout)
  PROVE  JournalOK' /\ UnusedOK' /\ HolderOK' /\ History'
<1>1. ProgramTypeOK /\ JournalOK /\ UnusedOK /\ HolderOK /\ History
  BY DEF InstallInv
<1>2. PICK kind \in Kinds, cand \in [gen : Gen, layout : Layouts], over \in SUBSET Dir :
        /\ Begin(d, kind, cand, over)
        /\ kind # "migrate" => cand.gen = d
        /\ kind = "migrate" => state # None /\ cand.gen = state.gen
        /\ \A e \in over : Own(e)
  BY <1>1, Beginnings
<1>3. /\ journal'[d].kind = kind /\ Prev(d)' = state
      /\ Cand(d)' = cand /\ journal'[d].over = over
      /\ journal'[d].phase = IF kind = "migrate" THEN "unwritten" ELSE "ready"
      /\ ~Fresh(d)'
      /\ \A e \in Dir \ {d} : journal'[e] = journal[e]
  BY <1>1, <1>2, BeginStep DEF Prev, Cand
<1>4. /\ Fresh(d) /\ NeverUsed(d) /\ d \notin gens
      /\ UNCHANGED state /\ gens' = gens \cup {cand.gen}
      /\ pc' = "backup" /\ cur' = d /\ proc' \in {NoProc, proc}
  BY <1>1, <1>2 DEF UnusedOK, Begin, Goto, Migrate, Apply, Install
<1>5. ~Own(d) /\ (Own(d)' <=> kind # "migrate")
  BY <1>3, <1>4 DEF Own, Fresh, NoJournal, Kinds
<1>6. \A e \in Dir \ {d} : /\ Own(e)' <=> Own(e)
                           /\ Prev(e)' = Prev(e) /\ Cand(e)' = Cand(e)
                           /\ Fresh(e)' <=> Fresh(e)
                           /\ Settled(e)' <=> Settled(e)
  BY <1>3 DEF Own, Prev, Cand, Fresh, Settled
<1>7. JournalOK'
  <2>1. \A e \in Dir : journal[e].over \subseteq Dir
    BY <1>1 DEF ProgramTypeOK
  <2>2. \A e \in Dir : Own(e) => Own(e)'
    BY <1>5, <1>6
  <2> SUFFICES ASSUME NEW e \in Dir
               PROVE  /\ journal'[e].kind = "none" => Fresh(e)'
                      /\ ~Fresh(e)' => Cand(e)' \in [gen : Gen, layout : Layouts]
                      /\ Own(e)' => Cand(e).gen' = e
                      /\ journal'[e].kind = "migrate"
                           => Prev(e)' # None /\ Cand(e).gen' = Prev(e).gen'
                      /\ \A f \in journal'[e].over : Own(f)'
    BY DEF JournalOK
  <2>3. CASE e = d
    BY <1>2, <1>3, <1>5, <2>2, <2>3 DEF Kinds
  <2>4. CASE e # d
    BY <1>1, <1>3, <1>6, <2>1, <2>2, <2>4 DEF JournalOK
  <2> QED
    BY <2>3, <2>4
<1>8. UnusedOK'
  <2>1. \A x \in Dir : NeverUsed(x) => NeverUsed(x)'
    <3> SUFFICES ASSUME NEW x \in Dir, NeverUsed(x), NEW e \in Dir, Prev(e)' # None
                 PROVE  Prev(e).gen' # x
      BY <1>4 DEF NeverUsed
    <3> QED
      BY <1>3, <1>6 DEF NeverUsed
  <2>2. \A x \in Dir \ {d} : Fresh(x) => x # cand.gen
    BY <1>1, <1>2, <1>4 DEF UnusedOK, NeverUsed, Kinds
  <2>3. \A x \in Dir : Fresh(x)' => NeverUsed(x)' /\ x \notin gens'
    BY <1>1, <1>3, <1>4, <1>6, <2>1, <2>2 DEF UnusedOK
  <2>4. \A x \in Dir : Own(x)' /\ journal'[x].phase = "ready" => NeverUsed(x)'
    BY <1>1, <1>3, <1>4, <1>6, <2>1 DEF UnusedOK
  <2> QED
    BY <2>3, <2>4 DEF UnusedOK
<1>9. HolderOK'
  <2>1. Recovering' => proc'.who # "none"
    BY <1>1, <1>4 DEF HolderOK, Recovering, NoProc
  <2>2. Cand(cur).gen' \in gens'
    BY <1>3, <1>4 DEF Cand
  <2>3. state' = Prev(cur)' /\ (Own(cur)' => journal'[cur'].phase = "ready")
    BY <1>3, <1>4, <1>5 DEF Prev, Own
  <2> QED
    BY <1>3, <1>4, <2>1, <2>2, <2>3 DEF HolderOK
<1>10. History'
  <2>1. PICK rank \in [Gen -> Nat], n \in Nat :
          Timeline(rank, n) /\ Forward(rank) /\ \E L \in SUBSET Gen : Lineage(L)
    BY <1>1 DEF History
  <2>2. PICK L \in SUBSET Gen : Lineage(L)
    BY <2>1
  <2>3. Lineage(L)'
    BY <1>3, <1>4, <1>6, <2>2 DEF Lineage
  <2>4. PICK late \in [Gen -> Nat] : late = [rank EXCEPT ![d] = n + 1]
    <3>1. n + 1 \in Nat
      OBVIOUS
    <3>2. \A m \in Nat : [rank EXCEPT ![d] = m] \in [Gen -> Nat]
      OBVIOUS
    <3>3. [rank EXCEPT ![d] = n + 1] \in [Gen -> Nat]
      BY <3>1, <3>2
    <3> QED
      BY <3>3
  <2>5. /\ late[d] = n + 1 /\ n + 1 \in Nat /\ d \in Gen
        /\ \A g \in Gen : g # d => late[g] = rank[g]
    BY <2>4 DEF Gen
  <2>6. \A e \in Dir : Own(e) => rank[e] <= n /\ e # d
    BY <1>5, <2>1 DEF Timeline
  <2>7. state # None => state.gen \in Gen /\ state.gen # d /\ late[state.gen] = rank[state.gen]
    BY <1>1, <1>4, <2>5 DEF ProgramTypeOK, States, NeverUsed
  <2>8. \A e \in Dir : Prev(e) # None =>
          Prev(e).gen \in Gen /\ Prev(e).gen # d /\ late[Prev(e).gen] = rank[Prev(e).gen]
    BY <1>1, <1>4, <2>5 DEF ProgramTypeOK, States, NeverUsed, Prev
  <2>9. \A g \in Gen : rank[g] \in Nat /\ late[g] \in Nat
    OBVIOUS
  <2>10. \A e \in Dir : e \in Gen /\ (Own(e) => late[e] = rank[e])
    BY <2>5, <2>6 DEF Gen
  <2>11. Timeline(late, n + 1)'
    <3>1. state' # None => late[state'.gen] <= n + 1
      BY <1>4, <2>1, <2>7, <2>9 DEF Timeline
    <3> SUFFICES ASSUME NEW e \in Dir, Own(e)'
                 PROVE  /\ late[e] <= n + 1
                        /\ Prev(e)' # None => late[Prev(e).gen'] < late[e]
                        /\ \A f \in journal'[e].over : late[f] < late[e]
                        /\ \A f \in Dir : Own(f)' /\ f # e => late[f] # late[e]
                        /\ Own(cur)' => late[e] <= late[cur']
      BY <3>1 DEF Timeline
    <3>2. CASE e = d
      <4>1. Prev(e)' # None => late[Prev(e).gen'] < late[e]
        BY <1>3, <2>1, <2>5, <2>7, <2>9, <3>2 DEF Timeline
      <4>2. \A f \in journal'[e].over : late[f] < late[e]
        BY <1>2, <1>3, <2>5, <2>6, <2>9, <2>10, <3>2
      <4>3. \A f \in Dir : Own(f)' /\ f # e => late[f] # late[e]
        BY <1>6, <2>5, <2>6, <2>9, <2>10, <3>2
      <4> QED
        BY <1>4, <2>5, <3>2, <4>1, <4>2, <4>3
    <3>3. CASE e # d
      <4>1. Own(e) /\ late[e] = rank[e] /\ rank[e] \in Nat /\ rank[e] <= n
        BY <1>6, <2>6, <2>9, <2>10, <3>3
      <4>2. Prev(e)' # None => late[Prev(e).gen'] < late[e]
        BY <1>6, <2>1, <2>8, <3>3, <4>1 DEF Timeline
      <4>3. \A f \in journal'[e].over : late[f] < late[e]
        <5>1. journal'[e].over = journal[e].over /\ journal[e].over \subseteq Dir
          BY <1>1, <1>3, <3>3 DEF ProgramTypeOK
        <5>2. \A f \in journal[e].over : Own(f) /\ rank[f] < rank[e]
          BY <1>1, <2>1, <4>1 DEF JournalOK, Timeline
        <5> QED
          BY <2>10, <4>1, <5>1, <5>2
      <4>4. \A f \in Dir : Own(f)' /\ f # e => late[f] # late[e]
        BY <1>6, <2>1, <2>5, <2>10, <4>1 DEF Timeline
      <4> QED
        BY <1>4, <2>5, <4>1, <4>2, <4>3, <4>4
    <3> QED
      BY <3>2, <3>3
  <2>12. Forward(late)'
    <3> SUFFICES ASSUME NEW i \in Dir, Settled(i)'
                 PROVE  /\ state' # None /\ late[i] <= late[state'.gen]
                        /\ \A c \in Dir : Own(c)' /\ late[i] < late[c]
                             => Prev(c)' # None /\ late[i] <= late[Prev(c).gen']
      BY DEF Forward
    <3>1. i # d
      BY <1>3 DEF Settled
    <3>2. Settled(i) /\ Own(i) /\ late[i] = rank[i]
      BY <1>6, <2>10, <3>1 DEF Settled
    <3>3. state # None /\ rank[i] <= rank[state.gen]
      BY <2>1, <3>2 DEF Forward
    <3>4. ASSUME NEW c \in Dir, Own(c)', late[i] < late[c]
          PROVE  Prev(c)' # None /\ late[i] <= late[Prev(c).gen']
      <4>1. CASE c = d
        BY <1>3, <2>7, <3>2, <3>3, <4>1
      <4>2. CASE c # d
        BY <1>6, <2>1, <2>8, <2>10, <3>2, <3>4, <4>2 DEF Forward
      <4> QED
        BY <4>1, <4>2
    <3> QED
      BY <1>4, <2>7, <3>2, <3>3, <3>4
  <2> QED
    BY <2>3, <2>11, <2>12 DEF History
<1> QED
  BY <1>7, <1>8, <1>9, <1>10

(* While entries are replaced, and before, only the journal moves on.      *)
LEMMA WorkKeeps ==
  ASSUME InstallInv,
         \/ InstallRefused \/ MigrateRefused \/ Backup \/ Clean
         \/ \E x \in Entry : Replace(x)
  PROVE  JournalOK' /\ UnusedOK' /\ HolderOK' /\ History'
<1>1. ProgramTypeOK /\ JournalOK /\ HolderOK
  BY DEF InstallInv
<1>2. CASE InstallRefused \/ MigrateRefused
  <2>1. UNCHANGED <<disk, pc, cur>> /\ proc' = NoProc /\ At("idle")
    BY <1>2 DEF InstallRefused, MigrateRefused
  <2>2. SameJournals /\ \A d \in Dir : journal'[d] = journal[d]
    BY <2>1, NoPhaseStep DEF disk
  <2>3. HolderOK'
    BY <1>1, <2>1 DEF HolderOK, At, Recovering, NoProc
  <2> QED
    BY <2>1, <2>2, <2>3, QuietStep DEF disk, Settled, Own
<1>3. ASSUME NEW x \in Entry, Replace(x)
      PROVE  JournalOK' /\ UnusedOK' /\ HolderOK' /\ History'
  <2>1. UNCHANGED <<state, gens, journal, pc, cur, proc>>
    BY <1>3 DEF Replace
  <2>2. SameJournals /\ \A d \in Dir : journal'[d] = journal[d]
    BY <2>1, NoPhaseStep
  <2>3. HolderOK'
    BY <1>1, <2>1 DEF HolderOK, Own, Prev, Cand, Fresh, Recovering, NeverUsed
  <2> QED
    BY <2>1, <2>2, <2>3, QuietStep DEF Settled, Own
<1>4. CASE Backup
  <2>1. /\ UNCHANGED <<state, gens, proc, cur>> /\ pc = "backup" /\ pc' = "replace"
        /\ cur \in Dir /\ ~Fresh(cur) /\ Phase(cur, "intent")
    BY <1>1, <1>4 DEF Backup, At, Goto, HolderOK
  <2>2. /\ SameJournals /\ journal'[cur].phase = "intent"
        /\ \A d \in Dir \ {cur} : journal'[d] = journal[d]
    BY <1>1, <2>1, PhaseStep DEF Phases
  <2>3. \A d \in Dir : /\ journal'[d].phase = "ready" => journal[d].phase = "ready"
                       /\ Settled(d)' => Settled(d)
    BY <2>2 DEF Settled, Own
  <2>4. HolderOK'
    BY <1>1, <2>1, <2>2 DEF HolderOK, SameJournals, Prev, Cand, Recovering
  <2> QED
    BY <2>1, <2>2, <2>3, <2>4, QuietStep
<1>5. CASE Clean
  <2>1. /\ UNCHANGED <<state, gens, proc>> /\ pc = "clean" /\ pc' = "idle"
        /\ cur \in Dir /\ journal[cur].phase = "complete"
    BY <1>1, <1>5 DEF Clean, At, Idle, Goto, HolderOK
  <2>2. /\ SameJournals
        /\ \A d \in Dir :
             \/ journal'[d].phase \in {journal[d].phase, "removed"}
             \/ d = cur /\ journal'[d].phase = "cleaned"
    BY <1>1, <1>5, CleanStep
  <2>3. \A d \in Dir : /\ journal'[d].phase = "ready" => journal[d].phase = "ready"
                       /\ Settled(d)' => Settled(d)
    BY <2>1, <2>2 DEF Settled, Own, SameJournals
  <2>4. HolderOK'
    BY <1>1, <2>1 DEF HolderOK, Recovering
  <2> QED
    BY <2>1, <2>2, <2>3, <2>4, QuietStep
<1> QED
  BY <1>2, <1>3, <1>4, <1>5

(* A step fails: without a backup the new generation goes at once.         *)
LEMMA FailKeeps ==
  ASSUME InstallInv, Fail
  PROVE  JournalOK' /\ UnusedOK' /\ HolderOK' /\ History'
<1>1. ProgramTypeOK /\ JournalOK /\ HolderOK
  BY DEF InstallInv
<1>2. /\ cur \in Dir /\ ~Fresh(cur) /\ UNCHANGED <<state, proc>>
      /\ pc' \notin {"backup", "replace", "verify"}
  BY <1>1 DEF Fail, At, HolderOK, Idle, Goto
<1>3. CASE At("backup") /\ journal[cur].kind = "migrate"
  <2>1. UNCHANGED gens /\ pc' = "idle" /\ Phase(cur, "removed")
    BY <1>3 DEF Fail, Idle, Goto
  <2>2. /\ SameJournals /\ journal'[cur].phase = "removed"
        /\ \A d \in Dir \ {cur} : journal'[d] = journal[d]
    BY <1>1, <1>2, <2>1, PhaseStep DEF Phases, Gone
  <2>3. \A d \in Dir : /\ journal'[d].phase = "ready" => journal[d].phase = "ready"
                       /\ Settled(d)' => Settled(d)
    BY <2>2 DEF Settled, Own
  <2>4. HolderOK'
    BY <1>1, <1>2, <2>1 DEF HolderOK, Recovering
  <2> QED
    BY <1>2, <2>1, <2>2, <2>3, <2>4, QuietStep
<1>4. CASE At("backup") /\ journal[cur].kind # "migrate"
  <2>1. gens' = gens \ {cur} /\ pc' = "idle" /\ Phase(cur, "ready")
    BY <1>4 DEF Fail, Idle, Goto
  <2>2. Own(cur) /\ state = Prev(cur) /\ journal[cur].phase = "ready"
    BY <1>1, <1>2, <1>4 DEF HolderOK, At, JournalOK, Own, ProgramTypeOK, Kinds
  <2>3. /\ SameJournals /\ journal'[cur].phase = "ready"
        /\ \A d \in Dir \ {cur} : journal'[d] = journal[d]
    BY <1>1, <1>2, <2>1, PhaseStep DEF Phases
  <2>4. \A d \in Dir : /\ journal'[d].phase = "ready" => journal[d].phase = "ready"
                       /\ Settled(d)' => Settled(d)
    BY <2>2, <2>3 DEF Settled, Own
  <2>5. HolderOK'
    BY <1>1, <1>2, <2>1 DEF HolderOK, Recovering
  <2> QED
    BY <1>2, <2>1, <2>2, <2>3, <2>4, <2>5, DropStep
<1>5. CASE ~At("backup")
  <2>1. UNCHANGED <<gens, journal, cur>> /\ pc' = "restore" /\ pc \in {"replace", "verify"}
    BY <1>5 DEF Fail, At, Goto
  <2>2. SameJournals /\ \A d \in Dir : journal'[d] = journal[d]
    BY <2>1, NoPhaseStep
  <2>3. HolderOK'
    BY <1>1, <1>2, <2>1 DEF HolderOK, Own, Prev, Cand, Fresh, Recovering
  <2> QED
    BY <1>2, <2>1, <2>2, <2>3, QuietStep DEF Settled, Own
<1> QED
  BY <1>3, <1>4, <1>5

(* The state is switched to the latest generation.                         *)
LEMMA WriteStateKeeps ==
  ASSUME InstallInv, WriteState
  PROVE  JournalOK' /\ UnusedOK' /\ HolderOK' /\ History'
<1>1. ProgramTypeOK /\ JournalOK /\ UnusedOK /\ HolderOK /\ History
  BY DEF InstallInv
<1>2. /\ cur \in Dir /\ ~Fresh(cur) /\ state = Prev(cur) /\ journal[cur].phase = "intent"
      /\ Cand(cur).gen \in gens /\ Cand(cur) \in [gen : Gen, layout : Layouts]
      /\ state' = Cand(cur) /\ pc = "replace" /\ pc' = "verify"
      /\ UNCHANGED <<gens, journal, cur, proc>>
  BY <1>1 DEF WriteState, At, Goto, HolderOK, JournalOK, Cand
<1>3. SameJournals /\ \A d \in Dir : journal'[d] = journal[d]
  BY <1>2, NoPhaseStep
<1>4. /\ JournalOK'
      /\ \A d \in Dir : /\ Own(d)' <=> Own(d)
                        /\ Prev(d)' = Prev(d) /\ Cand(d)' = Cand(d)
                        /\ Fresh(d)' <=> Fresh(d)
                        /\ Settled(d)' <=> Settled(d)
  BY <1>1, <1>3, JournalsKept DEF Settled, SameJournals, Own
<1>5. state' # None /\ state'.gen = Cand(cur).gen
  BY <1>2, InstallAssumption DEF Gen, Layouts
<1>6. \/ Own(cur) /\ state'.gen = cur
      \/ ~Own(cur) /\ state # None /\ state'.gen = state.gen
  BY <1>1, <1>2, <1>5 DEF JournalOK, Own, ProgramTypeOK, Kinds
<1>7. UnusedOK'
  <2>1. \A x \in Dir : NeverUsed(x) /\ (x = cur => ~Own(cur)) => NeverUsed(x)'
    BY <1>4, <1>6 DEF NeverUsed
  <2>2. \A x \in Dir : Fresh(x) => x # cur
    BY <1>2
  <2>3. \A x \in Dir : journal[x].phase = "ready" => x # cur
    BY <1>2
  <2> QED
    BY <1>1, <1>2, <1>3, <1>4, <2>1, <2>2, <2>3 DEF UnusedOK
<1>8. HolderOK'
  BY <1>1, <1>2, <1>3, <1>4 DEF HolderOK, Recovering
<1>9. History'
  <2>1. PICK rank \in [Gen -> Nat], n \in Nat :
          Timeline(rank, n) /\ Forward(rank) /\ \E L \in SUBSET Gen : Lineage(L)
    BY <1>1 DEF History
  <2>2. PICK L \in SUBSET Gen : Lineage(L)
    BY <2>1
  <2>3. \E K \in SUBSET Gen : Lineage(K)'
    <3>1. PICK K \in SUBSET Gen : K = L \cup {state'.gen}
      <4>1. L \cup {state'.gen} \in SUBSET Gen
        BY <1>2, <1>5
      <4> QED
        BY <4>1
    <3>2. Lineage(K)'
      BY <1>2, <1>4, <1>5, <1>6, <2>2, <3>1 DEF Lineage
    <3> QED
      BY <3>2
  <2>4. rank[state'.gen] <= n
    BY <1>2, <1>6, <2>1 DEF Timeline
  <2>5. Timeline(rank, n)'
    BY <1>2, <1>3, <1>4, <2>1, <2>4 DEF Timeline
  <2>6. ASSUME NEW i \in Dir, Settled(i)
        PROVE  rank[i] <= rank[state'.gen]
    BY <1>2, <1>6, <2>1, <2>6 DEF Timeline, Forward, Settled
  <2>7. Forward(rank)'
    BY <1>4, <1>5, <2>1, <2>6 DEF Forward
  <2> QED
    BY <2>3, <2>5, <2>7 DEF History
<1> QED
  BY <1>4, <1>7, <1>8, <1>9

(* The latest transaction is complete: nothing later started before it.    *)
LEMMA FinishKeeps ==
  ASSUME InstallInv, Finish
  PROVE  JournalOK' /\ UnusedOK' /\ HolderOK' /\ History'
<1>1. ProgramTypeOK /\ JournalOK /\ UnusedOK /\ HolderOK /\ History
  BY DEF InstallInv
<1>2. /\ cur \in Dir /\ ~Fresh(cur) /\ state = Cand(cur) /\ pc = "verify" /\ pc' = "clean"
      /\ Phase(cur, "complete") /\ UNCHANGED <<state, gens, proc, cur>> /\ state # None
  BY <1>1 DEF Finish, At, Goto, HolderOK, Intact, Baseline, Trusted
<1>3. /\ SameJournals /\ journal'[cur].phase = "complete"
      /\ \A d \in Dir \ {cur} : journal'[d] = journal[d]
  BY <1>1, <1>2, PhaseStep DEF Phases, Terminal
<1>4. /\ JournalOK'
      /\ \A d \in Dir : /\ Own(d)' <=> Own(d)
                        /\ Prev(d)' = Prev(d) /\ Cand(d)' = Cand(d)
                        /\ d # cur => (Settled(d)' <=> Settled(d))
  BY <1>1, <1>3, JournalsKept DEF Settled, Own
<1>5. UnusedOK'
  <2>1. \A d \in Dir : journal'[d].phase = "ready" => journal[d].phase = "ready"
    BY <1>3
  <2> QED
    BY <1>1, <1>2, <1>3, <2>1, UnusedKept
<1>6. HolderOK'
  BY <1>1, <1>2, <1>3 DEF HolderOK, Recovering, SameJournals
<1>7. History'
  <2>1. PICK rank \in [Gen -> Nat], n \in Nat :
          Timeline(rank, n) /\ Forward(rank) /\ \E L \in SUBSET Gen : Lineage(L)
    BY <1>1 DEF History
  <2>2. PICK L \in SUBSET Gen : Lineage(L)
    BY <2>1
  <2>3. Lineage(L)'
    BY <1>2, <1>4, <2>2 DEF Lineage
  <2>4. Timeline(rank, n)'
    BY <1>2, <1>3, <1>4, <2>1 DEF Timeline, SameJournals
  <2>5. ASSUME Own(cur)
        PROVE  /\ rank[cur] <= rank[state.gen]
               /\ \A c \in Dir : Own(c) => ~(rank[cur] < rank[c])
    <3>1. state.gen = cur /\ cur \in Gen
      BY <1>1, <1>2, <2>5 DEF JournalOK, Gen
    <3>2. rank[cur] \in Nat /\ \A c \in Dir : rank[c] \in Nat
      BY <3>1 DEF Gen
    <3> QED
      BY <1>2, <2>1, <2>5, <3>1, <3>2 DEF Timeline
  <2>6. Forward(rank)'
    <3> SUFFICES ASSUME NEW i \in Dir, Settled(i)'
                 PROVE  /\ state # None /\ rank[i] <= rank[state.gen]
                        /\ \A c \in Dir : Own(c) /\ rank[i] < rank[c]
                             => Prev(c) # None /\ rank[i] <= rank[Prev(c).gen]
      BY <1>2, <1>4 DEF Forward
    <3>1. CASE i = cur
      BY <1>2, <1>4, <2>5, <3>1 DEF Settled
    <3>2. CASE i # cur
      BY <1>4, <2>1, <3>2 DEF Forward
    <3> QED
      BY <3>1, <3>2
  <2> QED
    BY <2>3, <2>4, <2>6 DEF History
<1> QED
  BY <1>4, <1>5, <1>6, <1>7

(***************************************************************************)
(* Recovery, restoration, accidents.                                       *)
(***************************************************************************)

(* A recovery that looks on, or ends, touches no state and no generation.  *)
LEMMA RecoverKeeps ==
  ASSUME InstallInv, Recover
  PROVE  JournalOK' /\ UnusedOK' /\ HolderOK' /\ History'
<1>1. ProgramTypeOK /\ JournalOK /\ UnusedOK /\ HolderOK
  BY DEF InstallInv
<1>2. ASSUME UNCHANGED <<state, gens, journal>>, HolderOK',
             pc' \notin {"backup", "replace", "verify"}
      PROVE  JournalOK' /\ UnusedOK' /\ HolderOK' /\ History'
  <2>1. SameJournals /\ \A d \in Dir : journal'[d] = journal[d]
    BY <1>2, NoPhaseStep
  <2> QED
    BY <1>2, <2>1, QuietStep DEF Settled, Own
<1>3. ASSUME NEW who \in {"launch", "install", "migrate"}, RecoverStart(who)
      PROVE  JournalOK' /\ UnusedOK' /\ HolderOK' /\ History'
  <2>1. pc' = "recover" /\ proc' = [who |-> who, at |-> "recovering", failed |-> FALSE]
        /\ UNCHANGED disk
    BY <1>3 DEF RecoverStart, Goto
  <2>2. HolderOK'
    BY <2>1 DEF HolderOK, Recovering
  <2> QED
    BY <1>2, <2>1, <2>2 DEF disk
<1>4. ASSUME NEW d \in Dir, RecoverPass(d)
      PROVE  JournalOK' /\ UnusedOK' /\ HolderOK' /\ History'
  <2>1. pc = "recover" /\ UNCHANGED <<state, gens, pc, cur, proc>>
    BY <1>4 DEF RecoverPass, Examines, At
  <2>2. HolderOK'
    BY <1>1, <2>1 DEF HolderOK, Recovering
  <2>3. CASE UNCHANGED journal
    BY <1>2, <2>1, <2>2, <2>3
  <2>4. ASSUME NEW phase \in {"removed", "obsolete"}, ~Fresh(d), Phase(d, phase)
        PROVE  JournalOK' /\ UnusedOK' /\ HolderOK' /\ History'
    <3>1. /\ SameJournals /\ journal'[d].phase = phase
          /\ \A e \in Dir \ {d} : journal'[e] = journal[e]
      BY <1>1, <2>4, PhaseStep DEF Phases, Gone, Terminal
    <3>2. \A e \in Dir : /\ journal'[e].phase = "ready" => journal[e].phase = "ready"
                         /\ Settled(e)' => Settled(e)
      BY <3>1 DEF Settled, Own
    <3> QED
      BY <2>1, <2>2, <3>1, <3>2, QuietStep
  <2>5. Fresh(d) => ~Removable(d) /\ ~Obsolete(d)
    BY DEF Fresh, NoJournal, Removable, Obsolete, Pending, SetAside, Passed, Open, Gone
  <2> QED
    BY <1>4, <2>3, <2>4, <2>5 DEF RecoverPass
<1>5. ASSUME NEW d \in Dir, RecoverUndo(d)
      PROVE  JournalOK' /\ UnusedOK' /\ HolderOK' /\ History'
  <2>1. /\ cur' = d /\ pc' = Undo(d) /\ Undoable(d) /\ pc = "recover"
        /\ UNCHANGED <<disk, proc>>
    BY <1>5 DEF RecoverUndo, Goto, Examines, At
  <2>2. ~Fresh(d)
    BY <2>1 DEF Fresh, NoJournal, Undoable, Pending, SetAside, Open, Gone
  <2>3. UNCHANGED <<state, gens, journal>> /\ Recovering' /\ proc'.who # "none"
    BY <1>1, <2>1 DEF HolderOK, Recovering, disk
  <2>4. journal[d].kind # "migrate" =>
          Own(d) /\ (Open(d) \/ SetAside(d)) /\ ~Obsolete(d) /\ Pending(d)
    BY <1>1, <2>1, <2>2 DEF Undoable, Pending, Own, JournalOK, ProgramTypeOK, Kinds
  <2>5. CASE pc' = "dropGeneration"
    <3>1. journal[d].kind # "migrate" /\ (journal[d].phase = "ready" \/ state = Prev(d))
      BY <2>1, <2>5 DEF Undo, Prev
    <3>2. Own(d)' /\ (state' = Prev(d)' \/ NeverUsed(d)')
      BY <1>1, <2>3, <2>4, <3>1 DEF UnusedOK, Own, NeverUsed, Prev
    <3>3. HolderOK'
      BY <2>1, <2>2, <2>3, <2>5, <3>2 DEF HolderOK, Fresh
    <3> QED
      BY <1>2, <2>3, <2>5, <3>3
  <2>6. CASE pc' = "restore"
    <3>1. state \in {Prev(d), Cand(d)}
      <4>1. CASE journal[d].kind = "migrate"
        BY <2>1, <4>1 DEF Undoable, Prev
      <4>2. CASE journal[d].kind # "migrate"
        <5>1. journal[d].phase \in {"intent", "obsolete"}
          BY <1>1, <2>1, <2>4, <2>6, <4>2 DEF Undo, Open, SetAside, ProgramTypeOK
        <5>2. journal[d].kind = "install" => journal[d].phase = "intent"
          BY <2>4, <4>2, <5>1 DEF Open, SetAside, Terminal
        <5> QED
          BY <2>4, <4>2, <5>2 DEF Obsolete, Owns, Prev, Cand
      <4> QED
        BY <4>1, <4>2
    <3>2. Own(d) => journal[d].phase \in {"intent", "obsolete"}
      BY <1>1, <2>1, <2>4, <2>6 DEF Own, Undo, Open, SetAside, ProgramTypeOK
    <3>3. HolderOK'
      BY <2>1, <2>2, <2>3, <2>6, <3>1, <3>2 DEF HolderOK, Fresh, Own, Prev, Cand
    <3> QED
      BY <1>2, <2>3, <2>6, <3>3
  <2> QED
    BY <2>1, <2>5, <2>6 DEF Undo
<1>6. ASSUME NEW failed \in BOOLEAN, Recovering, RecoverEnd(failed), UNCHANGED disk
      PROVE  JournalOK' /\ UnusedOK' /\ HolderOK' /\ History'
  <2>1. ~Recovering' /\ pc' = "idle"
    BY <1>1, <1>6, RecoverEndType
  <2>2. HolderOK'
    BY <2>1 DEF HolderOK
  <2> QED
    BY <1>2, <1>6, <2>1, <2>2 DEF disk
<1>7. ASSUME RecoverDone \/ \E d \in Dir : RecoverManual(d)
      PROVE  JournalOK' /\ UnusedOK' /\ HolderOK' /\ History'
  BY <1>1, <1>6, <1>7 DEF RecoverDone, RecoverManual, Examines, At, HolderOK
<1> QED
  BY <1>3, <1>4, <1>5, <1>7 DEF Recover

(* The state goes back to where the transaction that is undone started:    *)
(* not behind a complete one, of which that is a descendant.               *)
LEMMA RestoreStateKeeps ==
  ASSUME InstallInv, RestoreState
  PROVE  JournalOK' /\ UnusedOK' /\ HolderOK' /\ History'
<1>1. ProgramTypeOK /\ JournalOK /\ UnusedOK /\ HolderOK /\ History
  BY DEF InstallInv
<1>2. /\ cur \in Dir /\ ~Fresh(cur) /\ state \in {Prev(cur), Cand(cur)}
      /\ Own(cur) => journal[cur].phase \in {"intent", "obsolete"}
      /\ Cand(cur) \in [gen : Gen, layout : Layouts]
      /\ state' = Prev(cur) /\ UNCHANGED <<gens, proc>>
  BY <1>1 DEF RestoreState, At, HolderOK, JournalOK, Prev
<1>3. /\ SameJournals
      /\ \A d \in Dir : journal'[d] = journal[d] \/ journal'[d].phase = "removed"
  <2>1. CASE Phase(cur, "removed")
    BY <1>1, <1>2, <2>1, PhaseStep DEF Phases, Gone
  <2>2. CASE UNCHANGED journal
    BY <2>2, NoPhaseStep
  <2> QED
    BY <2>1, <2>2 DEF RestoreState
<1>4. /\ JournalOK'
      /\ \A d \in Dir : /\ Own(d)' <=> Own(d)
                        /\ Prev(d)' = Prev(d) /\ Cand(d)' = Cand(d)
                        /\ Fresh(d)' <=> Fresh(d)
                        /\ Settled(d)' => Settled(d)
  BY <1>1, <1>3, JournalsKept DEF Settled, SameJournals, Own
<1>5. \A x \in Dir : NeverUsed(x) => NeverUsed(x)'
  BY <1>2, <1>4 DEF NeverUsed
<1>6. UnusedOK'
  BY <1>1, <1>2, <1>3, <1>4, <1>5 DEF UnusedOK
<1>7. HolderOK'
  <2>1. Recovering => proc.who # "none"
    BY <1>1 DEF HolderOK
  <2>2. CASE journal[cur].kind # "migrate"
    <3>1. Own(cur) /\ pc' = "dropGeneration" /\ cur' = cur
      BY <1>1, <1>2, <2>2 DEF RestoreState, Goto, Own, JournalOK, ProgramTypeOK, Kinds
    <3> QED
      BY <1>2, <1>4, <2>1, <3>1 DEF HolderOK, Recovering
  <2>3. CASE journal[cur].kind = "migrate" /\ Recovering
    BY <1>2, <2>1, <2>3 DEF RestoreState, Goto, HolderOK, Recovering
  <2>4. CASE journal[cur].kind = "migrate" /\ ~Recovering
    BY <1>2, <2>1, <2>4 DEF RestoreState, Idle, Goto, HolderOK, Recovering
  <2> QED
    BY <2>2, <2>3, <2>4
<1>8. \/ state' = state
      \/ state = Cand(cur) /\ Own(cur) /\ state.gen = cur /\ state # None
      \/ state = Cand(cur) /\ state # None /\ state' # None /\ state'.gen = state.gen
  <2>1. Cand(cur) # None
    BY <1>2, InstallAssumption DEF Gen, Layouts
  <2> QED
    BY <1>1, <1>2, <2>1 DEF JournalOK, Own, ProgramTypeOK, Kinds
<1>9. pc' \notin {"backup", "replace", "verify"}
  BY DEF RestoreState, Idle, Goto
<1>10. History'
  <2>1. PICK rank \in [Gen -> Nat], n \in Nat :
          Timeline(rank, n) /\ Forward(rank) /\ \E L \in SUBSET Gen : Lineage(L)
    BY <1>1 DEF History
  <2>2. PICK L \in SUBSET Gen : Lineage(L)
    BY <2>1
  <2>3. Lineage(L)'
    <3>1. state' # None => state'.gen \in L
      BY <1>2, <1>8, <2>2 DEF Lineage
    <3> QED
      BY <1>2, <1>4, <2>2, <3>1 DEF Lineage
  <2>4. \A d \in Dir : Prev(d) # None => Prev(d).gen \in Gen /\ rank[Prev(d).gen] \in Nat
    BY <1>1 DEF ProgramTypeOK, States, Prev
  <2>5. \A d \in Dir : rank[d] \in Nat
    BY DEF Gen
  <2>6. state' # None => rank[state'.gen] <= n
    <3>1. CASE state' = state
      BY <2>1, <3>1 DEF Timeline
    <3>2. CASE Own(cur) /\ state' # None
      BY <1>2, <2>1, <2>4, <2>5, <3>2 DEF Timeline
    <3> QED
      BY <1>8, <2>1, <3>1, <3>2 DEF Timeline
  <2>7. Timeline(rank, n)'
    BY <1>3, <1>4, <1>9, <2>1, <2>6 DEF Timeline, SameJournals
  <2>8. ASSUME NEW i \in Dir, Settled(i)
        PROVE  state' # None /\ rank[i] <= rank[state'.gen]
    <3>1. state # None /\ rank[i] <= rank[state.gen] /\ Own(i)
      BY <2>1, <2>8 DEF Forward, Settled
    <3>2. CASE Own(cur) /\ state.gen = cur
      <4>1. i # cur
        BY <1>2, <2>8, <3>2 DEF Settled
      <4>2. rank[i] < rank[cur]
        BY <1>2, <2>1, <2>5, <3>1, <3>2, <4>1 DEF Timeline
      <4> QED
        BY <1>2, <2>1, <2>8, <3>2, <4>2 DEF Forward
    <3> QED
      BY <1>8, <3>1, <3>2
  <2>9. Forward(rank)'
    BY <1>4, <2>1, <2>8 DEF Forward
  <2> QED
    BY <2>3, <2>7, <2>9 DEF History
<1> QED
  BY <1>4, <1>6, <1>7, <1>10

(* The rest of a restoration, and accidents.                               *)
LEMMA RestoreKeeps ==
  ASSUME InstallInv, Restore \/ Accident
  PROVE  JournalOK' /\ UnusedOK' /\ HolderOK' /\ History'
<1>1. ProgramTypeOK /\ JournalOK /\ HolderOK
  BY DEF InstallInv
<1>2. ASSUME UNCHANGED <<state, gens, journal>>, HolderOK',
             \/ pc' \notin {"backup", "replace", "verify"}
             \/ UNCHANGED <<pc, cur>>
      PROVE  JournalOK' /\ UnusedOK' /\ HolderOK' /\ History'
  <2>1. SameJournals /\ \A d \in Dir : journal'[d] = journal[d]
    BY <1>2, NoPhaseStep
  <2> QED
    BY <1>2, <2>1, QuietStep DEF Settled, Own
<1>3. ASSUME UNCHANGED <<state, gens, journal, pc, cur, proc>>
      PROVE  JournalOK' /\ UnusedOK' /\ HolderOK' /\ History'
  <2>1. HolderOK'
    BY <1>1, <1>3 DEF HolderOK, Own, Prev, Cand, Fresh, Recovering, NeverUsed
  <2> QED
    BY <1>2, <1>3, <2>1
<1>4. ASSUME UNCHANGED <<state, gens, journal>>, pc' = "idle",
             ~Recovering' \/ UNCHANGED proc
      PROVE  JournalOK' /\ UnusedOK' /\ HolderOK' /\ History'
  <2>1. HolderOK'
    BY <1>1, <1>4 DEF HolderOK, Recovering
  <2> QED
    BY <1>2, <1>4, <2>1
<1>5. CASE \/ \E x \in Entry : RestoreEntry(x)
           \/ Corrupt \/ \E d \in Dir : LoseBackup(d)
  BY <1>3, <1>5 DEF RestoreEntry, Corrupt, LoseBackup
<1>6. CASE RestoreFails
  <2>1. UNCHANGED <<state, gens, journal>>
    BY <1>6 DEF RestoreFails, disk
  <2>2. CASE Recovering
    BY <1>1, <1>4, <1>6, <2>1, <2>2, RecoverEndType DEF RestoreFails
  <2>3. CASE ~Recovering
    BY <1>4, <1>6, <2>1, <2>3 DEF RestoreFails, Idle, Goto
  <2> QED
    BY <2>2, <2>3
<1>7. CASE Crash
  <2>1. UNCHANGED <<state, gens, journal>> /\ pc' = "idle"
    BY <1>7 DEF Crash, Idle, Goto, disk
  <2>2. ~Recovering' \/ UNCHANGED proc
    BY <1>7 DEF Crash, Recovering, NoProc
  <2> QED
    BY <1>4, <2>1, <2>2
<1>8. CASE DropGeneration
  <2>1. /\ cur \in Dir /\ ~Fresh(cur) /\ Own(cur) /\ (state = Prev(cur) \/ NeverUsed(cur))
        /\ gens' = gens \ {cur} /\ pc' = "mark" /\ UNCHANGED <<state, journal, cur, proc>>
    BY <1>1, <1>8 DEF DropGeneration, At, Goto, HolderOK
  <2>2. SameJournals /\ \A d \in Dir : journal'[d] = journal[d]
    BY <2>1, NoPhaseStep
  <2>3. HolderOK'
    BY <1>1, <2>1 DEF HolderOK, Own, Fresh, Recovering
  <2> QED
    BY <2>1, <2>2, <2>3, DropStep DEF Settled, Own
<1>9. CASE Mark
  <2>1. /\ cur \in Dir /\ ~Fresh(cur) /\ Phase(cur, "rolled-back")
        /\ UNCHANGED <<state, gens, proc>>
        /\ pc' = "idle" \/ (pc' = "recover" /\ Recovering)
    BY <1>1, <1>9 DEF Mark, At, Goto, Idle, HolderOK
  <2>2. /\ SameJournals /\ journal'[cur].phase = "rolled-back"
        /\ \A d \in Dir \ {cur} : journal'[d] = journal[d]
    BY <1>1, <2>1, PhaseStep DEF Phases, Terminal
  <2>3. \A d \in Dir : /\ journal'[d].phase = "ready" => journal[d].phase = "ready"
                       /\ Settled(d)' => Settled(d)
    BY <2>2 DEF Settled, Own
  <2>4. HolderOK'
    BY <1>1, <2>1 DEF HolderOK, Recovering
  <2>5. pc' \notin {"backup", "replace", "verify"}
    BY <2>1
  <2> QED
    BY <2>1, <2>2, <2>3, <2>4, <2>5, QuietStep
<1> QED
  BY <1>5, <1>6, <1>7, <1>8, <1>9, RestoreStateKeeps DEF Restore, Accident

(* The invariant is inductive.                                             *)
LEMMA InstallInductive == Spec => []InstallInv
<1>1. Init => InstallInv
  <2> SUFFICES ASSUME Init
               PROVE  InstallInv
    OBVIOUS
  <2>1. state = None \/ state = [gen |-> Initial, layout |-> "legacy"]
    BY DEF Init
  <2>2. \A d \in Dir : Fresh(d) /\ journal[d] = NoJournal /\ ~Own(d) /\ Prev(d) = None
    BY DEF Init, Fresh, NoJournal, Own, Prev
  <2>3. NoJournal \in Journals
    BY DEF NoJournal, Journals, Phases, Gone, States
  <2>4. boot \in [Entry -> Files]
    <3>1. CASE boot = [x \in Entry |-> None]
      BY <3>1 DEF Files
    <3>2. ASSUME NEW cli \in {None, FileOf(Initial, "app")},
                 boot = [app |-> FileOf(Initial, "app"), cli |-> cli, server |-> None]
          PROVE  boot \in [Entry -> Files]
      <4>1. FileOf(Initial, "app") \in Files /\ None \in Files /\ cli \in Files
        BY FileType DEF Gen, Files
      <4> QED
        BY <3>2, <4>1 DEF Entry
    <3> QED
      BY <3>1, <3>2 DEF Init
  <2>5. ProgramTypeOK
    <3>1. journal \in [Dir -> Journals]
      BY <2>3 DEF Init
    <3>2. state \in States /\ gens \subseteq Gen
      BY DEF Init, States, Gen, Layouts
    <3>3. ProcType
      BY DEF Init, ProcType, NoProc
    <3> QED
      BY <2>4, <3>1, <3>2, <3>3, InstallAssumption DEF Init, ProgramTypeOK, Journals, Phases, ProcType
  <2>6. JournalOK
    BY <2>2 DEF JournalOK, NoJournal
  <2>7. UnusedOK
    BY <2>1, <2>2, InstallAssumption DEF UnusedOK, NeverUsed, Init
  <2>8. HolderOK
    BY DEF Init, HolderOK, Recovering, NoProc
  <2>9. History
    <3>1. PICK rank \in [Gen -> Nat] : rank = [g \in Gen |-> 0]
      <4>1. [g \in Gen |-> 0] \in [Gen -> Nat]
        OBVIOUS
      <4> QED
        BY <4>1
    <3>2. Timeline(rank, 0)
      BY <2>1, <2>2, <3>1 DEF Timeline, Gen
    <3>3. Forward(rank)
      BY <2>2 DEF Forward, Settled
    <3>4. gens \in SUBSET Gen /\ Lineage(gens)
      BY <2>1, <2>2, <2>5 DEF Lineage, ProgramTypeOK, Init
    <3> QED
      BY <3>2, <3>3, <3>4 DEF History
  <2> QED
    BY <2>5, <2>6, <2>7, <2>8, <2>9 DEF InstallInv
<1>2. InstallInv /\ [Next]_vars => InstallInv'
  <2> SUFFICES ASSUME InstallInv, [Next]_vars
               PROVE  InstallInv'
    OBVIOUS
  <2>1. CASE Next
    <3>1. ProgramTypeOK'
      BY <2>1, TransactionTypes, RecoverTypes, RestoreTypes DEF Next, InstallInv
    <3>2. JournalOK' /\ UnusedOK' /\ HolderOK' /\ History'
      <4>1. CASE Transaction
        BY <4>1, BeginKeeps, WorkKeeps, FailKeeps, WriteStateKeeps, FinishKeeps
           DEF Transaction, Layouts
      <4> QED
        BY <2>1, <4>1, RecoverKeeps, RestoreKeeps DEF Next
    <3> QED
      BY <3>1, <3>2 DEF InstallInv
  <2>2. CASE UNCHANGED vars
    <3>1. UNCHANGED <<state, gens, journal, pc, cur, proc>>
      BY <2>2 DEF vars, disk
    <3>2. SameJournals /\ \A d \in Dir : journal'[d] = journal[d]
      BY <3>1, NoPhaseStep
    <3>3. HolderOK'
      BY <3>1 DEF InstallInv, HolderOK, Own, Prev, Cand, Fresh, Recovering, NeverUsed
    <3>4. ProgramTypeOK'
      BY <2>2 DEF vars, disk, InstallInv, ProgramTypeOK
    <3>5. JournalOK' /\ UnusedOK' /\ History'
      BY <3>1, <3>2, QuietStep DEF Settled, Own
    <3> QED
      BY <3>3, <3>4, <3>5 DEF InstallInv
  <2> QED
    BY <2>1, <2>2
<1> QED
  BY <1>1, <1>2, PTL DEF Spec

(***************************************************************************)
(* What an undo leaves.  Each transaction of Unfinished will be undone, or *)
(* set aside, after those that began later; `base' has what its undo comes *)
(* back to.                                                                *)
(***************************************************************************)
TargetsOf(d) == Managed(Cand(d).layout)
Knows(d, s)  == s \in {Prev(d), Cand(d)}
Mentions(d, g) == (Prev(d) # None /\ Prev(d).gen = g) \/ Cand(d).gen = g

(* An install supersedes what is open when it begins, and an update begins *)
(* when no other is open.                                                  *)
Older(u, v) ==
  IF journal[v].kind = "apply" THEN v \notin journal[u].over ELSE u \in journal[v].over

Newest(t, X) == t \in X /\ \A u \in X \ {t} : Older(u, t)
Before(v, X) == {u \in X \ {v} : Older(u, v)}

(* A linear order; none knows of the generation of one that is newer.      *)
InOrder(X) ==
  /\ \A u, v \in X : u # v => (Older(u, v) <=> ~Older(v, u))
  /\ \A u, v, w \in X :
       u # v /\ v # w /\ u # w /\ Older(u, v) /\ Older(v, w) => Older(u, w)
  /\ \A u, v \in X : u # v /\ Older(u, v) /\ Own(v) => ~Mentions(u, v)

(* The entries b, with the state s, are what d may have made of its base.  *)
Fits(s, b, d) ==
  /\ Knows(d, s)
  /\ \A x \in Entry \ TargetsOf(d) : b[x] = base[d][x]
  /\ journal[d].phase = "ready" => s = Prev(d) /\ b = base[d]

CompleteFor(s, b) == s # None => \A x \in Managed(s.layout) : b[x] = FileOf(s.gen, x)

(* Either X is empty, and the entries are complete, or the newest of X     *)
(* explains them.                                                          *)
Explained(s, b, X) ==
  \/ X = {} /\ CompleteFor(s, b)
  \/ \E t \in X : Newest(t, X) /\ Fits(s, b, t)

PastOK(X) == \A v \in X : Explained(Prev(v), base[v], Before(v, X))

ChainOK ==
  ~beside => /\ InOrder(Unfinished)
             /\ Explained(state, boot, Unfinished)
             /\ PastOK(Unfinished)

(* What was saved is what stood there.                                     *)
BackupOK ==
  \A d \in DOMAIN base :
    backup[d] # None => backup[d] = [x \in TargetsOf(d) |-> base[d][x]]

(* What is superseded began before, and knows nothing of the new one; an   *)
(* update supersedes nothing, and starts from an installation.             *)
OverOK ==
  \A d \in Dir :
    /\ journal[d].over # {} => journal[d].kind = "install"
    /\ journal[d].kind = "apply" => Prev(d) # None
    /\ \A u \in journal[d].over : /\ u \in DOMAIN base => d \in DOMAIN base
                                  /\ ~Mentions(u, d)

(* What began before the last that completed is not concerned any more;    *)
(* and only of those is an update set aside.                               *)
Counts(d) == ~Fresh(d) /\ (Open(d) \/ SetAside(d) \/ journal[d].kind = "migrate")

PassedOK ==
  /\ \A d \in Dir \ DOMAIN base :
       Counts(d) =>
         /\ state # None /\ ~Mentions(d, state.gen)
         /\ \A v \in DOMAIN base : Prev(v) # None /\ ~Mentions(d, Prev(v).gen)
  /\ ~beside => \A d \in DOMAIN base : ~SetAside(d)

(* What a recovery has still to look at, newer ones first, and what an     *)
(* unfinished install superseded not at all.                               *)
TodoOK ==
  Recovering =>
    /\ pc \in {"recover", "restore", "dropGeneration", "mark"}
    /\ todo \cap Deferred = {}
    /\ \A d \in todo : journal[d].phase \notin Gone
    /\ pc # "recover" => cur \notin todo
    /\ ~beside =>
         \A u \in todo \cap Unfinished, v \in Unfinished :
           u # v /\ Older(u, v) => v \in todo \/ (pc # "recover" /\ v = cur)

WorkOK ==
  /\ pc = "backup" => cur \in DOMAIN base /\ base[cur] = boot
  /\ pc \in {"replace", "verify"} => cur \in DOMAIN base
  /\ pc \in {"backup", "replace", "verify"} /\ Own(cur) =>
       \A d \in Dir \ {cur} : ~Fresh(d) => ~Mentions(d, cur)
  /\ pc \in {"replace", "verify"} /\ Own(cur) => Open(cur)
  /\ pc \in {"restore", "dropGeneration"} /\ Own(cur) => Open(cur) \/ SetAside(cur)
  /\ pc = "mark" => cur \notin gens
  /\ \A d \in Dir : backup[d] # None => ~Fresh(d)

(* A migration gives a legacy installation its new layout; behind one that *)
(* is complete nothing goes back.                                          *)
MigrateOK ==
  \A d \in Dir :
    journal[d].kind = "migrate" =>
      /\ Prev(d).layout = "legacy" /\ Cand(d).layout = "managed"
      /\ journal[d].phase \notin {"ready", "rolled-back", "obsolete"}
      /\ ~beside /\ journal[d].phase = "complete" =>
           state # Prev(d) /\ \A v \in Unfinished : Prev(v) # Prev(d)

NewestOK ==
  ~beside =>
    /\ pc \in {"backup", "replace", "verify", "restore", "dropGeneration"} /\ cur \in Unfinished
         => Newest(cur, Unfinished)
    /\ pc = "backup" /\ ~Own(cur) => Unfinished = {}
    /\ pc = "clean" => Unfinished = {}
    /\ pc = "restore" => cur \in Unfinished
    /\ pc = "dropGeneration" /\ cur \in DOMAIN base => cur \in Unfinished
    /\ pc = "dropGeneration" /\ cur \in Unfinished /\ Knows(cur, state)
         => state = Prev(cur) /\ boot = base[cur]

ChainInv ==
  /\ HistoryTypeOK /\ BackupOK /\ OverOK /\ PassedOK
  /\ TodoOK /\ WorkOK /\ MigrateOK /\ NewestOK /\ ChainOK

(***************************************************************************)
(* Orders.                                                                 *)
(***************************************************************************)
LEMMA OneNewest ==
  ASSUME NEW X, InOrder(X), NEW t, NEW u, Newest(t, X), Newest(u, X)
  PROVE  t = u
BY DEF InOrder, Newest

LEMMA BeforeNewest ==
  ASSUME NEW X, NEW t, Newest(t, X)
  PROVE  Before(t, X) = X \ {t}
BY DEF Newest, Before

(* Without its newest the others have what they had before them.           *)
LEMMA WithoutNewest ==
  ASSUME NEW X, InOrder(X), PastOK(X), NEW t, Newest(t, X)
  PROVE  InOrder(X \ {t}) /\ PastOK(X \ {t})
<1>1. InOrder(X \ {t})
  BY DEF InOrder
<1>2. ASSUME NEW v \in X \ {t}
      PROVE  Before(v, X \ {t}) = Before(v, X)
  BY DEF InOrder, Newest, Before
<1>3. PastOK(X \ {t})
  BY <1>2 DEF PastOK
<1> QED
  BY <1>1, <1>3

(* The newest is undone: what it came upon is explained by the others.     *)
LEMMA NewestUndone ==
  ASSUME NEW X, PastOK(X), NEW t, Newest(t, X)
  PROVE  Explained(Prev(t), base[t], X \ {t})
BY BeforeNewest DEF PastOK, Newest

(* The newest is concerned.                                                *)
LEMMA NewestKnows ==
  ASSUME NEW X, InOrder(X), NEW t, Newest(t, X), NEW s, NEW b, Explained(s, b, X)
  PROVE  Knows(t, s)
BY OneNewest DEF Explained, Fits, Newest

(* What is said of X depends on what the journals of X say.                *)
Agree(X) ==
  \A d \in X : /\ journal'[d].kind = journal[d].kind
               /\ journal'[d].prev = journal[d].prev
               /\ journal'[d].cand = journal[d].cand
               /\ journal'[d].over = journal[d].over
               /\ journal'[d].phase = "ready" => journal[d].phase = "ready"
               /\ base'[d] = base[d]

LEMMA OrderKept ==
  ASSUME NEW X, Agree(X)
  PROVE  /\ \A u, v \in X : Older(u, v)' <=> Older(u, v)
         /\ InOrder(X) => InOrder(X)'
         /\ \A t \in X : Newest(t, X) => Newest(t, X)'
         /\ \A v \in X : Before(v, X)' = Before(v, X)
<1>1. \A u, v \in X : Older(u, v)' <=> Older(u, v)
  BY DEF Older, Agree
<1>2. \A u, v \in X : (Mentions(u, v)' <=> Mentions(u, v)) /\ (Own(v)' <=> Own(v))
  BY DEF Mentions, Agree, Own, Prev, Cand
<1>3. InOrder(X) => InOrder(X)'
  BY <1>1, <1>2 DEF InOrder
<1> QED
  BY <1>1, <1>3 DEF Newest, Before

LEMMA ExplainedKept ==
  ASSUME NEW X, Agree(X), NEW s, NEW b, Explained(s, b, X)
  PROVE  Explained(s, b, X)'
<1>1. \A u \in X : Knows(u, s)' <=> Knows(u, s)
  BY DEF Knows, Agree, Prev, Cand
<1>2. \A t \in X : Fits(s, b, t) => Fits(s, b, t)'
  BY <1>1 DEF Fits, Agree, Prev, Cand, TargetsOf
<1>3. \A t \in X : Newest(t, X) => Newest(t, X)'
  BY OrderKept
<1> QED
  BY <1>1, <1>2, <1>3 DEF Explained, CompleteFor

LEMMA PastKept ==
  ASSUME NEW X, Agree(X), PastOK(X)
  PROVE  PastOK(X)'
<1>1. SUFFICES ASSUME NEW v \in X
               PROVE  Explained(Prev(v), base[v], Before(v, X))'
  BY DEF PastOK
<1>2. PICK s, b, Y : s = Prev(v) /\ b = base[v] /\ Y = Before(v, X)
  OBVIOUS
<1>3. s = Prev(v)' /\ b = base'[v] /\ Y = Before(v, X)' /\ Y \subseteq X
  BY <1>2, OrderKept DEF Agree, Prev, Before
<1>4. Agree(Y)
  BY <1>3 DEF Agree
<1>5. Explained(s, b, Y)'
  BY <1>2, <1>4, ExplainedKept DEF PastOK
<1> QED
  BY <1>3, <1>5

(* The set of the unfinished stays, or loses its newest.                   *)
LEMMA ChainKept ==
  ASSUME ChainOK, UNCHANGED beside, ~beside => Agree(Unfinished'),
         ~beside => \/ Unfinished' = Unfinished
                    \/ \E t \in Unfinished : Newest(t, Unfinished) /\ Unfinished' = Unfinished \ {t},
         ~beside => Explained(state', boot', Unfinished')
  PROVE  ChainOK'
<1> SUFFICES ASSUME ~beside
             PROVE  (InOrder(Unfinished) /\ Explained(state, boot, Unfinished) /\ PastOK(Unfinished))'
  BY DEF ChainOK
<1>1. PICK X, s, b : X = Unfinished' /\ s = state' /\ b = boot'
  OBVIOUS
<1>2. InOrder(X) /\ PastOK(X)
  BY <1>1, WithoutNewest DEF ChainOK
<1>3. InOrder(X)' /\ PastOK(X)' /\ Explained(s, b, X)'
  BY <1>1, <1>2, OrderKept, PastKept, ExplainedKept
<1> QED
  BY <1>1, <1>3

(***************************************************************************)
(* Steps that begin nothing, and open nothing.                             *)
(***************************************************************************)
Along ==
  /\ SameJournals
  /\ UNCHANGED ghosts
  /\ gens' \subseteq gens
  /\ \A d \in Dir : journal'[d].phase = "ready" => journal[d].phase = "ready"
  /\ \A d \in Dir \ DOMAIN base : Open(d)' => Open(d)
  /\ \A d \in Dir : SetAside(d)' => SetAside(d) \/ (Open(d) /\ (d \in DOMAIN base => beside))

Onward == Along /\ \A d \in Dir : Open(d)' => Open(d)

LEMMA AlongFacts ==
  ASSUME HistoryTypeOK, Along
  PROVE  /\ HistoryTypeOK'
         /\ base' = base /\ beside' = beside
         /\ DOMAIN base \subseteq Dir
         /\ \A d \in Dir : /\ Prev(d)' = Prev(d) /\ Cand(d)' = Cand(d)
                           /\ Own(d)' <=> Own(d)
                           /\ Fresh(d)' <=> Fresh(d)
                           /\ journal'[d].kind = journal[d].kind
                           /\ journal'[d].over = journal[d].over
                           /\ TargetsOf(d)' = TargetsOf(d)
                           /\ Readable(d)' => Readable(d)
         /\ \A d \in Dir : \A g, s : /\ Mentions(d, g)' <=> Mentions(d, g)
                                     /\ Knows(d, s)' <=> Knows(d, s)
         /\ \A u, v \in Dir : Older(u, v)' <=> Older(u, v)
         /\ \A X \in SUBSET Dir : Agree(X)
         /\ Unfinished \subseteq Dir
<1>1. base' = base /\ beside' = beside /\ DOMAIN base \subseteq Dir
  BY DEF Along, ghosts, HistoryTypeOK
<1>2. \A d \in Dir : /\ Prev(d)' = Prev(d) /\ Cand(d)' = Cand(d)
                     /\ Own(d)' <=> Own(d)
                     /\ Fresh(d)' <=> Fresh(d)
                     /\ journal'[d].kind = journal[d].kind
                     /\ journal'[d].over = journal[d].over
  BY DEF Along, SameJournals, Prev, Cand, Own
<1>3. \A d \in Dir : \A g, s : /\ Mentions(d, g)' <=> Mentions(d, g)
                               /\ Knows(d, s)' <=> Knows(d, s)
  BY <1>2 DEF Mentions, Knows
<1>4. \A u, v \in Dir : Older(u, v)' <=> Older(u, v)
  BY <1>2 DEF Older
<1>5. \A d \in Dir : TargetsOf(d)' = TargetsOf(d)
  BY <1>2 DEF TargetsOf
<1>6. \A d \in Dir : Readable(d)' => Readable(d)
  BY <1>2 DEF Readable, Trusted, Prev, Cand, Along
<1>7. \A X \in SUBSET Dir : Agree(X)
  BY <1>1, <1>2 DEF Agree, Along, SameJournals
<1>8. Unfinished \subseteq Dir
  BY <1>1 DEF Unfinished
<1> QED
  BY <1>1, <1>2, <1>3, <1>4, <1>5, <1>6, <1>7, <1>8 DEF HistoryTypeOK

LEMMA OnwardFacts ==
  ASSUME HistoryTypeOK, Onward
  PROVE  Unfinished' \subseteq Unfinished /\ Deferred' \subseteq Deferred
<1>1. Along
  BY DEF Onward
<1>2. Unfinished' \subseteq Unfinished
  BY <1>1, AlongFacts DEF Unfinished, Onward
<1>3. \A i \in Dir : journal'[i].kind = "install" /\ Open(i)' /\ Readable(i)'
         => journal[i].kind = "install" /\ Open(i) /\ Readable(i)
  BY <1>1, AlongFacts DEF Onward
<1>4. Deferred' \subseteq Deferred
  BY <1>1, <1>3, AlongFacts DEF Deferred
<1> QED
  BY <1>2, <1>4

(* The state stays, or becomes one that only what began since the last     *)
(* that completed has to do with.                                          *)
SameConcern ==
  \/ state' = state
  \/ \E v \in DOMAIN base : state' = Prev(v)
  \/ state' # None /\ \A d \in Dir \ DOMAIN base : Counts(d) => ~Mentions(d, state'.gen)

LEMMA AlongKeeps ==
  ASSUME ProgramTypeOK, HistoryTypeOK, OverOK, PassedOK, Along, SameConcern
  PROVE  HistoryTypeOK' /\ OverOK' /\ PassedOK'
<1>1. HistoryTypeOK' /\ OverOK'
  <2>1. \A d \in Dir : journal[d].over \subseteq Dir
    BY DEF ProgramTypeOK
  <2> QED
    BY <2>1, AlongFacts DEF OverOK
<1>2. \A d \in Dir \ DOMAIN base : Counts(d)' => Counts(d)
  BY AlongFacts DEF Counts, Along
<1>3. PassedOK'
  BY <1>2, AlongFacts DEF PassedOK, Along, SameConcern
<1> QED
  BY <1>1, <1>3

LEMMA BackupKept ==
  ASSUME HistoryTypeOK, BackupOK, Along, \A d \in Dir : backup'[d] \in {None, backup[d]}
  PROVE  BackupOK'
BY AlongFacts DEF BackupOK

(* No migration completes, and the state goes back behind none.            *)
LEMMA MigrateKept ==
  ASSUME HistoryTypeOK, MigrateOK, Along, ~beside => Unfinished' \subseteq Unfinished,
         \A m \in Dir : journal'[m].phase \in {journal[m].phase, "intent", "cleaned", "removed"}
                        \/ journal[m].kind # "migrate",
         ~beside => \A m \in Dir : journal[m].kind = "migrate" /\ journal[m].phase = "complete"
                                   => state' # Prev(m)
  PROVE  MigrateOK'
BY AlongFacts DEF MigrateOK

LEMMA NewestKept ==
  ASSUME HistoryTypeOK, Along, NEW t, Newest(t, Unfinished), Unfinished' = Unfinished
  PROVE  Newest(t, Unfinished)'
<1>1. PICK X : X = Unfinished
  OBVIOUS
<1>2. Agree(X)
  BY <1>1, AlongFacts
<1> QED
  BY <1>1, <1>2, OrderKept DEF Newest

(* The recovery goes on in its order.                                      *)
LEMMA TodoKept ==
  ASSUME HistoryTypeOK, TodoOK, Onward, Recovering, todo' \subseteq todo,
         pc' \in {"recover", "restore", "dropGeneration", "mark"},
         \A d \in todo' : journal'[d].phase = journal[d].phase,
         pc' # "recover" => cur' \notin todo',
         ~beside => \A v \in Unfinished' :
           /\ v \in todo => v \in todo' \/ (pc' # "recover" /\ v = cur')
           /\ pc # "recover" /\ v = cur => pc' # "recover" /\ v = cur'
  PROVE  TodoOK'
BY OnwardFacts, AlongFacts DEF TodoOK, Onward

LEMMA NotRecovering ==
  ASSUME ~Recovering'
  PROVE  TodoOK'
BY DEF TodoOK

(* Whom a recovery examines, among the unfinished, is the newest.          *)
LEMMA ExaminesNewest ==
  ASSUME InstallInv, ChainInv, ~beside, NEW d \in Dir, Examines(d), d \in Unfinished
  PROVE  Newest(d, Unfinished)
<1>1. Recovering /\ pc = "recover" /\ d \in todo
  BY DEF Examines, At, InstallInv, HolderOK
<1> SUFFICES ASSUME NEW u \in Unfinished, u # d, ~Older(u, d)
             PROVE  FALSE
  BY DEF Newest
<1>2. Older(d, u) /\ u \in todo /\ u \in Dir /\ Open(u) /\ Readable(u)
  BY <1>1 DEF ChainInv, ChainOK, InOrder, TodoOK, Unfinished, HistoryTypeOK
<1>3. CASE journal[u].kind = "apply"
  <2>1. journal[d].kind = "apply"
    BY <1>2, <1>3 DEF Examines, Rank
  <2>2. journal[u].over = {} /\ journal[d].over = {}
    BY <1>2, <1>3, <2>1 DEF ChainInv, OverOK
  <2> QED
    BY <1>3, <2>1, <2>2 DEF Older
<1>4. CASE journal[u].kind # "apply"
  <2>1. d \in journal[u].over
    BY <1>2, <1>4 DEF Older
  <2>2. journal[u].kind = "install"
    BY <1>2, <2>1 DEF ChainInv, OverOK
  <2>3. d \in Deferred
    BY <1>2, <2>1, <2>2 DEF Deferred
  <2> QED
    BY <1>1, <2>3 DEF ChainInv, TodoOK
<1> QED
  BY <1>3, <1>4

(***************************************************************************)
(* Steps that leave the installation alone.                                *)
(***************************************************************************)
LEMMA StillKeeps ==
  ASSUME InstallInv, ChainInv, UNCHANGED <<state, gens, boot, journal, ghosts>>,
         \A d \in Dir : backup'[d] \in {None, backup[d]}
  PROVE  /\ Onward /\ Along
         /\ HistoryTypeOK' /\ OverOK' /\ PassedOK' /\ BackupOK' /\ MigrateOK' /\ ChainOK'
         /\ Unfinished' = Unfinished
         /\ \A d \in Dir : Open(d)' <=> Open(d)
<1>1. \A d \in Dir : (Open(d)' <=> Open(d)) /\ (SetAside(d)' <=> SetAside(d))
  BY DEF Open, SetAside
<1>2. Onward /\ Along
  BY <1>1, NoPhaseStep DEF Onward, Along
<1>3. HistoryTypeOK' /\ OverOK' /\ PassedOK' /\ BackupOK'
  BY <1>2, AlongKeeps, BackupKept DEF ChainInv, InstallInv, SameConcern
<1>4. Unfinished' = Unfinished
  BY DEF Unfinished, Open, Readable, Trusted, ghosts
<1>5. ChainOK'
  <2>1. Agree(Unfinished') /\ UNCHANGED beside
    BY <1>2, <1>4, AlongFacts DEF ChainInv
  <2> QED
    BY <1>4, <2>1, ChainKept DEF ChainInv, ChainOK
<1>6. MigrateOK'
  BY <1>2, <1>4, MigrateKept DEF ChainInv, MigrateOK
<1> QED
  BY <1>1, <1>2, <1>3, <1>4, <1>5, <1>6

LEMMA DiskSame ==
  ASSUME InstallInv, ChainInv, UNCHANGED <<disk, ghosts>>
  PROVE  /\ Onward /\ Along
         /\ HistoryTypeOK' /\ OverOK' /\ PassedOK' /\ BackupOK' /\ MigrateOK' /\ ChainOK'
         /\ Unfinished' = Unfinished
         /\ state' = state /\ boot' = boot /\ gens' = gens /\ backup' = backup
         /\ \A d \in Dir : Open(d)' <=> Open(d)
<1>1. state' = state /\ boot' = boot /\ gens' = gens /\ backup' = backup /\ journal' = journal
  BY DEF disk
<1> QED
  BY <1>1, StillKeeps

(* Nobody holds the lock after the step.                                   *)
LEMMA LockFree ==
  ASSUME HistoryTypeOK, WorkOK, Along, pc' = "idle",
         \A d \in Dir : backup'[d] \in {None, backup[d]}
  PROVE  WorkOK' /\ NewestOK'
BY AlongFacts DEF WorkOK, NewestOK

(* A file is lost or damaged.                                              *)
LEMMA AccidentChain ==
  ASSUME InstallInv, ChainInv, Corrupt \/ \E d \in Dir : LoseBackup(d)
  PROVE  ChainInv'
<1>1. UNCHANGED <<state, gens, boot, journal, proc, ghosts>> /\ pc' = "idle" /\ pc = "idle"
      /\ \A d \in Dir : backup'[d] \in {None, backup[d]}
  <2>1. CASE Corrupt
    BY <2>1 DEF Corrupt, At
  <2>2. CASE \E d \in Dir : LoseBackup(d)
    <3>1. PICK d \in Dir : LoseBackup(d)
      BY <2>2
    <3>2. \A e \in Dir : backup'[e] = None \/ backup'[e] = backup[e]
      BY <3>1 DEF LoseBackup
    <3> QED
      BY <3>1, <3>2 DEF LoseBackup, At
  <2> QED
    BY <2>1, <2>2
<1>2. ~Recovering'
  BY <1>1 DEF ChainInv, TodoOK, Recovering
<1> QED
  BY <1>1, <1>2, StillKeeps, LockFree, NotRecovering DEF ChainInv

(* The waiting installer or migration gives up; a recovery ends.           *)
LEMMA EndChain ==
  ASSUME InstallInv, ChainInv,
         \/ InstallRefused \/ MigrateRefused
         \/ RecoverDone \/ (\E d \in Dir : RecoverManual(d))
         \/ RestoreFails \/ Crash
  PROVE  ChainInv'
<1>1. UNCHANGED <<disk, ghosts>> /\ pc' = "idle" /\ ~Recovering'
  <2>1. CASE InstallRefused \/ MigrateRefused
    <3>1. UNCHANGED <<disk, ghosts, pc>> /\ pc = "idle" /\ proc' = NoProc
      BY <2>1 DEF InstallRefused, MigrateRefused, At
    <3> QED
      BY <3>1 DEF NoProc, Recovering
  <2>2. ASSUME Recovering, NEW failed \in BOOLEAN, RecoverEnd(failed)
        PROVE  pc' = "idle" /\ ~Recovering'
    BY <2>2, RecoverEndType DEF InstallInv
  <2>3. CASE RecoverDone \/ \E d \in Dir : RecoverManual(d)
    <3>1. Recovering
      BY <2>3 DEF RecoverDone, RecoverManual, Examines, At, InstallInv, HolderOK
    <3> QED
      BY <2>2, <2>3, <3>1 DEF RecoverDone, RecoverManual, disk, ghosts
  <2>4. CASE RestoreFails
    BY <2>2, <2>4 DEF RestoreFails, disk, ghosts, Idle, Goto, Recovering
  <2>5. CASE Crash
    BY <2>5 DEF Crash, disk, ghosts, Idle, Goto, NoProc, Recovering
  <2> QED
    BY <2>1, <2>3, <2>4, <2>5
<1>2. WorkOK' /\ NewestOK' /\ TodoOK'
  BY <1>1, DiskSame, LockFree, NotRecovering DEF ChainInv
<1> QED
  BY <1>1, <1>2, DiskSame DEF ChainInv

(* A recovery begins: what is not deferred comes in the order of its age.  *)
LEMMA RecoverStartChain ==
  ASSUME InstallInv, ChainInv, NEW who \in {"launch", "install", "migrate"}, RecoverStart(who)
  PROVE  ChainInv'
<1>1. UNCHANGED <<disk, ghosts>> /\ pc' = "recover" /\ cur' = cur
  BY DEF RecoverStart, disk, ghosts, Goto
<1>2. todo' = {d \in Dir : journal[d].phase \notin Gone} \ Deferred
  BY DEF RecoverStart
<1>3. Onward /\ Unfinished' = Unfinished
  BY <1>1, DiskSame
<1>4. WorkOK' /\ NewestOK'
  <2>1. \A d \in Dir : Fresh(d)' <=> Fresh(d)
    BY <1>3, AlongFacts DEF ChainInv, Onward
  <2> QED
    BY <1>1, <2>1, DiskSame DEF ChainInv, WorkOK, NewestOK
<1>5. TodoOK'
  <2>1. Deferred' \subseteq Deferred /\ Unfinished \subseteq Dir
    BY <1>3, OnwardFacts, AlongFacts DEF ChainInv, Onward
  <2>2. ASSUME ~beside, NEW u \in todo' \cap Unfinished, NEW v \in Unfinished, u # v, Older(u, v)
        PROVE  v \in todo'
    <3>1. v \in Dir /\ journal[v].phase \notin Gone
      BY <2>1 DEF Unfinished, Open
    <3> SUFFICES ASSUME v \in Deferred
                 PROVE  FALSE
      BY <1>2, <3>1
    <3>2. PICK y \in Dir : /\ journal[y].kind = "install" /\ Open(y) /\ Readable(y)
                           /\ v \in journal[y].over
      BY DEF Deferred
    <3>3. y \in Unfinished
      BY <3>2 DEF ChainInv, OverOK, Unfinished
    <3>4. Own(v) /\ v # y
      BY <2>1, <3>2 DEF InstallInv, JournalOK, ChainInv, OverOK, Mentions
    <3>5. Older(v, y)
      BY <3>2 DEF Older
    <3>6. u # y
      BY <2>2, <3>3, <3>4, <3>5 DEF ChainInv, ChainOK, InOrder
    <3>7. Older(u, y)
      BY <2>2, <3>3, <3>4, <3>5, <3>6 DEF ChainInv, ChainOK, InOrder
    <3>8. u \in Deferred
      BY <3>2, <3>7 DEF Older, Deferred
    <3> QED
      BY <1>2, <2>2, <3>8
  <2>3. beside' = beside /\ \A u, v \in Dir : Older(u, v)' <=> Older(u, v)
    BY <1>3, AlongFacts DEF ChainInv, Onward
  <2> QED
    BY <1>1, <1>2, <1>3, <2>1, <2>2, <2>3 DEF TodoOK, disk
<1> QED
  BY <1>1, <1>4, <1>5, DiskSame DEF ChainInv

(* What was set aside will not be concerned again.                         *)
LEMMA SetAsideStays ==
  ASSUME ChainInv, ~beside, NEW d \in Dir, SetAside(d)
  PROVE  ~Knows(d, state)
<1>1. d \in Dir \ DOMAIN base /\ Counts(d)
  BY DEF ChainInv, PassedOK, SetAside, Counts, Fresh, NoJournal
<1> QED
  BY <1>1 DEF ChainInv, PassedOK, Knows, Mentions

(* A recovery begins to undo the newest that is not deferred, or one that  *)
(* began before the last that completed.                                   *)
LEMMA RecoverUndoChain ==
  ASSUME InstallInv, ChainInv, NEW d \in Dir, RecoverUndo(d)
  PROVE  ChainInv'
<1>1. UNCHANGED <<disk, ghosts, proc>> /\ pc' = Undo(d) /\ cur' = d /\ todo' = todo \ {d}
      /\ Examines(d) /\ Undoable(d)
  BY DEF RecoverUndo, disk, ghosts, Goto
<1>2. Onward /\ Unfinished' = Unfinished
  BY <1>1, DiskSame
<1>3. pc = "recover" /\ Recovering /\ Recovering' /\ pc' \in {"restore", "dropGeneration"}
  BY <1>1 DEF Examines, At, InstallInv, HolderOK, Recovering, Undo
<1>4. TodoOK'
  BY <1>1, <1>2, <1>3, TodoKept DEF ChainInv, disk
<1>5. ~beside /\ d \in Unfinished => Newest(d, Unfinished)
  BY <1>1, ExaminesNewest
<1>6. /\ Own(d) => Pending(d) /\ ~Obsolete(d) /\ (Open(d) \/ SetAside(d))
      /\ Own(d) /\ ~beside => Open(d) /\ journal[d].phase # "obsolete"
  <2>1. Own(d) => Pending(d) /\ ~Obsolete(d) /\ (Open(d) \/ SetAside(d))
    BY <1>1 DEF Undoable, Pending, Own
  <2>2. SetAside(d) => Knows(d, state)
    BY <2>1 DEF Obsolete, Owns, Knows, Prev, Cand, SetAside, Own
  <2> QED
    BY <2>1, <2>2, SetAsideStays DEF Open, Terminal
<1>7. WorkOK'
  <2>1. \A e \in Dir : (Fresh(e)' <=> Fresh(e)) /\ (Own(e)' <=> Own(e))
    BY <1>2, AlongFacts DEF ChainInv, Onward
  <2>2. (\A e \in Dir : (Open(e)' <=> Open(e)) /\ (SetAside(e)' <=> SetAside(e))) /\ backup' = backup
    BY <1>1, DiskSame DEF disk, SetAside
  <2> QED
    BY <1>1, <1>3, <1>6, <2>1, <2>2 DEF ChainInv, WorkOK
<1>8. NewestOK'
  <2>1. \A t \in Unfinished : Newest(t, Unfinished) => Newest(t, Unfinished)'
    <3>1. PICK X : X = Unfinished
      OBVIOUS
    <3>2. Agree(X)
      BY <1>2, <3>1, AlongFacts DEF ChainInv, Onward
    <3> QED
      BY <1>2, <3>1, <3>2, OrderKept
  <2>2. ASSUME ~beside, pc' = "dropGeneration", d \in Unfinished, Knows(d, state)
        PROVE  state = Prev(d) /\ boot = base[d]
    <3>1. journal[d].phase = "ready"
      BY <1>1, <1>6, <2>2 DEF Undo, SetAside, Own
    <3>2. Explained(state, boot, Unfinished) /\ InOrder(Unfinished)
      BY <2>2 DEF ChainInv, ChainOK
    <3>3. Fits(state, boot, d)
      BY <1>5, <2>2, <3>2, OneNewest DEF Explained
    <3> QED
      BY <3>1, <3>3 DEF Fits
  <2>3. beside' = beside /\ base' = base /\ Prev(d)' = Prev(d)
        /\ \A s : Knows(d, s)' <=> Knows(d, s)
    BY <1>2, AlongFacts DEF ChainInv, Onward
  <2>4. ASSUME ~beside, pc' = "restore"
        PROVE  d \in Unfinished
    <3>1. state = Prev(d) \/ (Own(d) /\ Knows(d, state))
      <4>1. journal[d].phase \in Phases /\ (journal[d].kind \in Kinds \/ Fresh(d))
        BY DEF InstallInv, ProgramTypeOK, JournalOK, Phases
      <4>2. CASE journal[d].kind = "migrate"
        BY <1>1, <4>2 DEF Undoable, Prev
      <4>3. CASE journal[d].kind # "migrate"
        <5>1. Own(d)
          BY <1>1, <4>1, <4>3 DEF Own, Kinds, Undoable, Pending, Open, SetAside, Fresh, NoJournal, Gone
        <5>2. Own(d) /\ journal[d].phase = "intent"
          BY <1>1, <1>6, <2>4, <4>1, <4>3, <5>1 DEF Undo, Open, Phases, Terminal, Gone
        <5> QED
          BY <1>6, <4>3, <5>1, <5>2 DEF Obsolete, Owns, Knows, Prev, Cand
      <4> QED
        BY <4>2, <4>3
    <3>2. Knows(d, state) /\ (Own(d) \/ journal[d].kind = "migrate") /\ ~Fresh(d)
      <4>1. journal[d].kind \in Kinds
        BY <1>1, <1>3 DEF ChainInv, TodoOK, Examines, InstallInv, JournalOK, ProgramTypeOK,
           Fresh, NoJournal, Gone
      <4> QED
        BY <3>1, <4>1 DEF Knows, Own, Kinds, Fresh, NoJournal
    <3>3. CASE Own(d)
      <4>1. Open(d) /\ Readable(d) /\ Counts(d)
        BY <1>6, <2>4, <3>2, <3>3 DEF Pending, Passed, Own, Counts
      <4>2. state = None \/ Mentions(d, state.gen)
        BY <3>2 DEF Knows, Mentions
      <4> QED
        BY <3>2, <4>1, <4>2 DEF ChainInv, PassedOK, Unfinished
    <3>4. CASE journal[d].kind = "migrate"
      <4>1. state = Prev(d) /\ Prev(d) # None
        BY <3>1, <3>4 DEF Own, InstallInv, JournalOK
      <4>2. Mentions(d, state.gen)
        BY <4>1 DEF Mentions
      <4>3. Open(d)
        BY <1>1, <1>3, <2>4, <3>4, <4>1 DEF Examines, ChainInv, TodoOK, MigrateOK, Open, Terminal
      <4> QED
        BY <3>2, <3>4, <4>2, <4>3 DEF ChainInv, PassedOK, Counts, Unfinished, Readable
    <3> QED
      BY <3>2, <3>3, <3>4
  <2>5. ASSUME ~beside, pc' = "dropGeneration", d \in DOMAIN base
        PROVE  d \in Unfinished
    BY <1>1, <1>6, <2>5 DEF Undo, Undoable, Pending, Passed, Unfinished, Own, SetAside
  <2>6. state' = state /\ boot' = boot
    BY <1>1, DiskSame
  <2> QED
    BY <1>1, <1>2, <1>3, <1>5, <2>1, <2>2, <2>3, <2>4, <2>5, <2>6 DEF NewestOK
<1> QED
  BY <1>1, <1>4, <1>7, <1>8, DiskSame DEF ChainInv


(***************************************************************************)
(* Steps that close a transaction.                                         *)
(***************************************************************************)
LEMMA StepKeeps ==
  ASSUME InstallInv, ChainInv, Onward, SameConcern,
         \A d \in Dir : backup'[d] \in {None, backup[d]},
         \A m \in Dir : journal'[m].phase \in {journal[m].phase, "intent", "cleaned", "removed"}
                        \/ journal[m].kind # "migrate",
         ~beside => \A m \in Dir : journal[m].kind = "migrate" /\ journal[m].phase = "complete"
                                   => state' # Prev(m),
         ~beside => \/ Unfinished' = Unfinished
                    \/ \E t \in Unfinished : Newest(t, Unfinished) /\ Unfinished' = Unfinished \ {t},
         ~beside => Explained(state', boot', Unfinished')
  PROVE  HistoryTypeOK' /\ BackupOK' /\ OverOK' /\ PassedOK' /\ MigrateOK' /\ ChainOK'
<1>1. Along /\ HistoryTypeOK
  BY DEF Onward, ChainInv
<1>2. HistoryTypeOK' /\ BackupOK' /\ OverOK' /\ PassedOK'
  BY <1>1, AlongKeeps, BackupKept DEF ChainInv, InstallInv
<1>3. Unfinished' \subseteq Unfinished /\ Unfinished \subseteq Dir /\ Unfinished' \subseteq Dir
  BY <1>1, OnwardFacts, AlongFacts
<1>4. MigrateOK'
  BY <1>1, <1>3, MigrateKept DEF ChainInv
<1>5. ChainOK'
  <2>1. Agree(Unfinished') /\ UNCHANGED beside
    BY <1>1, <1>3, AlongFacts
  <2> QED
    BY <2>1, ChainKept DEF ChainInv
<1> QED
  BY <1>2, <1>4, <1>5

LEMMA CloseStep ==
  ASSUME InstallInv, ChainInv, NEW d \in Dir, ~Fresh(d), NEW phase \in Terminal \cup Gone,
         Phase(d, phase), UNCHANGED ghosts, gens' \subseteq gens,
         phase = "obsolete" => \/ journal[d].kind = "install" \/ SetAside(d)
                               \/ Open(d) /\ (d \in DOMAIN base => beside)
  PROVE  /\ Onward /\ Along
         /\ ~Open(d)' /\ journal'[d].phase = phase
         /\ \A e \in Dir \ {d} : journal'[e] = journal[e] /\ (Open(e)' <=> Open(e))
         /\ gens' = gens => Unfinished' = Unfinished \ {d}
<1>1. /\ SameJournals /\ journal'[d].phase = phase
      /\ \A e \in Dir \ {d} : journal'[e] = journal[e]
  BY PhaseStep DEF InstallInv, Phases
<1>2. ~Open(d)' /\ \A e \in Dir \ {d} : Open(e)' <=> Open(e)
  BY <1>1 DEF Open
<1>3. \A e \in Dir : SetAside(e)' => SetAside(e) \/ (Open(e) /\ (e \in DOMAIN base => beside))
  <2>1. \A e \in Dir \ {d} : SetAside(e)' <=> SetAside(e)
    BY <1>1 DEF SetAside
  <2>2. SetAside(d)' => phase = "obsolete" /\ journal[d].kind = "apply"
    BY <1>1 DEF SetAside, SameJournals
  <2> QED
    BY <2>1, <2>2
<1>5. Onward /\ Along
  BY <1>1, <1>2, <1>3 DEF Onward, Along, Terminal, Gone
<1>4. ASSUME gens' = gens
      PROVE  Unfinished' = Unfinished \ {d}
  <2>1. DOMAIN base \subseteq Dir /\ base' = base
    BY DEF ChainInv, HistoryTypeOK, ghosts
  <2>2. \A e \in Dir \ {d} : Readable(e)' <=> Readable(e)
    BY <1>1, <1>4 DEF Readable, Trusted
  <2> QED
    BY <1>2, <2>1, <2>2 DEF Unfinished
<1> QED
  BY <1>1, <1>2, <1>4, <1>5

(* A migration is alone among the unfinished.                              *)
LEMMA MigratesAlone ==
  ASSUME ChainInv, NEW d \in Dir, journal[d].kind = "migrate", Newest(d, Unfinished)
  PROVE  Unfinished = {d}
<1>1. journal[d].over = {}
  BY DEF ChainInv, OverOK
<1> QED
  BY <1>1 DEF Newest, Older

LEMMA IntactComplete ==
  ASSUME Intact(state), boot' = boot, state' = state
  PROVE  CompleteFor(state', boot')
BY DEF Intact, Baseline, Stands, CompleteFor

(* A recovery passes over a directory, removes it or sets it aside.        *)
LEMMA RecoverPassChain ==
  ASSUME InstallInv, ChainInv, NEW d \in Dir, RecoverPass(d)
  PROVE  ChainInv'
<1>1. /\ UNCHANGED <<state, gens, boot, backup, proc, pc, cur, ghosts>>
      /\ todo' = todo \ {d} /\ Examines(d)
      /\ (Passed(d) /\ UNCHANGED journal) \/ (Removable(d) /\ Phase(d, "removed"))
         \/ (Obsolete(d) /\ Phase(d, "obsolete"))
  BY DEF RecoverPass
<1>2. pc = "recover" /\ d \in todo /\ Recovering /\ journal[d].phase \notin Gone /\ ~Fresh(d)
  BY <1>1 DEF Examines, At, InstallInv, HolderOK, ChainInv, TodoOK, Fresh, NoJournal, Gone
<1>3. ~beside /\ d \in Unfinished => Newest(d, Unfinished)
  BY <1>1, ExaminesNewest
<1> DEFINE Kept == /\ Along
                    /\ HistoryTypeOK' /\ BackupOK' /\ OverOK' /\ PassedOK' /\ MigrateOK' /\ ChainOK'
                    /\ Onward /\ Unfinished' = Unfinished \ {d}
                    /\ \A e \in Dir \ {d} : journal'[e].phase = journal[e].phase
<1>4. ASSUME NEW phase \in {"removed", "obsolete"}, Phase(d, phase),
             journal[d].kind = "migrate" => phase = "removed",
             phase = "obsolete" => \/ journal[d].kind = "install" \/ SetAside(d)
                                   \/ Open(d) /\ (d \in DOMAIN base => beside),
             ~beside /\ d \in Unfinished => Explained(state, boot, Unfinished \ {d})
      PROVE  Kept
  <2>1. phase \in Terminal \cup Gone
    BY DEF Terminal, Gone
  <2>2. /\ Onward /\ Along /\ Unfinished' = Unfinished \ {d} /\ journal'[d].phase = phase
        /\ \A e \in Dir \ {d} : journal'[e] = journal[e]
    BY <1>1, <1>2, <1>4, <2>1, CloseStep
  <2>3. ~beside => Explained(state', boot', Unfinished')
    <3>1. d \notin Unfinished => Unfinished' = Unfinished
      BY <2>2
    <3> QED
      BY <1>1, <1>4, <2>2, <3>1 DEF ChainInv, ChainOK
  <2>4. /\ SameConcern
        /\ \A m \in Dir : journal'[m].phase \in {journal[m].phase, "intent", "cleaned", "removed"}
                          \/ journal[m].kind # "migrate"
        /\ ~beside => \A m \in Dir : journal[m].kind = "migrate" /\ journal[m].phase = "complete"
                                     => state' # Prev(m)
        /\ \A e \in Dir : backup'[e] \in {None, backup[e]}
        /\ ~beside => \/ Unfinished' = Unfinished
                      \/ \E t \in Unfinished : Newest(t, Unfinished) /\ Unfinished' = Unfinished \ {t}
    BY <1>1, <1>3, <1>4, <2>2 DEF SameConcern, ChainInv, MigrateOK
  <2> QED
    BY <2>2, <2>3, <2>4, StepKeeps
<1>5. Kept
  <2>1. CASE Passed(d) /\ UNCHANGED journal
    <3>1. d \notin Unfinished
      BY <2>1 DEF Passed, Unfinished, Open, Terminal
    <3> QED
      BY <1>1, <2>1, <3>1, StillKeeps
  <2>2. CASE Removable(d) /\ Phase(d, "removed")
    <3>1. ASSUME ~beside, d \in Unfinished
          PROVE  Explained(state, boot, Unfinished \ {d})
      <4>1. journal[d].kind = "migrate" /\ Intact(state)
        BY <2>2, <3>1 DEF Removable, Unfinished, Open, Terminal
      <4>2. Unfinished \ {d} = {}
        BY <1>3, <3>1, <4>1, MigratesAlone
      <4> QED
        BY <1>1, <4>1, <4>2, IntactComplete DEF Explained
    <3> QED
      BY <2>2, <3>1, <1>4
  <2>3. CASE Obsolete(d) /\ Phase(d, "obsolete")
    <3>1. /\ ~Knows(d, state) /\ journal[d].kind # "migrate"
          /\ Readable(d) /\ (Open(d) \/ SetAside(d))
      BY <2>3 DEF Obsolete, Pending, Passed, Owns, Knows, Prev, Cand
    <3>2. ~beside => d \notin Unfinished
      BY <1>3, <3>1, NewestKnows DEF ChainInv, ChainOK
    <3>3. Open(d) /\ d \in DOMAIN base => beside
      BY <3>1, <3>2 DEF Unfinished
    <3> QED
      BY <2>3, <3>1, <3>2, <3>3, <1>4
  <2> QED
    BY <1>1, <2>1, <2>2, <2>3
<1>6. TodoOK'
  <2>1. \A e \in todo' : journal'[e].phase = journal[e].phase
    BY <1>1, <1>5 DEF InstallInv, ProgramTypeOK
  <2> QED
    BY <1>1, <1>2, <1>5, <2>1, TodoKept DEF ChainInv
<1>7. WorkOK' /\ NewestOK'
  <2>1. \A e \in Dir : Fresh(e)' <=> Fresh(e)
    BY <1>5, AlongFacts DEF ChainInv
  <2> QED
    BY <1>1, <1>2, <2>1 DEF ChainInv, WorkOK, NewestOK
<1> QED
  BY <1>5, <1>6, <1>7 DEF ChainInv

(* The new generation goes: no other that is unfinished knows it.          *)
LEMMA DropsNewest ==
  ASSUME InstallInv, ChainInv, NEW c \in Dir, Own(c), gens' = gens \ {c},
         SameJournals, \A e \in Dir : journal'[e].phase = journal[e].phase, UNCHANGED ghosts
  PROVE  /\ Onward /\ Along /\ c \notin Unfinished' /\ c \notin gens'
         /\ \A e \in Dir : Open(e)' <=> Open(e)
         /\ (\A v \in Unfinished \ {c} : ~Mentions(v, c))
              => Unfinished' = Unfinished \ {c}
<1>1. base' = base /\ DOMAIN base \subseteq Dir
  BY DEF ghosts, ChainInv, HistoryTypeOK
<1>2. ~Readable(c)'
  BY DEF Readable, Trusted, Own, InstallInv, JournalOK, Cand, SameJournals
<1>3. \A e \in Dir : /\ Open(e)' <=> Open(e)
                     /\ SetAside(e)' <=> SetAside(e)
                     /\ Readable(e)' => Readable(e)
  <2>1. \A e \in Dir : (Open(e)' <=> Open(e)) /\ (SetAside(e)' <=> SetAside(e))
    BY DEF Open, SetAside, SameJournals
  <2> QED
    BY <2>1 DEF Readable, Trusted, SameJournals
<1>4. ASSUME \A v \in Unfinished \ {c} : ~Mentions(v, c)
      PROVE  \A e \in Unfinished \ {c} : Readable(e)'
  BY <1>1, <1>4 DEF Readable, Trusted, Mentions, Unfinished, Prev, Cand, SameJournals
<1>5. Onward /\ Along
  BY <1>3 DEF Onward, Along
<1> QED
  BY <1>1, <1>2, <1>3, <1>4, <1>5 DEF Unfinished

LEMMA DropGenerationChain ==
  ASSUME InstallInv, ChainInv, DropGeneration
  PROVE  ChainInv'
<1>1. /\ UNCHANGED <<state, boot, journal, backup, proc, cur, todo, ghosts>>
      /\ gens' = gens \ {cur} /\ pc = "dropGeneration" /\ pc' = "mark"
      /\ cur \in Dir /\ Own(cur) /\ ~Fresh(cur) /\ Counts(cur)
  BY DEF Counts, DropGeneration, At, Goto, InstallInv, HolderOK, ChainInv, WorkOK
<1>2. /\ Onward /\ Along /\ cur \notin Unfinished' /\ cur \notin gens'
      /\ \A e \in Dir : Open(e)' <=> Open(e)
  BY <1>1, NoPhaseStep, DropsNewest
<1>3. ~beside /\ cur \in Unfinished => Newest(cur, Unfinished)
  BY <1>1 DEF ChainInv, NewestOK
<1>4. ASSUME ~beside, NEW v \in Unfinished \ {cur}
      PROVE  ~Mentions(v, cur)
  <2>1. v \in Dir /\ v \in DOMAIN base /\ Cand(cur).gen = cur
    BY <1>1 DEF ChainInv, HistoryTypeOK, Unfinished, InstallInv, JournalOK
  <2>2. CASE cur \in Unfinished
    BY <1>1, <1>3, <1>4, <2>2 DEF Newest, ChainInv, ChainOK, InOrder
  <2>3. CASE cur \notin Unfinished
    <3>1. cur \in Dir \ DOMAIN base
      BY <1>1, <1>4, <2>3 DEF ChainInv, NewestOK
    <3>2. Prev(v) # None /\ ~Mentions(cur, Prev(v).gen)
      BY <1>1, <2>1, <3>1 DEF ChainInv, PassedOK
    <3>3. Cand(v).gen \in {v, Prev(v).gen}
      <4>1. ~Fresh(v) /\ (journal[v].kind = "none" => Fresh(v))
        BY <2>1 DEF Unfinished, Open, Fresh, NoJournal, Gone, InstallInv, JournalOK
      <4>2. journal[v].kind \in Kinds \cup {"none"}
        BY <2>1 DEF InstallInv, ProgramTypeOK
      <4> QED
        BY <2>1, <4>1, <4>2 DEF InstallInv, JournalOK, Own, Kinds
    <3> QED
      BY <2>1, <3>2, <3>3 DEF Mentions
  <2> QED
    BY <2>2, <2>3
<1>5. ~beside => Unfinished' = Unfinished \ {cur}
  BY <1>1, <1>4, NoPhaseStep, DropsNewest
<1>6. ~beside => Explained(state', boot', Unfinished')
  <2>1. ~beside /\ cur \in Unfinished => Knows(cur, state)
    BY <1>3, NewestKnows DEF ChainInv, ChainOK
  <2>2. CASE cur \in Unfinished
    BY <1>1, <1>3, <1>5, <2>1, <2>2, NewestUndone DEF ChainInv, ChainOK, NewestOK
  <2>3. CASE cur \notin Unfinished
    <3>1. ~beside => Unfinished' = Unfinished
      BY <1>5, <2>3
    <3> QED
      BY <1>1, <3>1 DEF ChainInv, ChainOK
  <2> QED
    BY <2>2, <2>3
<1>7. HistoryTypeOK' /\ BackupOK' /\ OverOK' /\ PassedOK' /\ MigrateOK' /\ ChainOK'
  <2>1. /\ SameConcern
        /\ \A d \in Dir : backup'[d] \in {None, backup[d]}
        /\ ~beside => \/ Unfinished' = Unfinished
                      \/ \E t \in Unfinished : Newest(t, Unfinished) /\ Unfinished' = Unfinished \ {t}
        /\ ~beside => \A m \in Dir : journal[m].kind = "migrate" /\ journal[m].phase = "complete"
                                     => state' # Prev(m)
    BY <1>1, <1>3, <1>5 DEF SameConcern, ChainInv, MigrateOK
  <2> QED
    BY <1>1, <1>2, <1>6, <2>1, StepKeeps
<1>8. TodoOK'
  <2>1. CASE Recovering
    BY <1>1, <1>2, <2>1, TodoKept DEF ChainInv, TodoOK
  <2>2. CASE ~Recovering
    BY <1>1, <2>2, NotRecovering DEF Recovering
  <2> QED
    BY <2>1, <2>2
<1>9. WorkOK' /\ NewestOK'
  <2>1. \A e \in Dir : Fresh(e)' <=> Fresh(e)
    BY <1>2, AlongFacts DEF ChainInv
  <2> QED
    BY <1>1, <1>2, <2>1 DEF ChainInv, WorkOK, NewestOK
<1> QED
  BY <1>7, <1>8, <1>9 DEF ChainInv

(* The undone transaction is closed.                                       *)
LEMMA MarkChain ==
  ASSUME InstallInv, ChainInv, Mark
  PROVE  ChainInv'
<1>1. /\ UNCHANGED <<state, gens, boot, backup, proc, ghosts>> /\ pc = "mark"
      /\ Phase(cur, "rolled-back") /\ cur \in Dir /\ Own(cur) /\ ~Fresh(cur) /\ cur \notin gens
  BY DEF Mark, At, InstallInv, HolderOK, ChainInv, WorkOK
<1>2. IF Recovering THEN pc' = "recover" /\ UNCHANGED <<cur, todo>> ELSE pc' = "idle"
  BY DEF Mark, Goto, Idle
<1>3. cur \notin Unfinished
  BY <1>1 DEF Unfinished, Readable, Trusted, Own, InstallInv, JournalOK, Cand
<1>4. /\ Onward /\ Along /\ Unfinished' = Unfinished
      /\ \A e \in Dir \ {cur} : journal'[e] = journal[e]
  <2>1. "rolled-back" \in Terminal \cup Gone
    BY DEF Terminal
  <2> QED
    BY <1>1, <1>3, <2>1, CloseStep
<1>5. HistoryTypeOK' /\ BackupOK' /\ OverOK' /\ PassedOK' /\ MigrateOK' /\ ChainOK'
  <2>1. /\ SameConcern
        /\ \A d \in Dir : backup'[d] \in {None, backup[d]}
        /\ \A m \in Dir : journal'[m].phase \in {journal[m].phase, "intent", "cleaned", "removed"}
                          \/ journal[m].kind # "migrate"
        /\ ~beside => \A m \in Dir : journal[m].kind = "migrate" /\ journal[m].phase = "complete"
                                     => state' # Prev(m)
        /\ ~beside => Explained(state', boot', Unfinished')
        /\ ~beside => Unfinished' = Unfinished
    BY <1>1, <1>4 DEF SameConcern, ChainInv, MigrateOK, ChainOK, Own
  <2> QED
    BY <1>1, <1>4, <2>1, StepKeeps
<1>6. TodoOK'
  <2>1. CASE Recovering
    <3>1. todo' = todo /\ cur \notin todo /\ pc' = "recover" /\ todo \subseteq Dir
      BY <1>1, <1>2, <2>1 DEF ChainInv, TodoOK, InstallInv, ProgramTypeOK
    <3>2. \A e \in todo' : journal'[e].phase = journal[e].phase
      BY <1>4, <3>1
    <3> QED
      BY <1>1, <1>3, <1>4, <2>1, <3>1, <3>2, TodoKept DEF ChainInv
  <2>2. CASE ~Recovering
    BY <1>1, <2>2, NotRecovering DEF Recovering
  <2> QED
    BY <2>1, <2>2
<1>7. WorkOK' /\ NewestOK'
  <2>1. \A e \in Dir : Fresh(e)' <=> Fresh(e)
    BY <1>4, AlongFacts DEF ChainInv
  <2> QED
    BY <1>1, <1>2, <2>1 DEF ChainInv, WorkOK, NewestOK
<1> QED
  BY <1>5, <1>6, <1>7 DEF ChainInv

(***************************************************************************)
(* Steps of the one that works.                                            *)
(***************************************************************************)
LEMMA IntentStep ==
  ASSUME ChainInv, InstallInv, NEW d \in Dir, d \in DOMAIN base, ~Fresh(d), Phase(d, "intent"),
         Own(d) => Open(d), UNCHANGED <<gens, ghosts>>
  PROVE  /\ Along /\ journal'[d].phase = "intent" /\ Open(d)'
         /\ \A e \in Dir \ {d} : journal'[e] = journal[e] /\ (Open(e)' <=> Open(e))
         /\ \A e \in Dir : Readable(e)' <=> Readable(e)
         /\ Own(d) => Onward /\ Unfinished' = Unfinished
<1>1. /\ SameJournals /\ journal'[d].phase = "intent"
      /\ \A e \in Dir \ {d} : journal'[e] = journal[e]
  BY PhaseStep DEF InstallInv, Phases
<1>2. Open(d)' /\ \A e \in Dir \ {d} : Open(e)' <=> Open(e)
  BY <1>1 DEF Open, Terminal, Gone
<1>3. Along
  <2>1. \A e \in Dir : SetAside(e)' => SetAside(e)
    BY <1>1 DEF SetAside
  <2> QED
    BY <1>1, <1>2, <2>1 DEF Along
<1>4. \A e \in Dir : Readable(e)' <=> Readable(e)
  BY <1>1 DEF Readable, Trusted, SameJournals
<1>5. ASSUME Own(d)
      PROVE  Onward /\ Unfinished' = Unfinished
  <2>1. DOMAIN base \subseteq Dir /\ base' = base
    BY DEF ChainInv, HistoryTypeOK, ghosts
  <2>2. \A e \in Dir : Open(e)' <=> Open(e)
    BY <1>2, <1>5
  <2> QED
    BY <1>3, <1>4, <2>1, <2>2 DEF Unfinished, Onward
<1> QED
  BY <1>1, <1>2, <1>3, <1>4, <1>5

(* The entries are saved; of a migration, now they may change.             *)
LEMMA BackupChain ==
  ASSUME InstallInv, ChainInv, Backup
  PROVE  ChainInv'
<1>1. /\ UNCHANGED <<state, gens, boot, proc, cur, todo, ghosts>> /\ pc = "backup" /\ pc' = "replace"
      /\ Phase(cur, "intent") /\ cur \in Dir /\ ~Fresh(cur) /\ cur \in DOMAIN base /\ base[cur] = boot
      /\ state = Prev(cur) /\ (Own(cur) => journal[cur].phase = "ready")
      /\ backup' = [backup EXCEPT ![cur] = [x \in Targets |-> boot[x]]]
  BY DEF Backup, At, Goto, InstallInv, HolderOK, ChainInv, WorkOK
<1>2. Own(cur) => Open(cur)
  BY <1>1 DEF Open, Terminal, Gone
<1>3. PICK c \in Dir : c = cur
  BY <1>1
<1>4. /\ Along /\ journal'[c].phase = "intent" /\ Open(c)'
      /\ \A e \in Dir \ {c} : journal'[e] = journal[e] /\ (Open(e)' <=> Open(e))
      /\ \A e \in Dir : Readable(e)' <=> Readable(e)
      /\ Own(c) => Onward /\ Unfinished' = Unfinished
  BY <1>1, <1>2, <1>3, IntentStep
<1>5. HistoryTypeOK' /\ OverOK' /\ PassedOK'
  BY <1>1, <1>4, AlongKeeps DEF ChainInv, InstallInv, SameConcern
<1>6. BackupOK'
  <2>1. \A d \in Dir : backup'[d] = backup[d]
                      \/ (d = c /\ backup'[d] = [x \in TargetsOf(c) |-> base[c][x]])
    BY <1>1, <1>3 DEF Targets, TargetsOf, Cand
  <2>2. base' = base /\ DOMAIN base \subseteq Dir /\ \A d \in Dir : TargetsOf(d)' = TargetsOf(d)
    BY <1>4, AlongFacts DEF ChainInv
  <2>3. ASSUME NEW d \in DOMAIN base, backup'[d] # None
        PROVE  backup'[d] = [x \in TargetsOf(d) |-> base[d][x]]
    BY <2>1, <2>2, <2>3 DEF BackupOK, ChainInv
  <2> QED
    BY <2>2, <2>3 DEF BackupOK
<1>7. ~Recovering'
  BY <1>1 DEF ChainInv, TodoOK, Recovering
<1>8. ~beside => \/ Own(c) /\ Newest(c, Unfinished) /\ Unfinished' = Unfinished
                 \/ ~Own(c) /\ Unfinished = {} /\ Unfinished' = {c}
  <2>1. CASE Own(c)
    <3>1. ActivePresent
      BY DEF InstallInv, History, Lineage, ActivePresent
    <3>2. Readable(c)
      BY <1>1, <1>3, <2>1, <3>1, InstallAssumption DEF Readable, Trusted, Own, InstallInv, HolderOK, JournalOK,
         ChainInv, OverOK, ActivePresent, Prev, Cand, Gen, Layouts
    <3>3. c \in Unfinished
      BY <1>1, <1>2, <1>3, <2>1, <3>2 DEF Unfinished
    <3> QED
      BY <1>1, <1>3, <1>4, <2>1, <3>3 DEF ChainInv, NewestOK
  <2>2. CASE ~Own(c)
    <3>1. ~beside => Unfinished = {}
      BY <1>1, <1>3, <2>2 DEF ChainInv, NewestOK
    <3>2. Readable(c)
      BY <2>2 DEF Own, Readable
    <3>3. base' = base /\ DOMAIN base \subseteq Dir
      BY <1>1 DEF ghosts, ChainInv, HistoryTypeOK
    <3> QED
      BY <1>1, <1>3, <1>4, <2>2, <3>1, <3>2, <3>3 DEF Unfinished
  <2> QED
    BY <2>1, <2>2
<1>9. ChainOK' /\ (~beside => Newest(c, Unfinished)')
  <2>1. CASE Own(c)
    <3>1. /\ UNCHANGED beside /\ (~beside => Agree(Unfinished'))
          /\ (~beside => Explained(state', boot', Unfinished'))
      BY <1>1, <1>4, <1>8, <2>1, AlongFacts DEF ChainInv, ChainOK
    <3>2. ChainOK'
      BY <1>8, <2>1, <3>1, ChainKept DEF ChainInv
    <3> QED
      BY <1>4, <1>8, <2>1, <3>2, NewestKept DEF ChainInv
  <2>2. CASE ~Own(c) /\ ~beside
    <3>1. PICK X, s, b : X = {c} /\ s = state /\ b = boot
      OBVIOUS
    <3>2. Unfinished' = X /\ s = state' /\ b = boot' /\ s = Prev(c)' /\ b = base'[c]
      BY <1>1, <1>3, <1>4, <1>8, <2>2, <3>1, AlongFacts DEF ChainInv
    <3>3. InOrder(X)' /\ Newest(c, X)' /\ Before(c, X)' = {}
      BY <3>1 DEF InOrder, Newest, Before
    <3>4. Explained(s, b, {})'
      <4>1. Explained(s, b, {})
        BY <1>8, <2>2, <3>1 DEF ChainInv, ChainOK
      <4>2. Agree({})
        BY DEF Agree
      <4> QED
        BY <4>1, <4>2, ExplainedKept
    <3>5. PastOK(X)'
      BY <3>1, <3>2, <3>3, <3>4 DEF PastOK
    <3>6. Fits(s, b, c)'
      BY <1>4, <3>2 DEF Fits, Knows
    <3>7. Explained(s, b, X)'
      BY <3>1, <3>3, <3>6 DEF Explained
    <3> QED
      BY <3>2, <3>3, <3>5, <3>7 DEF ChainOK
  <2>3. CASE beside
    BY <1>1, <2>3 DEF ChainOK, ghosts
  <2> QED
    BY <2>1, <2>2, <2>3
<1>10. MigrateOK'
  <2>1. \A m \in Dir : journal'[m].phase \in {journal[m].phase, "intent"}
    BY <1>4
  <2>2. ASSUME NEW m \in Dir, journal[m].kind = "migrate", journal[m].phase = "complete", ~beside,
               NEW v \in Unfinished'
        PROVE  Prev(v) # Prev(m)
    BY <1>1, <1>3, <1>8, <2>2 DEF ChainInv, MigrateOK
  <2>3. Unfinished' \subseteq Dir
    BY <1>4, AlongFacts DEF Unfinished, ChainInv
  <2> QED
    BY <1>1, <1>4, <2>1, <2>2, <2>3, AlongFacts DEF ChainInv, MigrateOK
<1>11. WorkOK'
  <2>1. \A e \in Dir : (Fresh(e)' <=> Fresh(e)) /\ (Own(e)' <=> Own(e))
          /\ \A g : Mentions(e, g)' <=> Mentions(e, g)
    BY <1>4, AlongFacts DEF ChainInv
  <2>2. \A d \in Dir : backup'[d] = backup[d] \/ d = c
    BY <1>1, <1>3
  <2>3. cur' = c /\ cur = c /\ pc' = "replace" /\ base' = base
    BY <1>1, <1>3 DEF ghosts
  <2> QED
    BY <1>1, <1>4, <2>1, <2>2, <2>3 DEF ChainInv, WorkOK
<1>12. NewestOK'
  BY <1>1, <1>3, <1>9 DEF NewestOK, ghosts
<1> QED
  BY <1>5, <1>6, <1>7, <1>9, <1>10, <1>11, <1>12, NotRecovering DEF ChainInv

LEMMA WorkUnfinished ==
  ASSUME InstallInv, ChainInv, pc \in {"replace", "verify"}
  PROVE  /\ cur \in Unfinished /\ cur \in Dir /\ ~Fresh(cur) /\ Open(cur)
         /\ journal[cur].phase = "intent" /\ Knows(cur, state) /\ ~Recovering
<1>1. /\ cur \in Dir /\ ~Fresh(cur) /\ cur \in DOMAIN base /\ journal[cur].phase = "intent"
      /\ (state = Prev(cur) /\ Cand(cur).gen \in gens) \/ state = Cand(cur)
  BY DEF InstallInv, HolderOK, ChainInv, WorkOK
<1>2. Open(cur) /\ Knows(cur, state) /\ ~Recovering
  BY <1>1 DEF Open, Terminal, Gone, Knows, ChainInv, TodoOK
<1>3. Cand(cur) # None
  BY <1>1, InstallAssumption DEF InstallInv, JournalOK, Gen, Layouts
<1>4. PICK L : Lineage(L)
  BY DEF InstallInv, History
<1>5. Cand(cur).gen \in gens
  BY <1>1, <1>3, <1>4 DEF Lineage
<1>6. journal[cur].kind = "apply" => Prev(cur) # None /\ Prev(cur).gen \in gens
  <2>1. journal[cur].kind = "apply" => Prev(cur) # None /\ Own(cur) /\ Cand(cur).gen = cur
    BY <1>1 DEF ChainInv, OverOK, Own, InstallInv, JournalOK
  <2>2. CASE state = Prev(cur)
    BY <1>4, <2>1, <2>2 DEF Lineage
  <2>3. CASE state = Cand(cur)
    BY <1>1, <1>3, <1>4, <2>1, <2>3 DEF Lineage
  <2> QED
    BY <1>1, <2>2, <2>3
<1>7. Readable(cur)
  BY <1>3, <1>5, <1>6 DEF Readable, Trusted, Prev, Cand
<1> QED
  BY <1>1, <1>2, <1>7 DEF Unfinished

(* The newest explains what it finds, as long as it knows the state.       *)
LEMMA NewestExplains ==
  ASSUME ChainInv, ~beside, NEW t, Newest(t, Unfinished), Knows(t, state)
  PROVE  Fits(state, boot, t)
<1>1. PICK X, s, b : X = Unfinished /\ s = state /\ b = boot
  OBVIOUS
<1>2. Explained(s, b, X) /\ InOrder(X) /\ t \in X
  BY <1>1 DEF ChainInv, ChainOK, Newest
<1> QED
  BY <1>1, <1>2, OneNewest DEF Explained

(* Having saved what it changes, the newest changes entries, or the state. *)
LEMMA NewestWorks ==
  ASSUME InstallInv, ChainInv, NEW c \in Dir, c = cur, pc \in {"replace", "verify", "restore"},
         ~beside => cur \in Unfinished, journal[cur].phase # "ready",
         Knows(cur, state), Knows(cur, state'), SameConcern,
         UNCHANGED <<gens, journal, backup, ghosts>>,
         ~beside => \A m \in Dir : journal[m].kind = "migrate" /\ journal[m].phase = "complete"
                                   => state' # Prev(m),
         ~beside => \A x \in Entry \ TargetsOf(cur) : boot'[x] = boot[x]
  PROVE  /\ Onward /\ Along /\ Unfinished' = Unfinished
         /\ HistoryTypeOK' /\ BackupOK' /\ OverOK' /\ PassedOK' /\ MigrateOK' /\ ChainOK'
         /\ ~beside => Newest(c, Unfinished)'
         /\ \A d \in Dir : Open(d)' <=> Open(d)
         /\ \A d \in Dir : (Fresh(d)' <=> Fresh(d)) /\ (Own(d)' <=> Own(d))
         /\ \A d \in Dir : \A g : Mentions(d, g)' <=> Mentions(d, g)
<1>1. \A d \in Dir : (Open(d)' <=> Open(d)) /\ (SetAside(d)' <=> SetAside(d))
  BY DEF Open, SetAside
<1>2. Onward /\ Along
  BY <1>1, NoPhaseStep DEF Onward, Along
<1>3. Unfinished' = Unfinished
  BY DEF Unfinished, Open, Readable, Trusted, ghosts
<1>4. ~beside => Newest(cur, Unfinished)
  BY DEF ChainInv, NewestOK
<1>5. ~beside => Fits(state', boot', cur)
  <2>1. ~beside => Fits(state, boot, cur)
    BY <1>4, NewestExplains
  <2> QED
    BY <2>1 DEF Fits
<1>6. ~beside => Explained(state', boot', Unfinished')
  BY <1>3, <1>4, <1>5 DEF Explained, Newest
<1>7. HistoryTypeOK' /\ BackupOK' /\ OverOK' /\ PassedOK' /\ MigrateOK' /\ ChainOK'
  BY <1>2, <1>3, <1>6, StepKeeps
<1>8. ~beside => Newest(c, Unfinished)'
  BY <1>2, <1>3, <1>4, NewestKept DEF ChainInv
<1> QED
  BY <1>1, <1>2, <1>3, <1>7, <1>8, AlongFacts DEF ChainInv

(* One entry is replaced, or comes back.                                   *)
LEMMA EntryChain ==
  ASSUME InstallInv, ChainInv, NEW x \in Entry, Replace(x) \/ RestoreEntry(x)
  PROVE  ChainInv'
<1>1. /\ UNCHANGED <<state, gens, journal, backup, proc, pc, cur, todo, ghosts>>
      /\ pc \in {"replace", "restore"} /\ cur \in Dir /\ ~Fresh(cur)
  BY DEF Replace, RestoreEntry, At, InstallInv, HolderOK
<1>2. Knows(cur, state) /\ (~beside => cur \in Unfinished) /\ journal[cur].phase # "ready"
  <2>1. CASE pc = "replace"
    BY <2>1, WorkUnfinished
  <2>2. CASE pc = "restore"
    <3>1. journal[cur].kind = "migrate" \/ Own(cur)
      BY <1>1 DEF Own, InstallInv, ProgramTypeOK, JournalOK, Kinds
    <3> QED
      BY <1>1, <2>2, <3>1 DEF InstallInv, HolderOK, ChainInv, NewestOK, MigrateOK, Knows
  <2> QED
    BY <1>1, <2>1, <2>2
<1>3. ~Recovering => ~Recovering'
  BY <1>1 DEF Recovering
<1>4. PICK c \in Dir : c = cur
  BY <1>1
<1>5. ~beside => \A y \in Entry \ TargetsOf(cur) : boot'[y] = boot[y]
  <2>1. \A y \in Entry \ {x} : boot'[y] = boot[y]
    BY DEF Replace, RestoreEntry, InstallInv, ProgramTypeOK
  <2>2. CASE Replace(x)
    <3>1. x \in TargetsOf(cur)
      BY <2>2 DEF Replace, FirstOf, ToReplace, Targets, TargetsOf, Cand
    <3> QED
      BY <2>1, <3>1
  <2>3. CASE RestoreEntry(x) /\ ~beside
    <3>1. x \in DOMAIN backup[cur] /\ backup[cur] # None /\ cur \in DOMAIN base
      BY <1>2, <2>3 DEF RestoreEntry, FirstOf, ToRestore, Unfinished
    <3>2. x \in TargetsOf(cur)
      BY <3>1 DEF ChainInv, BackupOK
    <3> QED
      BY <2>1, <3>2
  <2> QED
    BY <2>2, <2>3
<1>6. /\ Onward /\ Along /\ Unfinished' = Unfinished
      /\ HistoryTypeOK' /\ BackupOK' /\ OverOK' /\ PassedOK' /\ MigrateOK' /\ ChainOK'
      /\ ~beside => Newest(c, Unfinished)'
      /\ \A d \in Dir : Open(d)' <=> Open(d)
      /\ \A d \in Dir : (Fresh(d)' <=> Fresh(d)) /\ (Own(d)' <=> Own(d))
      /\ \A d \in Dir : \A g : Mentions(d, g)' <=> Mentions(d, g)
  <2>1. /\ SameConcern /\ Knows(cur, state')
        /\ ~beside => \A m \in Dir : journal[m].kind = "migrate" /\ journal[m].phase = "complete"
                                     => state' # Prev(m)
    BY <1>1, <1>2 DEF SameConcern, Knows, ChainInv, MigrateOK
  <2> QED
    BY <1>1, <1>2, <1>4, <1>5, <2>1, NewestWorks
<1>7. WorkOK' /\ NewestOK'
  <2>1. pc' = pc /\ cur' = c /\ cur = c /\ base' = base /\ beside' = beside
        /\ backup' = backup /\ gens' = gens /\ (SetAside(c)' <=> SetAside(c))
    BY <1>1, <1>4 DEF ghosts, SetAside
  <2>2. WorkOK'
    BY <1>1, <1>6, <2>1 DEF ChainInv, WorkOK
  <2>3. NewestOK'
    BY <1>1, <1>2, <1>6, <2>1 DEF NewestOK
  <2> QED
    BY <2>2, <2>3
<1>8. TodoOK'
  <2>1. CASE Recovering
    <3>1. /\ pc = "restore" /\ todo' = todo /\ pc' = pc /\ cur' = cur /\ cur \notin todo
          /\ journal' = journal
      BY <1>1, <2>1 DEF ChainInv, TodoOK
    <3> QED
      BY <1>6, <2>1, <3>1, TodoKept DEF ChainInv
  <2>2. CASE ~Recovering
    BY <1>3, <2>2, NotRecovering
  <2> QED
    BY <2>1, <2>2
<1> QED
  BY <1>6, <1>7, <1>8 DEF ChainInv

(* The state becomes the candidate's: a generation that only the newest    *)
(* knows, or a layout that no migration has found.                         *)
LEMMA WriteStateChain ==
  ASSUME InstallInv, ChainInv, WriteState
  PROVE  ChainInv'
<1>1. /\ UNCHANGED <<gens, boot, journal, backup, proc, cur, todo, ghosts>>
      /\ pc = "replace" /\ pc' = "verify" /\ state' = Cand(cur) /\ state = Prev(cur)
  BY DEF WriteState, At, Goto, Cand, InstallInv, HolderOK
<1>2. /\ cur \in Unfinished /\ cur \in Dir /\ ~Fresh(cur) /\ Open(cur)
      /\ journal[cur].phase = "intent" /\ Knows(cur, state) /\ ~Recovering
  BY <1>1, WorkUnfinished
<1>3. PICK c \in Dir : c = cur
  BY <1>2
<1>4. Own(cur) \/ journal[cur].kind = "migrate"
  BY <1>2 DEF Own, InstallInv, ProgramTypeOK, JournalOK, Kinds
<1>5. state' # None
  BY <1>1, <1>2, InstallAssumption DEF InstallInv, JournalOK, Gen, Layouts
<1>6. SameConcern
  <2>1. ASSUME NEW d \in Dir \ DOMAIN base, Counts(d)
        PROVE  ~Mentions(d, state'.gen)
    <3>1. d # cur /\ ~Fresh(d)
      BY <1>2, <2>1 DEF Unfinished, Counts
    <3>2. CASE Own(cur)
      <4>1. state'.gen = cur
        BY <1>1, <1>2, <3>2 DEF InstallInv, JournalOK
      <4> QED
        BY <1>1, <2>1, <3>1, <3>2, <4>1 DEF ChainInv, WorkOK
    <3>3. CASE journal[cur].kind = "migrate"
      <4>1. state'.gen = state.gen
        BY <1>1, <1>2, <3>3 DEF InstallInv, JournalOK
      <4> QED
        BY <2>1, <4>1 DEF ChainInv, PassedOK
    <3> QED
      BY <1>4, <3>2, <3>3
  <2> QED
    BY <1>5, <2>1 DEF SameConcern
<1>7. ASSUME NEW m \in Dir, journal[m].kind = "migrate", journal[m].phase = "complete"
      PROVE  state' # Prev(m)
  <2>1. m # cur /\ ~Fresh(m) /\ Prev(m) # None /\ Prev(m).layout = "legacy"
    BY <1>2, <1>7 DEF Fresh, NoJournal, InstallInv, JournalOK, ChainInv, MigrateOK
  <2>2. CASE Own(cur)
    <3>1. Cand(cur).gen = cur /\ ~Mentions(m, cur)
      BY <1>1, <1>2, <2>1, <2>2 DEF InstallInv, JournalOK, ChainInv, WorkOK
    <3> QED
      BY <1>1, <2>1, <3>1 DEF Mentions
  <2>3. CASE journal[cur].kind = "migrate"
    BY <1>1, <1>2, <2>1, <2>3 DEF ChainInv, MigrateOK
  <2> QED
    BY <1>4, <2>2, <2>3
<1>8. /\ Onward /\ Along /\ Unfinished' = Unfinished
      /\ HistoryTypeOK' /\ BackupOK' /\ OverOK' /\ PassedOK' /\ MigrateOK' /\ ChainOK'
      /\ ~beside => Newest(c, Unfinished)'
      /\ \A d \in Dir : Open(d)' <=> Open(d)
      /\ \A d \in Dir : (Fresh(d)' <=> Fresh(d)) /\ (Own(d)' <=> Own(d))
      /\ \A d \in Dir : \A g : Mentions(d, g)' <=> Mentions(d, g)
  <2>1. Knows(cur, state') /\ \A x \in Entry : boot'[x] = boot[x]
    BY <1>1 DEF Knows
  <2> QED
    BY <1>1, <1>2, <1>3, <1>6, <1>7, <2>1, NewestWorks
<1>9. WorkOK' /\ NewestOK'
  <2>1. pc' = "verify" /\ cur' = c /\ cur = c /\ base' = base /\ beside' = beside
        /\ backup' = backup
    BY <1>1, <1>3 DEF ghosts
  <2> QED
    BY <1>1, <1>2, <1>8, <2>1 DEF ChainInv, WorkOK, NewestOK
<1> QED
  BY <1>1, <1>2, <1>8, <1>9, NotRecovering DEF ChainInv, Recovering

(* A step fails: nothing has changed yet, or what has is to be restored.   *)
LEMMA FailChain ==
  ASSUME InstallInv, ChainInv, Fail
  PROVE  ChainInv'
<1>1. UNCHANGED <<state, boot, backup, proc, ghosts>> /\ pc \in {"backup", "replace", "verify"}
  BY DEF Fail
<1>2. ~Recovering /\ ~Recovering' /\ cur \in Dir /\ ~Fresh(cur)
  BY <1>1 DEF ChainInv, TodoOK, Recovering, InstallInv, HolderOK
<1>3. TodoOK'
  BY <1>2, NotRecovering
<1>4. CASE pc = "backup"
  <2>1. /\ pc' = "idle" /\ gens' = IF journal[cur].kind = "migrate" THEN gens ELSE gens \ {cur}
        /\ Phase(cur, IF journal[cur].kind = "migrate" THEN "removed" ELSE "ready")
        /\ state = Prev(cur) /\ base[cur] = boot /\ (Own(cur) => journal[cur].phase = "ready")
    BY <1>4 DEF Fail, At, Idle, Goto, InstallInv, HolderOK, ChainInv, WorkOK
  <2>2. /\ SameConcern
        /\ \A d \in Dir : backup'[d] \in {None, backup[d]}
        /\ ~beside => \A m \in Dir : journal[m].kind = "migrate" /\ journal[m].phase = "complete"
                                     => state' # Prev(m)
    BY <1>1 DEF SameConcern, ChainInv, MigrateOK
  <2>3. CASE journal[cur].kind = "migrate"
    <3>1. "removed" \in Terminal \cup Gone
      BY DEF Gone
    <3>2. /\ Onward /\ Along /\ Unfinished' = Unfinished \ {cur}
          /\ journal'[cur].phase = "removed" /\ \A e \in Dir \ {cur} : journal'[e] = journal[e]
      BY <1>1, <1>2, <2>1, <2>3, <3>1, CloseStep
    <3>3. ~beside => Unfinished = {}
      BY <1>4, <2>3 DEF ChainInv, NewestOK, Own
    <3>4. ~beside => Unfinished' = Unfinished /\ Explained(state', boot', Unfinished')
      BY <1>1, <3>2, <3>3 DEF ChainInv, ChainOK
    <3>5. \A m \in Dir : journal'[m].phase \in {journal[m].phase, "intent", "cleaned", "removed"}
      BY <3>2
    <3>6. HistoryTypeOK' /\ BackupOK' /\ OverOK' /\ PassedOK' /\ MigrateOK' /\ ChainOK'
      BY <2>2, <3>2, <3>4, <3>5, StepKeeps
    <3> QED
      BY <1>3, <2>1, <2>2, <3>2, <3>6, LockFree DEF ChainInv
  <2>4. CASE journal[cur].kind # "migrate"
    <3>1. Own(cur)
      BY <1>2, <2>4 DEF Own, InstallInv, ProgramTypeOK, JournalOK, Kinds
    <3>2. SameJournals /\ \A e \in Dir : journal'[e].phase = journal[e].phase
      BY <1>2, <2>1, <2>4, <3>1, PhaseStep DEF InstallInv, Phases
    <3>3. \A v \in Unfinished \ {cur} : ~Mentions(v, cur)
      <4>1. ASSUME NEW v \in Unfinished
            PROVE  v \in Dir /\ ~Fresh(v)
        BY DEF Unfinished, ChainInv, HistoryTypeOK, Open, Fresh, NoJournal, Gone
      <4> QED
        BY <1>4, <3>1, <4>1 DEF ChainInv, WorkOK
    <3>4. Onward /\ Along /\ Unfinished' = Unfinished \ {cur}
      BY <1>1, <1>2, <2>1, <2>4, <3>1, <3>2, <3>3, DropsNewest
    <3>5. ~beside /\ cur \in Unfinished => Newest(cur, Unfinished)
      BY <1>4 DEF ChainInv, NewestOK
    <3>6. ~beside => \/ Unfinished' = Unfinished
                     \/ \E t \in Unfinished : Newest(t, Unfinished) /\ Unfinished' = Unfinished \ {t}
      BY <3>4, <3>5
    <3>7. ~beside => Explained(state', boot', Unfinished')
      <4>1. CASE cur \in Unfinished
        BY <1>1, <2>1, <3>4, <3>5, <4>1, NewestUndone DEF ChainInv, ChainOK
      <4>2. CASE cur \notin Unfinished
        <5>1. Unfinished' = Unfinished
          BY <3>4, <4>2
        <5> QED
          BY <1>1, <5>1 DEF ChainInv, ChainOK
      <4> QED
        BY <4>1, <4>2
    <3>8. HistoryTypeOK' /\ BackupOK' /\ OverOK' /\ PassedOK' /\ MigrateOK' /\ ChainOK'
      BY <2>2, <3>2, <3>4, <3>6, <3>7, StepKeeps
    <3> QED
      BY <1>3, <2>1, <2>2, <3>4, <3>8, LockFree DEF ChainInv
  <2> QED
    BY <2>3, <2>4
<1>5. CASE pc \in {"replace", "verify"}
  <2>1. UNCHANGED <<gens, journal, cur>> /\ pc' = "restore"
    BY <1>5 DEF Fail, At, Goto
  <2>2. cur \in Unfinished /\ Open(cur) /\ journal[cur].phase = "intent"
    BY <1>5, WorkUnfinished
  <2>3. /\ Onward /\ Along
        /\ HistoryTypeOK' /\ OverOK' /\ PassedOK' /\ BackupOK' /\ MigrateOK' /\ ChainOK'
        /\ Unfinished' = Unfinished
        /\ \A d \in Dir : Open(d)' <=> Open(d)
    BY <1>1, <2>1, StillKeeps
  <2>4. PICK c \in Dir : c = cur
    BY <1>2
  <2>5. ~beside => Newest(c, Unfinished)'
    <3>1. ~beside => Newest(c, Unfinished)
      BY <1>5, <2>2, <2>4 DEF ChainInv, NewestOK
    <3> QED
      BY <2>3, <3>1, NewestKept DEF ChainInv
  <2>6. WorkOK' /\ NewestOK'
    <3>1. \A e \in Dir : (Fresh(e)' <=> Fresh(e)) /\ (Own(e)' <=> Own(e))
      BY <2>3, AlongFacts DEF ChainInv
    <3>2. pc' = "restore" /\ cur' = c /\ cur = c /\ beside' = beside /\ backup' = backup
      BY <1>1, <2>1, <2>4 DEF ghosts
    <3> QED
      BY <2>2, <2>3, <2>5, <3>1, <3>2 DEF ChainInv, WorkOK, NewestOK
  <2> QED
    BY <1>3, <2>3, <2>6 DEF ChainInv
<1> QED
  BY <1>1, <1>4, <1>5

(* Where the state is one of the two that d knows, d did not begin before  *)
(* the last that completed.                                                *)
LEMMA ConcernedIsRecent ==
  ASSUME ChainInv, NEW d \in Dir, Counts(d), Knows(d, state)
  PROVE  d \in DOMAIN base
BY DEF ChainInv, PassedOK, Knows, Mentions

(* The entries are as the newest found them: now the state is, too.        *)
LEMMA RestoreStateChain ==
  ASSUME InstallInv, ChainInv, RestoreState
  PROVE  ChainInv'
<1>1. /\ UNCHANGED <<gens, boot, backup, proc, ghosts>> /\ state' = Prev(cur)
      /\ pc = "restore" /\ backup[cur] # None /\ ToRestore = {}
      /\ cur \in Dir /\ ~Fresh(cur) /\ Knows(cur, state)
      /\ (Own(cur) => journal[cur].phase # "ready" /\ (Open(cur) \/ SetAside(cur)))
      /\ (~beside => cur \in Unfinished)
  BY DEF RestoreState, At, Prev, Cand, Knows, InstallInv, HolderOK, ChainInv, WorkOK, NewestOK
<1>2. Own(cur) \/ journal[cur].kind = "migrate"
  BY <1>1 DEF Own, InstallInv, ProgramTypeOK, JournalOK, Kinds
<1>3. journal[cur].phase # "ready" /\ cur \in DOMAIN base
  BY <1>1, <1>2, ConcernedIsRecent DEF ChainInv, MigrateOK, Counts
<1>4. SameConcern /\ Knows(cur, state')
  BY <1>1, <1>3 DEF SameConcern, Knows
<1>5. ~beside => \A m \in Dir : journal[m].kind = "migrate" /\ journal[m].phase = "complete"
                              => state' # Prev(m)
  BY <1>1 DEF ChainInv, MigrateOK
<1>6. PICK c \in Dir : c = cur
  BY <1>1
<1>7. ~beside => Newest(c, Unfinished)
  BY <1>1, <1>6 DEF ChainInv, NewestOK
<1>8. ~beside => boot' = base[cur]
  <2> SUFFICES ASSUME ~beside
               PROVE  boot = base[cur]
    BY <1>1
  <2>1. Fits(state, boot, cur)
    BY <1>1, <1>6, <1>7, NewestExplains
  <2>2. backup[cur] = [x \in TargetsOf(cur) |-> base[cur][x]]
    BY <1>1, <1>3 DEF ChainInv, BackupOK
  <2>3. \A x \in Entry : boot[x] = base[cur][x]
    BY <1>1, <2>1, <2>2 DEF Fits, ToRestore
  <2>4. boot \in [Entry -> Files] /\ base[cur] \in [Entry -> Files]
    BY <1>3 DEF InstallInv, ProgramTypeOK, ChainInv, HistoryTypeOK
  <2> QED
    BY <2>3, <2>4
<1>9. ASSUME UNCHANGED journal
      PROVE  /\ Onward /\ Along /\ Unfinished' = Unfinished
             /\ HistoryTypeOK' /\ BackupOK' /\ OverOK' /\ PassedOK' /\ MigrateOK' /\ ChainOK'
             /\ ~beside => Newest(c, Unfinished)'
             /\ \A d \in Dir : Open(d)' <=> Open(d)
             /\ \A d \in Dir : (Fresh(d)' <=> Fresh(d)) /\ (Own(d)' <=> Own(d))
  <2>1. \A x \in Entry : boot'[x] = boot[x]
    BY <1>1
  <2> QED
    BY <1>1, <1>3, <1>4, <1>5, <1>6, <1>9, <2>1, NewestWorks
<1>10. CASE Own(cur)
  <2>1. /\ pc' = "dropGeneration" /\ cur' = c /\ cur = c /\ todo' = todo /\ journal' = journal
        /\ beside' = beside /\ base' = base /\ backup' = backup /\ proc' = proc
        /\ (SetAside(c)' <=> SetAside(c))
    BY <1>1, <1>6, <1>10 DEF RestoreState, Goto, Own, SetAside, ghosts
  <2>2. TodoOK'
    <3>1. CASE Recovering
      BY <1>1, <1>9, <2>1, <3>1, TodoKept DEF ChainInv, TodoOK
    <3>2. CASE ~Recovering
      BY <2>1, <3>2, NotRecovering DEF Recovering
    <3> QED
      BY <3>1, <3>2
  <2>3. WorkOK'
    BY <1>1, <1>9, <1>10, <2>1 DEF ChainInv, WorkOK
  <2>4. NewestOK'
    <3>1. Prev(c)' = Prev(c)
      BY <2>1 DEF Prev
    <3> QED
      BY <1>1, <1>8, <1>9, <2>1, <3>1 DEF NewestOK
  <2> QED
    BY <1>9, <2>1, <2>2, <2>3, <2>4 DEF ChainInv
<1>11. CASE ~Own(cur) /\ ~Recovering
  <2>1. pc' = "idle" /\ journal' = journal /\ ~Recovering'
    BY <1>1, <1>2, <1>11 DEF RestoreState, Idle, Goto, Own, Recovering
  <2>2. \A d \in Dir : backup'[d] \in {None, backup[d]}
    BY <1>1
  <2> QED
    BY <1>9, <2>1, <2>2, LockFree, NotRecovering DEF ChainInv
<1>12. CASE ~Own(cur) /\ Recovering
  <2>1. /\ pc' = "recover" /\ Phase(cur, "removed") /\ cur' = cur /\ todo' = todo
        /\ journal[cur].kind = "migrate" /\ cur \notin todo /\ todo \subseteq Dir
    BY <1>1, <1>2, <1>12 DEF RestoreState, Goto, Own, ChainInv, TodoOK, InstallInv, ProgramTypeOK
  <2>2. "removed" \in Terminal \cup Gone
    BY DEF Gone
  <2>3. /\ Onward /\ Along /\ Unfinished' = Unfinished \ {cur}
        /\ journal'[cur].phase = "removed" /\ \A e \in Dir \ {cur} : journal'[e] = journal[e]
    BY <1>1, <2>1, <2>2, CloseStep
  <2>4. /\ ~beside => \/ Unfinished' = Unfinished
                      \/ \E t \in Unfinished : Newest(t, Unfinished) /\ Unfinished' = Unfinished \ {t}
        /\ ~beside => Explained(state', boot', Unfinished')
        /\ \A d \in Dir : backup'[d] \in {None, backup[d]}
        /\ \A m \in Dir : journal'[m].phase \in {journal[m].phase, "intent", "cleaned", "removed"}
    BY <1>1, <1>6, <1>7, <1>8, <2>3, NewestUndone DEF ChainInv, ChainOK
  <2>5. HistoryTypeOK' /\ BackupOK' /\ OverOK' /\ PassedOK' /\ MigrateOK' /\ ChainOK'
    BY <1>4, <1>5, <2>3, <2>4, StepKeeps
  <2>6. TodoOK'
    <3>1. \A e \in todo' : journal'[e].phase = journal[e].phase
      BY <2>1, <2>3
    <3> QED
      BY <1>12, <2>1, <2>3, <3>1, TodoKept DEF ChainInv
  <2>7. WorkOK' /\ NewestOK'
    <3>1. \A e \in Dir : Fresh(e)' <=> Fresh(e)
      BY <2>3, AlongFacts DEF ChainInv
    <3> QED
      BY <1>1, <2>1, <3>1 DEF ChainInv, WorkOK, NewestOK
  <2> QED
    BY <2>5, <2>6, <2>7 DEF ChainInv
<1> QED
  BY <1>10, <1>11, <1>12

(* What is complete, and what it superseded, is tidied up.                 *)
LEMMA CleanChain ==
  ASSUME InstallInv, ChainInv, Clean
  PROVE  ChainInv'
<1>1. /\ UNCHANGED <<state, gens, corrupt, boot, backup, proc, ghosts>> /\ pc = "clean" /\ pc' = "idle"
  BY DEF Clean, At, Idle, Goto
<1>2. ~Recovering'
  BY <1>1 DEF ChainInv, TodoOK, Recovering
<1>3. /\ SameJournals
      /\ \A d \in Dir : journal'[d].phase \in {journal[d].phase, "removed", "cleaned"}
  BY CleanStep DEF InstallInv
<1>4. \A d \in Dir : (Open(d)' => Open(d)) /\ (SetAside(d)' => SetAside(d))
  BY <1>3 DEF Open, SetAside, SameJournals, Gone
<1>5. Onward /\ Along
  BY <1>1, <1>3, <1>4 DEF Onward, Along
<1>6. ~beside => Unfinished = {} /\ Unfinished' = {}
  BY <1>1, <1>5, OnwardFacts DEF ChainInv, NewestOK
<1>7. HistoryTypeOK' /\ BackupOK' /\ OverOK' /\ PassedOK' /\ MigrateOK' /\ ChainOK'
  <2>1. /\ SameConcern
        /\ \A d \in Dir : backup'[d] \in {None, backup[d]}
        /\ ~beside => \A m \in Dir : journal[m].kind = "migrate" /\ journal[m].phase = "complete"
                                     => state' # Prev(m)
        /\ ~beside => Unfinished' = Unfinished
        /\ ~beside => Explained(state', boot', Unfinished')
    BY <1>1, <1>6 DEF SameConcern, ChainInv, MigrateOK, ChainOK
  <2> QED
    BY <1>3, <1>5, <2>1, StepKeeps
<1> QED
  BY <1>1, <1>2, <1>5, <1>7, LockFree, NotRecovering DEF ChainInv

(* A transaction completes: an update or an install ends what went before. *)
LEMMA FinishChain ==
  ASSUME InstallInv, ChainInv, Finish
  PROVE  ChainInv'
<1>1. /\ UNCHANGED <<state, gens, boot, backup, proc, cur>> /\ pc = "verify" /\ pc' = "clean"
      /\ Phase(cur, "complete") /\ Intact(state)
      /\ IF journal[cur].kind = "migrate" THEN UNCHANGED ghosts
         ELSE DOMAIN base' = {} /\ beside' = FALSE
      /\ state = Cand(cur)
  BY DEF Finish, At, Goto, InstallInv, HolderOK
<1>2. /\ cur \in Unfinished /\ cur \in Dir /\ ~Fresh(cur) /\ Open(cur)
      /\ journal[cur].phase = "intent" /\ ~Recovering
  BY <1>1, WorkUnfinished
<1>3. TodoOK'
  BY <1>1, <1>2, NotRecovering DEF Recovering
<1>4. /\ SameJournals /\ journal'[cur].phase = "complete"
      /\ \A e \in Dir \ {cur} : journal'[e] = journal[e]
  BY <1>1, <1>2, PhaseStep DEF InstallInv, Phases, Terminal
<1>5. state # None /\ CompleteFor(state', boot')
  BY <1>1, IntactComplete DEF Intact, Baseline, Trusted
<1>6. CASE journal[cur].kind = "migrate"
  <2>1. "complete" \in Terminal \cup Gone
    BY DEF Terminal
  <2>2. Onward /\ Along /\ Unfinished' = Unfinished \ {cur}
    BY <1>1, <1>2, <1>6, <2>1, CloseStep
  <2>3. ~beside => Newest(cur, Unfinished)
    BY <1>1, <1>2 DEF ChainInv, NewestOK
  <2>4. ~beside => Unfinished' = {}
    BY <1>2, <1>6, <2>2, <2>3, MigratesAlone
  <2>5. SameConcern /\ \A d \in Dir : backup'[d] \in {None, backup[d]}
    BY <1>1 DEF SameConcern
  <2>6. HistoryTypeOK' /\ OverOK' /\ PassedOK' /\ BackupOK'
    BY <2>2, <2>5, AlongKeeps, BackupKept DEF ChainInv, InstallInv
  <2>7. ChainOK'
    <3>1. UNCHANGED beside /\ Agree(Unfinished')
      BY <2>2, AlongFacts DEF ChainInv, Unfinished
    <3>2. ~beside => Explained(state', boot', Unfinished')
      BY <1>5, <2>4 DEF Explained
    <3> QED
      BY <1>2, <2>2, <2>3, <3>1, <3>2, ChainKept DEF ChainInv
  <2>8. MigrateOK'
    <3>1. Prev(cur).layout = "legacy" /\ Cand(cur).layout = "managed"
      BY <1>2, <1>6 DEF ChainInv, MigrateOK
    <3>2. \A m \in Dir : \/ journal'[m].phase = journal[m].phase
                         \/ m = cur /\ journal'[m].phase = "complete" /\ state' # Prev(m)
      BY <1>1, <1>4, <3>1
    <3>3. Unfinished' \subseteq Unfinished
      BY <2>2
    <3> QED
      BY <1>1, <2>2, <2>4, <3>2, <3>3, AlongFacts DEF ChainInv, MigrateOK
  <2>9. WorkOK' /\ NewestOK'
    <3>1. (\A e \in Dir : Fresh(e)' <=> Fresh(e)) /\ beside' = beside
      BY <2>2, AlongFacts DEF ChainInv
    <3> QED
      BY <1>1, <2>4, <3>1 DEF ChainInv, WorkOK, NewestOK
  <2> QED
    BY <1>3, <2>6, <2>7, <2>8, <2>9 DEF ChainInv
<1>7. CASE journal[cur].kind # "migrate"
  <2>1. Own(cur) /\ Cand(cur).gen = cur
    BY <1>2, <1>7 DEF Own, InstallInv, ProgramTypeOK, JournalOK, Kinds
  <2>2. DOMAIN base' = {} /\ beside' = FALSE /\ Unfinished' = {}
    BY <1>1, <1>7 DEF Unfinished
  <2>3. \A d \in Dir \ {cur} : ~Fresh(d) => ~Mentions(d, cur)
    BY <1>1, <2>1 DEF ChainInv, WorkOK
  <2>4. \A d \in Dir : /\ Prev(d)' = Prev(d) /\ Cand(d)' = Cand(d)
                       /\ (Fresh(d)' <=> Fresh(d))
                       /\ journal'[d].kind = journal[d].kind
                       /\ journal'[d].over = journal[d].over
    BY <1>4 DEF SameJournals, Prev, Cand
  <2>5. \A d \in Dir : \A g : Mentions(d, g)' <=> Mentions(d, g)
    BY <2>4 DEF Mentions
  <2>6. HistoryTypeOK' /\ BackupOK'
    BY <2>2 DEF HistoryTypeOK, BackupOK
  <2>7. OverOK'
    <3>1. \A d \in Dir : journal[d].over \subseteq Dir
      BY DEF InstallInv, ProgramTypeOK
    <3> QED
      BY <2>2, <2>4, <2>5, <3>1 DEF ChainInv, OverOK
  <2>8. PassedOK'
    <3>1. ~Counts(cur)' /\ cur' = cur /\ \A e \in Dir : Counts(e)' => ~Fresh(e)
      BY <1>1, <1>2, <1>4, <1>7, <2>4 DEF Counts, Open, SetAside, Terminal
    <3> QED
      BY <1>1, <1>5, <1>7, <2>1, <2>2, <2>3, <2>4, <2>5, <3>1 DEF PassedOK
  <2>9. MigrateOK'
    <3>1. ASSUME NEW m \in Dir, journal[m].kind = "migrate"
          PROVE  state' # Prev(m) /\ m # cur
      <4>1. m # cur /\ ~Fresh(m)
        BY <1>7, <3>1 DEF Fresh, NoJournal
      <4> QED
        BY <1>1, <1>5, <2>1, <2>3, <4>1 DEF Mentions
    <3>2. \A m \in Dir \ {cur} : journal'[m].phase = journal[m].phase
      BY <1>4
    <3> QED
      BY <2>2, <2>4, <3>1, <3>2 DEF ChainInv, MigrateOK
  <2>10. ChainOK'
    <3>1. InOrder({})' /\ PastOK({})'
      BY DEF InOrder, PastOK
    <3>2. PICK s, b : s = state' /\ b = boot'
      OBVIOUS
    <3>3. CompleteFor(s, b)
      BY <1>5, <3>2
    <3>4. Explained(s, b, {})'
      BY <3>3 DEF Explained, CompleteFor
    <3> QED
      BY <2>2, <3>1, <3>2, <3>4 DEF ChainOK
  <2>11. WorkOK' /\ NewestOK'
    BY <1>1, <2>2, <2>4 DEF ChainInv, WorkOK, NewestOK
  <2> QED
    BY <1>3, <2>6, <2>7, <2>8, <2>9, <2>10, <2>11 DEF ChainInv
<1> QED
  BY <1>6, <1>7

(***************************************************************************)
(* Transactions that begin.                                                *)
(***************************************************************************)

(* What begins, and when.                                                  *)
Starts(d, kind, cand, over) ==
  /\ Begin(d, kind, cand, over)
  /\ kind # "migrate" => cand.gen = d
  /\ kind = "migrate" => state.layout = "legacy" /\ cand.layout = "managed"
  /\ kind # "install" => over = {} /\ state # None /\ state.gen \in gens
  /\ kind = "migrate" => cand.gen = state.gen
  /\ kind = "apply" => \A u \in Unfinished : journal[u].kind # "apply"
  /\ \A e \in over : Own(e) /\ Open(e) /\ Readable(e) /\ Knows(e, state)
  /\ pc = "idle" /\ proc' \in {proc, NoProc}

LEMMA HowTheyStart ==
  ASSUME InstallInv, ChainInv, NEW d \in Dir, NEW layout \in Layouts,
         Migrate(d) \/ Apply(d) \/ Install(d, layout)
  PROVE  \E kind \in Kinds, cand \in [gen : Gen, layout : Layouts], over \in SUBSET Dir :
           Starts(d, kind, cand, over)
<1>1. CASE Install(d, layout)
  <2> DEFINE c == [gen |-> d, layout |-> layout]
             over == IF proc.failed THEN Supersedable ELSE {}
  <2>1. c \in [gen : Gen, layout : Layouts] /\ c.gen = d
    BY DEF Gen
  <2>2. /\ over \in SUBSET Dir
        /\ \A e \in over : Own(e) /\ Open(e) /\ Readable(e) /\ Knows(e, state)
    BY DEF Supersedable, Own, Owns, Knows, Prev, Cand
  <2>3. Begin(d, "install", c, over) /\ pc = "idle" /\ proc' = NoProc
    BY <1>1 DEF Install, At
  <2> HIDE DEF c, over
  <2>4. Starts(d, "install", c, over)
    BY <2>1, <2>2, <2>3 DEF Starts
  <2> QED
    BY <2>1, <2>2, <2>4 DEF Kinds
<1>2. CASE Apply(d)
  <2> DEFINE c == [gen |-> d, layout |-> state.layout]
  <2>1. state \in [gen : Gen, layout : Layouts]
    BY <1>2 DEF Apply, InstallInv, ProgramTypeOK, States
  <2>2. c \in [gen : Gen, layout : Layouts] /\ c.gen = d
    BY <2>1 DEF Gen
  <2>3. /\ Begin(d, "apply", c, {}) /\ pc = "idle" /\ proc' = proc
        /\ state # None /\ state.gen \in gens /\ ~OpenUpdate
    BY <1>2 DEF Apply, At, Baseline, Trusted
  <2>4. \A u \in Unfinished : journal[u].kind # "apply"
    BY <2>3 DEF OpenUpdate, Unfinished, ChainInv, HistoryTypeOK
  <2> HIDE DEF c
  <2>5. Starts(d, "apply", c, {})
    BY <2>2, <2>3, <2>4 DEF Starts
  <2> QED
    BY <2>2, <2>5 DEF Kinds
<1>3. CASE Migrate(d)
  <2> DEFINE c == [state EXCEPT !.layout = "managed"]
  <2>1. PICK replace \in BOOLEAN : CanMigrate(replace)
    BY <1>3 DEF Migrate
  <2>2. state # None /\ Baseline(state)
    BY <2>1 DEF CanMigrate
  <2>3. state \in [gen : Gen, layout : Layouts]
    BY <2>2 DEF InstallInv, ProgramTypeOK, States
  <2>4. c \in [gen : Gen, layout : Layouts] /\ c.gen = state.gen /\ c.layout = "managed"
    BY <2>3 DEF Layouts
  <2>5. state.layout = "legacy"
    <3> SUFFICES ASSUME state.layout = "managed"
                 PROVE  FALSE
      BY <2>3 DEF Layouts
    <3>1. boot["cli"] = FileOf(state.gen, "cli")
      BY <2>2 DEF Baseline, Stands, Managed, Entry
    <3>2. FileOf(state.gen, "cli") # FileOf(state.gen, "app")
      BY DEF FileOf
    <3>3. Intact(state)
      BY <2>1, <2>2, <3>1, <3>2 DEF CanMigrate, Intact
    <3> QED
      BY <2>1, <3>3 DEF CanMigrate
  <2>6. Begin(d, "migrate", c, {}) /\ pc = "idle" /\ proc' = NoProc
    BY <1>3 DEF Migrate, At
  <2>7. state.gen \in gens
    BY <2>2 DEF Baseline, Trusted
  <2> HIDE DEF c
  <2>8. Starts(d, "migrate", c, {})
    BY <2>2, <2>4, <2>5, <2>6, <2>7 DEF Starts
  <2> QED
    BY <2>4, <2>8 DEF Kinds
<1> QED
  BY <1>1, <1>2, <1>3

LEMMA BeginChain ==
  ASSUME InstallInv, ChainInv, NEW d \in Dir, NEW kind \in Kinds,
         NEW cand \in [gen : Gen, layout : Layouts], NEW over \in SUBSET Dir,
         Starts(d, kind, cand, over)
  PROVE  ChainInv'
<1> DEFINE X == Unfinished
<1>1. /\ UNCHANGED <<state, boot, backup, todo>> /\ Fresh(d) /\ gens' = gens \cup {cand.gen}
      /\ pc = "idle" /\ pc' = "backup" /\ cur' = d
      /\ base' = [e \in DOMAIN base \cup {d} |-> IF e = d THEN boot ELSE base[e]]
      /\ beside' = (beside \/ (kind # "apply" /\ ~(X \subseteq over)))
  BY DEF Starts, Begin, Goto
<1>2. /\ journal'[d].kind = kind /\ journal'[d].prev = state
      /\ journal'[d].cand = cand /\ journal'[d].over = over
      /\ journal'[d].phase = IF kind = "migrate" THEN "unwritten" ELSE "ready"
      /\ ~Fresh(d)' /\ \A e \in Dir \ {d} : journal'[e] = journal[e]
  BY BeginStep DEF Starts, InstallInv
<1>3. NeverUsed(d) /\ d \notin gens /\ journal[d].kind = "none" /\ ~Own(d) /\ ~Open(d)
      /\ journal[d].over = {}
  BY <1>1 DEF InstallInv, UnusedOK, Fresh, NoJournal, Own, Open, Gone
<1>4. DOMAIN base \subseteq Dir /\ X \subseteq Dir /\ d \notin X
  BY <1>3 DEF ChainInv, HistoryTypeOK, Unfinished
<1>5. base'[d] = boot /\ DOMAIN base' = DOMAIN base \cup {d}
      /\ \A e \in DOMAIN base \ {d} : base'[e] = base[e]
  BY <1>1
<1>6. \A e \in Dir \ {d} : /\ Prev(e)' = Prev(e) /\ Cand(e)' = Cand(e)
                            /\ (Own(e)' <=> Own(e)) /\ (Fresh(e)' <=> Fresh(e))
                            /\ (Open(e)' <=> Open(e))
                            /\ (\A g : Mentions(e, g)' <=> Mentions(e, g))
                            /\ TargetsOf(e)' = TargetsOf(e)
  BY <1>2 DEF Prev, Cand, Own, Fresh, Open, Mentions, TargetsOf
<1>7. \A e \in Dir \ {d} : ~Fresh(e) => ~Mentions(e, d)
  BY <1>3 DEF NeverUsed, Mentions, Own, InstallInv, JournalOK, ProgramTypeOK, Kinds
<1>8. Prev(d)' = state /\ Cand(d)' = cand /\ (Own(d)' <=> kind # "migrate")
  BY <1>2 DEF Prev, Cand, Own, Kinds
<1>9. HistoryTypeOK'
  <2>1. boot \in [Entry -> Files] /\ beside' \in BOOLEAN
    BY <1>1 DEF InstallInv, ProgramTypeOK, ChainInv, HistoryTypeOK
  <2>2. \A e \in DOMAIN base' : base'[e] \in [Entry -> Files]
    BY <1>5, <2>1 DEF ChainInv, HistoryTypeOK
  <2> QED
    BY <1>4, <1>5, <2>1, <2>2 DEF HistoryTypeOK
<1>10. BackupOK'
  <2>1. backup[d] = None
    BY <1>1 DEF ChainInv, WorkOK
  <2>2. ASSUME NEW e \in DOMAIN base \ {d}, backup[e] # None
        PROVE  backup[e] = [x \in TargetsOf(e)' |-> base'[e][x]]
    BY <1>4, <1>5, <1>6, <2>2 DEF ChainInv, BackupOK
  <2> QED
    BY <1>1, <1>5, <2>1, <2>2 DEF BackupOK
<1>11. OverOK'
  <2>1. \A e \in Dir : journal[e].over \subseteq Dir /\ d \notin journal[e].over
    BY <1>3 DEF InstallInv, ProgramTypeOK, JournalOK
  <2>2. \A u \in over : u # d /\ ~Mentions(u, d) /\ u \in Dir
    BY <1>3, <1>7 DEF Starts, Open, Fresh, NoJournal, Gone
  <2>3. /\ over # {} => kind = "install"
        /\ kind = "apply" => state # None
    BY DEF Starts
  <2>4. \A e \in Dir \ {d} : /\ journal'[e].over = journal[e].over /\ journal'[e].kind = journal[e].kind
    BY <1>2
  <2> QED
    BY <1>2, <1>5, <1>6, <1>8, <2>1, <2>2, <2>3, <2>4 DEF ChainInv, OverOK
<1>12. PassedOK'
  <2>1. ASSUME NEW e \in Dir \ DOMAIN base', Counts(e)'
        PROVE  /\ state # None /\ ~Mentions(e, state.gen)
               /\ \A v \in DOMAIN base : Prev(v) # None /\ ~Mentions(e, Prev(v).gen)
    <3>1. e # d /\ e \in Dir \ DOMAIN base
      BY <1>5
    <3>2. Counts(e)
      BY <1>2, <1>6, <2>1, <3>1 DEF Counts, SetAside
    <3> QED
      BY <3>1, <3>2 DEF ChainInv, PassedOK
  <2>2. ASSUME ~beside', NEW e \in DOMAIN base'
        PROVE  ~SetAside(e)'
    <3>1. ~beside
      BY <1>1, <2>2 DEF ChainInv, HistoryTypeOK
    <3> QED
      BY <1>2, <1>4, <1>5, <2>2, <3>1 DEF ChainInv, PassedOK, SetAside
  <2> QED
    BY <1>1, <1>4, <1>5, <1>6, <1>8, <2>1, <2>2 DEF PassedOK
<1>13. TodoOK'
  <2>1. ~Recovering
    BY <1>1 DEF ChainInv, TodoOK
  <2> QED
    BY <2>1, NotRecovering DEF Starts, Recovering, NoProc
<1>14. WorkOK'
  <2>1. \A e \in Dir \ {d} : ~Fresh(e)' => ~Mentions(e, d)'
    BY <1>6, <1>7
  <2> QED
    BY <1>1, <1>2, <1>5, <1>6, <2>1 DEF ChainInv, WorkOK
<1>15. \A e \in Dir \ {d} : Open(e) => (Readable(e)' <=> Readable(e))
  <2>1. ASSUME NEW e \in Dir \ {d}, Open(e)
        PROVE  ~Fresh(e) /\ ~Mentions(e, d)
    BY <1>7, <2>1 DEF Open, Fresh, NoJournal, Gone
  <2>2. gens' = gens \/ gens' = gens \cup {d}
    BY <1>1 DEF Starts
  <2> QED
    BY <1>2, <2>1, <2>2 DEF Readable, Trusted, Mentions, Prev, Cand
<1>16. Unfinished' = IF kind = "migrate" THEN X ELSE X \cup {d}
  <2>1. Open(d)' <=> kind # "migrate"
    BY <1>2 DEF Open, Terminal, Gone
  <2>2. kind # "migrate" => Readable(d)'
    <3>1. cand # None
      BY InstallAssumption DEF Gen, Layouts
    <3> QED
      BY <1>1, <1>2, <3>1 DEF Readable, Trusted, Starts
  <2>3. \A e \in DOMAIN base \ {d} : Open(e)' /\ Readable(e)' <=> Open(e) /\ Readable(e)
    BY <1>4, <1>6, <1>15
  <2>4. Unfinished' = {e \in DOMAIN base \cup {d} : Open(e)' /\ Readable(e)'}
    BY <1>5 DEF Unfinished
  <2> QED
    BY <1>3, <2>1, <2>2, <2>3, <2>4 DEF Unfinished
<1>17. \A Y \in SUBSET X : Agree(Y)
  BY <1>2, <1>4, <1>5 DEF Agree, Unfinished
<1>18. ASSUME ~beside'
       PROVE  ~beside /\ (kind = "apply" \/ X \subseteq over)
  BY <1>1, <1>18 DEF ChainInv, HistoryTypeOK
<1>19. ASSUME ~beside', kind = "migrate"
       PROVE  X = {}
  BY <1>18, <1>19 DEF Starts
<1>20. ASSUME ~beside', kind # "migrate", NEW u \in X
       PROVE  Older(u, d)' /\ ~Older(d, u)'
  <2>1. u \in Dir \ {d} /\ d \notin journal[u].over /\ journal'[u] = journal[u]
    BY <1>2, <1>3, <1>4 DEF InstallInv, JournalOK
  <2>2. CASE kind = "apply"
    BY <1>2, <2>1, <2>2 DEF Older, Starts
  <2>3. CASE kind = "install"
    BY <1>2, <1>18, <1>20, <2>1, <2>3 DEF Older
  <2> QED
    BY <1>20, <2>2, <2>3 DEF Kinds
<1>21. ChainOK' /\ (~beside' /\ kind # "migrate" => Newest(d, Unfinished)')
  <2>1. PICK s, b, Y : s = state /\ b = boot /\ Y = X
    OBVIOUS
  <2>2. ASSUME ~beside'
        PROVE  /\ InOrder(Y)' /\ PastOK(Y)' /\ Explained(s, b, Y)'
               /\ InOrder(Y) /\ \A u, v \in Y : Older(u, v)' <=> Older(u, v)
               /\ \A v \in Y : Before(v, Y)' = Before(v, Y)
    BY <1>17, <1>18, <2>1, <2>2, OrderKept, PastKept, ExplainedKept DEF ChainInv, ChainOK
  <2>3. CASE beside'
    BY <2>3 DEF ChainOK
  <2>4. CASE ~beside' /\ kind = "migrate"
    <3>1. Unfinished' = Y /\ s = state' /\ b = boot'
      BY <1>1, <1>16, <2>1, <2>4
    <3> QED
      BY <2>2, <2>4, <3>1 DEF ChainOK
  <2>5. CASE ~beside' /\ kind # "migrate"
    <3>1. PICK Z : Z = Y \cup {d}
      OBVIOUS
    <3>2. Unfinished' = Z /\ s = state' /\ b = boot' /\ s = Prev(d)' /\ b = base'[d]
      BY <1>1, <1>5, <1>8, <1>16, <2>1, <2>5, <3>1
    <3>3. \A u \in Y : u # d /\ Older(u, d)' /\ ~Older(d, u)' /\ ~Mentions(u, d)'
      <4>1. ASSUME NEW u \in Y
            PROVE  u \in Dir \ {d} /\ ~Fresh(u)
        BY <1>4, <2>1 DEF Unfinished, Open, Fresh, NoJournal, Gone
      <4>2. ASSUME NEW u \in Y
            PROVE  ~Mentions(u, d)'
        BY <1>6, <1>7, <4>1
      <4> QED
        BY <1>20, <2>1, <2>5, <4>1, <4>2
    <3>4. InOrder(Z)'
      BY <2>2, <2>5, <3>1, <3>3 DEF InOrder
    <3>5. Newest(d, Z)' /\ Before(d, Z)' = Y
      BY <3>1, <3>3 DEF Newest, Before
    <3>6. \A v \in Y : Before(v, Z)' = Before(v, Y)'
      BY <3>1, <3>3 DEF Before
    <3>7. PastOK(Z)'
      <4>1. SUFFICES ASSUME NEW v \in Z
                     PROVE  Explained(Prev(v), base[v], Before(v, Z))'
        BY DEF PastOK
      <4>2. CASE v = d
        BY <2>2, <2>5, <3>2, <3>5, <4>2
      <4>3. CASE v \in Y
        BY <2>2, <2>5, <3>6, <4>3 DEF PastOK
      <4> QED
        BY <3>1, <4>2, <4>3
    <3>8. Fits(s, b, d)'
      BY <3>2 DEF Fits, Knows
    <3>9. Explained(s, b, Z)'
      BY <3>1, <3>5, <3>8 DEF Explained
    <3> QED
      BY <3>2, <3>4, <3>5, <3>7, <3>9 DEF ChainOK
  <2> QED
    BY <2>3, <2>4, <2>5
<1>22. MigrateOK'
  <2>1. ASSUME NEW m \in Dir \ {d}, journal[m].kind = "migrate", ~beside', journal[m].phase = "complete"
        PROVE  state # Prev(m) /\ \A v \in Unfinished' : Prev(v)' # Prev(m)
    <3>1. state # Prev(m) /\ \A v \in X : Prev(v) # Prev(m)
      BY <1>18, <2>1 DEF ChainInv, MigrateOK
    <3> QED
      BY <1>4, <1>6, <1>8, <1>16, <3>1
  <2>2. kind = "migrate" => state.layout = "legacy" /\ cand.layout = "managed"
    BY DEF Starts
  <2>3. \A m \in Dir \ {d} : journal'[m] = journal[m] /\ Prev(m)' = Prev(m) /\ Cand(m)' = Cand(m)
    BY <1>2, <1>6
  <2> QED
    BY <1>1, <1>2, <1>8, <2>1, <2>2, <2>3 DEF ChainInv, MigrateOK
<1>23. NewestOK'
  BY <1>1, <1>8, <1>16, <1>19, <1>21 DEF NewestOK
<1> QED
  BY <1>9, <1>10, <1>11, <1>12, <1>13, <1>14, <1>21, <1>22, <1>23 DEF ChainInv

(* Nothing happens.                                                        *)
LEMMA StutterChain ==
  ASSUME InstallInv, ChainInv, UNCHANGED vars
  PROVE  ChainInv'
<1>1. /\ UNCHANGED <<disk, ghosts>>
      /\ pc' = pc /\ cur' = cur /\ todo' = todo /\ proc' = proc /\ base' = base /\ beside' = beside
      /\ state' = state /\ boot' = boot /\ backup' = backup /\ gens' = gens /\ journal' = journal
  BY DEF vars, disk, ghosts
<1>2. Onward /\ Along /\ Unfinished' = Unfinished
  BY <1>1, DiskSame
<1>3. TodoOK'
  <2>1. CASE Recovering
    <3>1. pc \in {"recover", "restore", "dropGeneration", "mark"} /\ (pc # "recover" => cur \notin todo)
      BY <2>1 DEF ChainInv, TodoOK
    <3> QED
      BY <1>1, <1>2, <2>1, <3>1, TodoKept DEF ChainInv
  <2>2. CASE ~Recovering
    BY <1>1, <2>2, NotRecovering DEF Recovering
  <2> QED
    BY <2>1, <2>2
<1>4. WorkOK' /\ NewestOK'
  BY <1>1 DEF ChainInv, WorkOK, NewestOK, Fresh, Own, Mentions, Open, Prev, Cand, Unfinished,
     Readable, Trusted, Knows, Newest, Older, SetAside
<1> QED
  BY <1>1, <1>3, <1>4, DiskSame DEF ChainInv

LEMMA ChainInductive == Spec => []ChainInv
<1>1. Init => ChainInv
  <2> SUFFICES ASSUME Init
               PROVE  ChainInv
    OBVIOUS
  <2>1. /\ DOMAIN base = {} /\ beside = FALSE /\ pc = "idle" /\ ~Recovering
        /\ \A d \in Dir : journal[d] = NoJournal /\ backup[d] = None
    BY DEF Init, Recovering, NoProc
  <2>2. Unfinished = {}
    BY <2>1 DEF Unfinished
  <2>3. CompleteFor(state, boot)
    <3>1. CASE state = None
      BY <3>1 DEF CompleteFor
    <3>2. CASE state # None
      <4>1. state.layout = "legacy" /\ state.gen = Initial /\ boot["app"] = FileOf(Initial, "app")
        BY <3>2 DEF Init
      <4> QED
        BY <4>1 DEF CompleteFor, Managed
    <3> QED
      BY <3>1, <3>2
  <2>4. HistoryTypeOK /\ BackupOK /\ TodoOK
    BY <2>1 DEF HistoryTypeOK, BackupOK, TodoOK
  <2>5. OverOK /\ PassedOK /\ MigrateOK
    <3>1. \A d \in Dir : Fresh(d)
      BY <2>1 DEF Fresh
    <3>2. \A d \in Dir : journal[d].kind = "none" /\ journal[d].over = {}
      BY <2>1 DEF NoJournal
    <3> QED
      BY <2>1, <3>1, <3>2 DEF OverOK, PassedOK, Counts, MigrateOK
  <2>6. WorkOK /\ NewestOK
    BY <2>1 DEF WorkOK, NewestOK
  <2>7. ChainOK
    BY <2>2, <2>3 DEF ChainOK, InOrder, Explained, PastOK
  <2> QED
    BY <2>4, <2>5, <2>6, <2>7 DEF ChainInv
<1>2. InstallInv /\ ChainInv /\ [Next]_vars => ChainInv'
  <2> SUFFICES ASSUME InstallInv, ChainInv, [Next]_vars
               PROVE  ChainInv'
    OBVIOUS
  <2>1. ASSUME NEW d \in Dir, NEW layout \in Layouts, Migrate(d) \/ Apply(d) \/ Install(d, layout)
        PROVE  ChainInv'
    BY <2>1, HowTheyStart, BeginChain
  <2>2. CASE Transaction
    BY <2>1, <2>2, EndChain, BackupChain, WriteStateChain, FinishChain, CleanChain, FailChain, EntryChain
       DEF Transaction, Layouts
  <2>3. CASE Recover
    BY <2>3, RecoverStartChain, RecoverPassChain, RecoverUndoChain, EndChain DEF Recover
  <2>4. CASE Restore
    BY <2>4, EntryChain, RestoreStateChain, EndChain, DropGenerationChain, MarkChain DEF Restore
  <2>5. CASE Accident
    BY <2>5, EndChain, AccidentChain DEF Accident
  <2> QED
    BY <2>2, <2>3, <2>4, <2>5, StutterChain DEF Next
<1> QED
  BY <1>1, <1>2, InstallInductive, PTL DEF Spec

(***************************************************************************)
(* Theorems.                                                               *)
(***************************************************************************)

(* The types of the install root, for any number of transactions; and that *)
(* a launcher's recovery does not come back for the lock.                  *)
THEOREM InstallTypeCorrect == Spec => []TypeOK
<1>1. InstallInv /\ ChainInv => TypeOK
  BY DEF InstallInv, ChainInv, TypeOK
<1> QED
  BY <1>1, InstallInductive, ChainInductive, PTL

(* Whatever fails, crashes, is undone or set aside (install.go and         *)
(* RecoverInstall), the active generation is there.                        *)
THEOREM ActiveAlwaysPresent == Spec => []ActivePresent
<1>1. InstallInv => ActivePresent
  BY DEF InstallInv, History, Lineage, ActivePresent
<1> QED
  BY <1>1, InstallInductive, PTL

(* When nothing is left to undo, the entries are the active generation's,  *)
(* whatever was interrupted, undone, superseded or set aside in whatever   *)
(* order by RecoverInstall, InstallArchive and MigrateManagedEntries:      *)
(* unless one of them began beside an open transaction.                    *)
THEOREM ClosedIsComplete == Spec => []ClosedMeansComplete
<1>1. InstallInv /\ ChainInv => ClosedMeansComplete
  <2> SUFFICES ASSUME InstallInv, ChainInv, Closed, ~beside
               PROVE  Trusted(state) /\ Stands(state, Managed(state.layout))
    BY DEF ClosedMeansComplete
  <2>1. Unfinished = {} /\ state # None
    BY DEF Closed, Unfinished, ChainInv, HistoryTypeOK
  <2>2. CompleteFor(state, boot)
    BY <2>1 DEF ChainInv, ChainOK, Explained
  <2>3. state.gen \in gens
    BY <2>1 DEF InstallInv, History, Lineage
  <2> QED
    BY <2>1, <2>2, <2>3 DEF CompleteFor, Trusted, Stands
<1> QED
  BY <1>1, InstallInductive, ChainInductive, PTL

(* What a complete install superseded stays as it is: no recovery, however *)
(* late, brings back a backup or a state from before that install.         *)
THEOREM SupersededNeverUndone == Spec => SupersededStays
<1> DEFINE Stays(i, d) ==
      /\ journal[i].kind = "install" /\ journal[i].phase \in {"complete", "cleaned"}
      /\ d \in journal[i].over /\ cur = d
      => UNCHANGED <<state, boot>>
<1>1. InstallInv /\ [Next]_vars => [\A i, d \in Dir : Stays(i, d)]_vars
  <2> SUFFICES ASSUME InstallInv, Next, NEW i \in Dir, NEW d \in Dir,
                      journal[i].kind = "install", journal[i].phase \in {"complete", "cleaned"},
                      d \in journal[i].over, cur = d
               PROVE  UNCHANGED <<state, boot>>
    OBVIOUS
  <2>1. ProgramTypeOK /\ JournalOK /\ HolderOK /\ History
    BY DEF InstallInv
  <2>2. Own(i) /\ Settled(i) /\ Own(d)
    BY <2>1 DEF JournalOK, Own, Settled
  <2>3. PICK rank \in [Gen -> Nat], n \in Nat : Timeline(rank, n) /\ Forward(rank)
    BY <2>1 DEF History
  <2>4. \A e \in Dir : rank[e] \in Nat
    BY DEF Gen
  <2>5. rank[d] < rank[i] /\ state # None /\ rank[i] <= rank[state.gen]
    BY <2>2, <2>3 DEF Timeline, Forward
  <2>6. pc \notin {"replace", "verify"}
    BY <2>2, <2>3, <2>4, <2>5 DEF Timeline
  <2>7. pc # "restore"
    <3>1. state.gen \in Gen /\ rank[state.gen] \in Nat
      BY <2>1, <2>5 DEF ProgramTypeOK, States
    <3>2. rank[d] < rank[state.gen]
      BY <2>4, <2>5, <3>1
    <3>3. state # Cand(d)
      BY <2>1, <2>2, <2>4, <3>2 DEF JournalOK
    <3>4. state # Prev(d)
      BY <2>2, <2>3, <2>4, <2>5, <3>1, <3>2 DEF Timeline
    <3> QED
      BY <2>1, <3>3, <3>4 DEF HolderOK
  <2>8. CASE Transaction
    BY <2>6, <2>8 DEF Transaction, Migrate, Apply, Install, InstallRefused, MigrateRefused,
       Backup, WriteState, Finish, Clean, Fail, Replace, Begin, At, disk
  <2>9. CASE Recover
    BY <2>9 DEF Recover, RecoverStart, RecoverPass, RecoverUndo, RecoverManual, RecoverDone, disk
  <2>10. CASE Restore \/ Accident
    BY <2>7, <2>10 DEF Restore, RestoreEntry, RestoreState, RestoreFails, DropGeneration, Mark,
       Accident, Crash, Corrupt, LoseBackup, At, disk
  <2> QED
    BY <2>8, <2>9, <2>10 DEF Next
<1> QED
  BY <1>1, InstallInductive, PTL DEF Spec, SupersededStays
=============================================================================
