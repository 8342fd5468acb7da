------------------------- MODULE InstallTransaction -------------------------
(***************************************************************************)
(* The other transactions of an install root: the installer's, which lays  *)
(* a verified package over whatever an earlier one left, and the migration *)
(* of the public entries to their current layout; with updates, of which   *)
(* ApplyTransaction has the detail, and with the recovery that a launcher, *)
(* an installer and a migration run first (install.go, transaction.go).    *)
(*                                                                         *)
(* All of them replace the entries one after another and then the state,   *)
(* under the install lock; `pc' is the program counter of its holder.  The *)
(* phases "bootstrap-intent" and "state-intent" (and "entry-intent" of a   *)
(* migration) are recovered alike, and are one phase, "intent", here.      *)
(***************************************************************************)
EXTENDS Integers, FiniteSets

CONSTANTS
  Dir,        \* transaction directories; transaction d creates generation d
  Initial,    \* the generation installed before them
  None,       \* nothing: no file, no state, no backup, no directory
  MaxFaults   \* bound: crashes, failed operations, damaged files

ASSUME InstallAssumption ==
  /\ Initial \notin Dir /\ None \notin Dir \cup {Initial}
  /\ None \notin [gen : Dir \cup {Initial}, layout : {"legacy", "managed"}]
  /\ MaxFaults \in Nat

VARIABLES
  state,     \* install-state.json: active generation and layout of its entries
  gens,      \* generations whose manifest verifies
  corrupt,   \* those of them with a missing or damaged component
  boot,      \* boot[x]: what stands at the public entry x
  journal,   \* journal[d]: the journal in transactions/<d>
  backup,    \* backup[d]: the entries saved there
  proc,      \* the process that recovers, and then may wait for the lock again
  pc, cur,   \* the holder of the lock, and the directory it works on
  todo,      \* directories a recovery has still to look at
  faults,
  base,      \* history: base[d] is what stood at the entries when d began
  beside     \* history: an installer or a migration began beside an open one

disk == <<state, gens, corrupt, boot, journal, backup>>
ghosts == <<base, beside>>
vars == <<disk, proc, pc, cur, todo, faults, ghosts>>

Gen == Dir \cup {Initial}
Layouts == {"legacy", "managed"}
States == [gen : Gen, layout : Layouts] \cup {None}
Kinds == {"apply", "install", "migrate"}
Entry == {"app", "cli", "server"}
Files == [gen : Gen, is : {"gui", "router"}] \cup {None}

NoJournal == [kind |-> "none", phase |-> "none", prev |-> None, cand |-> None, over |-> {}]
Terminal == {"complete", "rolled-back", "obsolete"}
Gone == {"none", "unwritten", "cleaned", "removed"}

(* stableBootstrapTargets: the entries that a layout manages, and what of  *)
(* generation g belongs there.                                             *)
Managed(layout) == IF layout = "managed" THEN Entry ELSE {"app"}
FileOf(g, x) == [gen |-> g, is |-> IF x = "app" THEN "gui" ELSE "router"]
Stands(s, X) == \A x \in X : boot[x] = FileOf(s.gen, x)

(* What inspectState finds: an identity, a rollback baseline (the          *)
(* application's entry may be wrong), a complete installation.             *)
Trusted(s) == s # None /\ s.gen \in gens
Baseline(s) == Trusted(s) /\ s.gen \notin corrupt /\ Stands(s, Managed(s.layout) \ {"app"})
Intact(s) == Baseline(s) /\ Stands(s, {"app"})

Open(d) == journal[d].phase \notin Terminal \cup Gone

(* readInstallJournal and validateApplyJournal: a journal is skipped when  *)
(* a generation that it names does not verify.                             *)
Readable(d) ==
  LET j == journal[d] IN
  CASE j.kind = "install" -> Trusted(j.cand)
    [] j.kind = "apply" -> Trusted(j.prev) /\ Trusted(j.cand)
    [] OTHER -> TRUE

(* Mutant: only what has not yet switched is still its own.                *)
OwnsPrior(d) == state = journal[d].prev

(* The state is one of the two that the transaction knows.                 *)
Owns(d) == state \in {journal[d].prev, journal[d].cand}

(* supersedeUnrecoverableTransactions.                                     *)
Supersedable ==
  {d \in Dir : journal[d].kind \in {"apply", "install"} /\ Open(d) /\ Readable(d) /\ Owns(d)}

(* Each kind in its turn: directories come in the order of their names.    *)
Rank(d) == CASE journal[d].kind = "apply" -> 1 [] journal[d].kind = "install" -> 2 [] OTHER -> 3

Position(x) == CASE x = "app" -> 1 [] x = "cli" -> 2 [] x = "server" -> 3
FirstOf(X) == {x \in X : \A y \in X : Position(x) <= Position(y)}

Fault == faults < MaxFaults /\ faults' = faults + 1
At(p) == pc = p
Goto(p) == pc' = p
Phase(d, phase) == journal' = [journal EXCEPT ![d].phase = phase]
Fresh(d) == journal[d] = NoJournal

Idle == Goto("idle") /\ cur' = None /\ todo' = {}

NoProc == [who |-> "none", at |-> "none", failed |-> FALSE]
Waits(who) == proc.who = who /\ proc.at = "waiting"
Recovering == proc.at = "recovering"

-----------------------------------------------------------------------------
(* What began since the last update or install that completed, and may yet *)
(* be undone.  `base' and `beside' are histories: no step depends on them. *)
Unfinished == {d \in DOMAIN base : Open(d) /\ Readable(d)}

(* A new transaction: generation and journal are written before anything   *)
(* that is active changes; the journal of a migration, which has no        *)
(* generation of its own, only with its backup.  A directory that has no   *)
(* journal is not looked at.                                               *)
Begin(d, kind, cand, over) ==
  /\ Fresh(d)
  /\ gens' = gens \cup {cand.gen}
  /\ journal' = [journal EXCEPT ![d] =
                   [kind |-> kind, phase |-> IF kind = "migrate" THEN "unwritten" ELSE "ready",
                    prev |-> state, cand |-> cand, over |-> over]]
  /\ Goto("backup") /\ cur' = d
  /\ base' = [e \in DOMAIN base \cup {d} |-> IF e = d THEN boot ELSE base[e]]
  /\ beside' = (beside \/ (kind # "apply" /\ ~(Unfinished \subseteq over)))
  /\ UNCHANGED <<state, corrupt, boot, backup, todo, faults>>

OpenUpdate == \E d \in Dir : journal[d].kind = "apply" /\ Open(d)

(* A usage-server that exists must be the one of this installation.        *)
ServerEntryIsOurs ==
  boot["server"] = None \/ (state # None /\ state.layout = "managed" /\ Baseline(state))

(* InstallArchive, once its own RecoverInstall has run and it has the      *)
(* lock: it supersedes what could not be recovered, or else refuses to     *)
(* work beside an open update.                                             *)
CanInstall(layout) ==
  /\ IF proc.failed THEN Supersedable # {} ELSE ~OpenUpdate
  /\ layout = "managed" => ServerEntryIsOurs

Install(d, layout) ==
  /\ At("idle") /\ Waits("install") /\ CanInstall(layout)
  /\ Begin(d, "install", [gen |-> d, layout |-> layout], IF proc.failed THEN Supersedable ELSE {})
  /\ proc' = NoProc

InstallRefused ==
  /\ At("idle") /\ Waits("install") /\ \E layout \in Layouts : ~CanInstall(layout)
  /\ proc' = NoProc
  /\ UNCHANGED <<disk, pc, cur, todo, faults, ghosts>>

(* MigrateManagedEntries: the application entry is the generation's, or    *)
(* is missing and can be taken from the CLI's, at which stands nothing or  *)
(* a launcher of that generation; another server is replaced on request.   *)
CanMigrate(replaceLegacyServer) ==
  /\ ~proc.failed
  /\ state # None /\ Baseline(state)
  /\ ~(state.layout = "managed" /\ Intact(state))
  /\ \/ Stands(state, {"app"})
     \/ boot["app"] = None /\ boot["cli"] = FileOf(state.gen, "app")
  /\ boot["cli"] \in {None, FileOf(state.gen, "app"), FileOf(state.gen, "cli")}
  /\ boot["server"] \in {None, FileOf(state.gen, "server")} \/ replaceLegacyServer

Migrate(d) ==
  /\ At("idle") /\ Waits("migrate") /\ \E replace \in BOOLEAN : CanMigrate(replace)
  /\ Begin(d, "migrate", [state EXCEPT !.layout = "managed"], {})
  /\ proc' = NoProc

MigrateRefused ==
  /\ At("idle") /\ Waits("migrate") /\ ~CanMigrate(FALSE)
  /\ proc' = NoProc
  /\ UNCHANGED <<disk, pc, cur, todo, faults, ghosts>>

(* ApplyPrepared, from an application that runs already and therefore did  *)
(* not recover anything: only other updates are in its way.                *)
Apply(d) ==
  /\ At("idle") /\ state # None /\ Baseline(state) /\ ~OpenUpdate
  /\ Begin(d, "apply", [gen |-> d, layout |-> state.layout], {})
  /\ UNCHANGED proc

-----------------------------------------------------------------------------
(* prepareBootstrapBackup, then the journal says that entries may change.  *)
Targets == Managed(journal[cur].cand.layout)

Backup ==
  /\ At("backup")
  /\ backup' = [backup EXCEPT ![cur] = [x \in Targets |-> boot[x]]]
  /\ Phase(cur, "intent") /\ Goto("replace")
  /\ UNCHANGED <<state, gens, corrupt, boot, proc, cur, todo, faults, ghosts>>

(* applyBootstrap, one entry after another.                                *)
ToReplace == {x \in Targets : boot[x] # FileOf(journal[cur].cand.gen, x)}

Replace(x) ==
  /\ At("replace") /\ x \in FirstOf(ToReplace)
  /\ boot' = [boot EXCEPT ![x] = FileOf(journal[cur].cand.gen, x)]
  /\ UNCHANGED <<state, gens, corrupt, journal, backup, proc, pc, cur, todo, faults, ghosts>>

WriteState ==
  /\ At("replace") /\ ToReplace = {}
  /\ state' = journal[cur].cand
  /\ Goto("verify")
  /\ UNCHANGED <<gens, corrupt, boot, journal, backup, proc, cur, todo, faults, ghosts>>

(* The candidate of an update is ready, a migration's entries verify.      *)
Finish ==
  /\ At("verify") /\ Intact(state)
  /\ Phase(cur, "complete") /\ Goto("clean")
  /\ IF journal[cur].kind = "migrate" THEN UNCHANGED ghosts
     ELSE base' = [d \in {} |-> boot] /\ beside' = FALSE
  /\ UNCHANGED <<state, gens, corrupt, boot, backup, proc, cur, todo, faults>>

(* The directory goes, of an install those that it superseded after it;    *)
(* an update leaves its own.                                               *)
Clean ==
  /\ At("clean")
  /\ journal' = [d \in Dir |->
       IF d = cur /\ journal[d].kind # "apply" THEN [journal[d] EXCEPT !.phase = "cleaned"]
       ELSE IF d \in journal[cur].over THEN [journal[d] EXCEPT !.phase = "removed"]
       ELSE journal[d]]
  /\ Idle
  /\ UNCHANGED <<state, gens, corrupt, boot, backup, proc, faults, ghosts>>

(* A step fails.  An install without a backup yet only takes its           *)
(* generation away; later, every kind restores what it had saved.          *)
Fail ==
  /\ pc \in {"backup", "replace", "verify"} /\ Fault
  /\ IF At("backup")
     THEN /\ gens' = IF journal[cur].kind = "migrate" THEN gens ELSE gens \ {cur}
          /\ Phase(cur, IF journal[cur].kind = "migrate" THEN "removed" ELSE "ready")
          /\ Idle
     ELSE Goto("restore") /\ todo' = {} /\ UNCHANGED <<gens, journal, cur>>
  /\ UNCHANGED <<state, corrupt, boot, backup, proc, ghosts>>

-----------------------------------------------------------------------------
(* RecoverInstall: by a launcher, an installer or a migration.  What an    *)
(* unfinished install superseded is left alone.                            *)
Deferred ==
  UNION {journal[d].over : d \in {i \in Dir : journal[i].kind = "install" /\ Open(i) /\ Readable(i)}}

RecoverStart(who) ==
  /\ At("idle") /\ proc = NoProc
  /\ proc' = [who |-> who, at |-> "recovering", failed |-> FALSE]
  /\ todo' = {d \in Dir : journal[d].phase \notin Gone} \ Deferred
  /\ Goto("recover")
  /\ UNCHANGED <<disk, cur, faults, ghosts>>

Examines(d) == At("recover") /\ d \in todo /\ \A t \in todo : Rank(d) <= Rank(t)

(* An installer or a migration goes on, knowing how its recovery ended.    *)
RecoverEnd(failed) ==
  /\ Idle
  /\ proc' = IF proc.who = "launch" THEN NoProc
             ELSE [proc EXCEPT !.at = "waiting", !.failed = failed]

RecoverDone ==
  /\ At("recover") /\ todo = {}
  /\ RecoverEnd(FALSE)
  /\ UNCHANGED <<disk, faults, ghosts>>

(* A journal that can not be read is passed over, and so is an install     *)
(* that was set aside; an update that was is judged again.                 *)
Passed(d) ==
  /\ journal[d].kind # "migrate"
  /\ ~Readable(d) \/ (journal[d].kind = "install" /\ journal[d].phase = "obsolete")

SetAside(d) == journal[d].kind = "apply" /\ journal[d].phase = "obsolete"
Pending(d) == ~Passed(d) /\ (Open(d) \/ SetAside(d))

(* Finished, or a migration that only was not tidied up.                   *)
Removable(d) ==
  IF journal[d].kind = "migrate" THEN state = journal[d].cand /\ Intact(state)
  ELSE ~Passed(d) /\ journal[d].phase \in {"complete", "rolled-back"}

(* Mutant: nothing is set aside.                                           *)
NeverObsolete(d) == FALSE

(* The state is neither side's any more.                                   *)
Obsolete(d) ==
  /\ journal[d].kind # "migrate" /\ Pending(d) /\ ~Owns(d)
  /\ journal[d].kind = "install" => journal[d].phase = "intent"

(* What its transaction had saved is restored.                             *)
Undoable(d) ==
  IF journal[d].kind = "migrate" THEN state # journal[d].cand /\ state = journal[d].prev
  ELSE Pending(d) /\ ~Obsolete(d)

RecoverPass(d) ==
  /\ Examines(d)
  /\ \/ Passed(d) /\ UNCHANGED journal
     \/ Removable(d) /\ Phase(d, "removed")
     \/ Obsolete(d) /\ Phase(d, "obsolete")
  /\ todo' = todo \ {d}
  /\ UNCHANGED <<state, gens, corrupt, boot, backup, proc, pc, cur, faults, ghosts>>

(* Mutant: the generation is taken away, and nothing restored.             *)
UndoDrops(d) == IF journal[d].kind = "migrate" THEN "restore" ELSE "dropGeneration"

(* Entries are restored once they may have been touched; of an update that *)
(* was set aside, only if the state is its candidate.                      *)
Undo(d) ==
  IF /\ journal[d].kind # "migrate"
     /\ journal[d].phase = "ready" \/ (SetAside(d) /\ state = journal[d].prev)
  THEN "dropGeneration" ELSE "restore"

RecoverUndo(d) ==
  /\ Examines(d) /\ Undoable(d)
  /\ cur' = d /\ todo' = todo \ {d}
  /\ Goto(Undo(d))
  /\ UNCHANGED <<disk, proc, faults, ghosts>>

(* "entry migration state requires manual recovery", or a candidate that   *)
(* is incomplete: the error ends the recovery.                             *)
RecoverManual(d) ==
  /\ Examines(d) /\ journal[d].kind = "migrate" /\ ~Removable(d) /\ ~Undoable(d)
  /\ RecoverEnd(TRUE)
  /\ UNCHANGED <<disk, faults, ghosts>>

-----------------------------------------------------------------------------
(* restoreBootstrap, one entry after another.                              *)
ToRestore == {x \in DOMAIN backup[cur] : boot[x] # backup[cur][x]}

RestoreEntry(x) ==
  /\ At("restore") /\ backup[cur] # None /\ x \in FirstOf(ToRestore)
  /\ boot' = [boot EXCEPT ![x] = backup[cur][x]]
  /\ UNCHANGED <<state, gens, corrupt, journal, backup, proc, pc, cur, todo, faults, ghosts>>

(* Then the prior state, or none if none existed.  A recovered migration   *)
(* is done; one that failed leaves its directory.                          *)
RestoreState ==
  /\ At("restore") /\ backup[cur] # None /\ ToRestore = {}
  /\ state' = journal[cur].prev
  /\ IF journal[cur].kind # "migrate" THEN Goto("dropGeneration") /\ UNCHANGED <<journal, cur, todo>>
     ELSE IF Recovering THEN Goto("recover") /\ Phase(cur, "removed") /\ UNCHANGED <<cur, todo>>
     ELSE Idle /\ UNCHANGED journal
  /\ UNCHANGED <<gens, corrupt, boot, backup, proc, faults, ghosts>>

(* A replacement fails, or the backup is gone: the error ends the recovery *)
(* with some of the entries restored.                                      *)
RestoreFails ==
  /\ At("restore")
  /\ IF backup[cur] = None THEN UNCHANGED faults ELSE Fault
  /\ IF Recovering THEN RecoverEnd(TRUE) ELSE Idle /\ UNCHANGED proc
  /\ UNCHANGED <<disk, ghosts>>

DropGeneration ==
  /\ At("dropGeneration") /\ Goto("mark")
  /\ gens' = gens \ {cur}
  /\ UNCHANGED <<state, corrupt, boot, journal, backup, proc, cur, todo, faults, ghosts>>

Mark ==
  /\ At("mark") /\ Phase(cur, "rolled-back")
  /\ IF Recovering THEN Goto("recover") /\ UNCHANGED <<cur, todo>> ELSE Idle
  /\ UNCHANGED <<state, gens, corrupt, boot, backup, proc, faults, ghosts>>

-----------------------------------------------------------------------------
(* The holder of the lock dies.                                            *)
Crash ==
  /\ pc # "idle" /\ Fault
  /\ Idle /\ proc' = IF Recovering THEN NoProc ELSE proc
  /\ UNCHANGED <<disk, ghosts>>

(* A saved file can not be read back; a component is lost or damaged.      *)
LoseBackup(d) ==
  /\ At("idle") /\ backup[d] # None /\ Open(d) /\ Fault
  /\ backup' = [backup EXCEPT ![d] = None]
  /\ UNCHANGED <<state, gens, corrupt, boot, journal, proc, pc, cur, todo, ghosts>>

Corrupt ==
  /\ At("idle") /\ state # None /\ Fault
  /\ corrupt' = corrupt \cup {state.gen}
  /\ UNCHANGED <<state, gens, boot, journal, backup, proc, pc, cur, todo, ghosts>>

(* Nothing installed; or a legacy layout, at whose CLI entry nothing or    *)
(* the launcher of the application stands.                                 *)
Init ==
  /\ \/ state = None /\ gens = {} /\ boot = [x \in Entry |-> None]
     \/ /\ state = [gen |-> Initial, layout |-> "legacy"] /\ gens = {Initial}
        /\ \E cli \in {None, FileOf(Initial, "app")} :
             boot = [app |-> FileOf(Initial, "app"), cli |-> cli, server |-> None]
  /\ corrupt = {}
  /\ journal = [d \in Dir |-> NoJournal]
  /\ backup = [d \in Dir |-> None]
  /\ base = [d \in {} |-> boot] /\ beside = FALSE
  /\ proc = NoProc
  /\ pc = "idle" /\ cur = None /\ todo = {}
  /\ faults = 0

Transaction ==
  \/ \E d \in Dir : Migrate(d) \/ Apply(d) \/ \E layout \in Layouts : Install(d, layout)
  \/ InstallRefused \/ MigrateRefused
  \/ Backup \/ WriteState \/ Finish \/ Clean \/ Fail
  \/ \E x \in Entry : Replace(x)

Recover ==
  \/ \E who \in {"launch", "install", "migrate"} : RecoverStart(who)
  \/ \E d \in Dir : RecoverPass(d) \/ RecoverUndo(d) \/ RecoverManual(d)
  \/ RecoverDone

Restore ==
  \/ \E x \in Entry : RestoreEntry(x)
  \/ RestoreState \/ RestoreFails \/ DropGeneration \/ Mark

Accident == Crash \/ Corrupt \/ \E d \in Dir : LoseBackup(d)

Next == Transaction \/ Recover \/ Restore \/ Accident

Spec == Init /\ [][Next]_vars

-----------------------------------------------------------------------------
(* The types; and a launcher does not come back for the lock.              *)
ProgramTypeOK ==
  /\ state \in States /\ gens \subseteq Gen /\ corrupt \subseteq Gen
  /\ boot \in [Entry -> Files]
  /\ journal \in [Dir -> [kind : Kinds \cup {"none"},
                          phase : {"ready", "intent"} \cup Terminal \cup Gone,
                          prev : States, cand : States, over : SUBSET Dir]]
  /\ \A d \in Dir : backup[d] = None \/ \E layout \in Layouts : backup[d] \in [Managed(layout) -> Files]
  /\ proc \in [who : {"none", "launch", "install", "migrate"},
              at : {"none", "recovering", "waiting"}, failed : BOOLEAN]
  /\ proc.at = "waiting" => proc.who \in {"install", "migrate"}
  /\ pc \in {"idle", "backup", "replace", "verify", "clean", "recover", "restore",
             "dropGeneration", "mark"}
  /\ cur \in Dir \cup {None} /\ todo \subseteq Dir
  /\ faults \in 0 .. MaxFaults

HistoryTypeOK ==
  /\ DOMAIN base \subseteq Dir /\ \A d \in DOMAIN base : base[d] \in [Entry -> Files]
  /\ beside \in BOOLEAN

TypeOK == ProgramTypeOK /\ HistoryTypeOK

(* No clean-up, whoever runs it, removes the active generation.            *)
ActivePresent == state # None => state.gen \in gens

(* With no transaction left to undo, what stands at the managed entries is *)
(* the active generation's, whatever was superseded, undone or set aside.  *)
(* Excepted is a history in which, since the last transaction that         *)
(* completed, an installer or a migration began over the open install that *)
(* a recovery had left alone: rejectIncompleteTransactions stops neither,  *)
(* both save what the open one left, and that is what their undo restores. *)
Closed == At("idle") /\ state # None /\ \A d \in Dir : ~(Open(d) /\ Readable(d))

ClosedMeansComplete ==
  Closed /\ ~beside => Trusted(state) /\ Stands(state, Managed(state.layout))

(* What a completed install superseded is never undone: its backup is      *)
(* older than the installation.                                            *)
SupersededStays ==
  [][\A i, d \in Dir :
       /\ journal[i].kind = "install" /\ journal[i].phase \in {"complete", "cleaned"}
       /\ d \in journal[i].over /\ cur = d
       => UNCHANGED <<state, boot>>]_vars
=============================================================================
