---------------------------- MODULE InstallRoot ----------------------------
(***************************************************************************)
(* The per-user install root an update works on, the journals of its       *)
(* transactions, and the steps ApplyPrepared and RecoverInstall share      *)
(* (packaging/headroom-manager/contract/transaction.go, install.go).       *)
(*                                                                         *)
(* PrepareApply, ApplyPrepared and RecoverInstall all hold the install     *)
(* lock while they work, so `pc' is the program counter of its one holder; *)
(* the application processes, the user and crashes interleave with it.     *)
(*                                                                         *)
(* Transaction t creates the one generation named t: createGeneration      *)
(* draws a fresh random directory name, so no two coincide.                *)
(***************************************************************************)
EXTENDS Naturals

CONSTANTS
  Txn,        \* apply transactions that may ever be prepared (a bound)
  Initial,    \* the generation installed before the first of them
  NoGen,      \* no generation: an absent process, no prior state
  NoTxn,      \* no transaction under work
  NoBackup,   \* bootstrap-backup.json is absent
  Entries,    \* the stable entries are 1 .. Entries, in replacement order
  Auxiliary,  \* the entries whose mismatch does not block a launch
  Version,    \* package version of each generation, ordered as numbers
  MaxFaults   \* bound: failed system calls, crashes, timeouts of one run

Gen     == Txn \cup {Initial}
Targets == 1 .. Entries
Checked == Targets \ Auxiliary

ASSUME ApplyAssumption ==
  /\ Initial \notin Txn
  /\ NoGen \notin Txn \cup {Initial}
  /\ NoTxn \notin Txn
  /\ Entries \in Nat \ {0}
  /\ Auxiliary \subseteq Targets
  /\ NoBackup \notin [Targets -> Gen]
  /\ Version \in [Gen -> Nat]
  /\ MaxFaults \in Nat

VARIABLES
  state,       \* install-state.json: the active generation
  gens,        \* generations whose manifest verifies on disk
  boot,        \* boot[x]: the generation whose file stands at stable entry x
  journal,     \* journal[t]: transactions/apply-<t>/journal.json
  backup,      \* backup[t]: the entries saved in that directory
  commit,      \* transactions whose commit.json is written
  result,      \* last-apply-result.json
  apps,        \* generations of which an application process runs
  service,     \* generation of the managed service that runs, or NoGen
  receipt,     \* generation named by its receipt managed-serve.json, or NoGen
  starting,    \* generation of a `headroom serve' about to register, or NoGen
  pc,          \* where the holder of the install lock is; "idle": lock free
  by,          \* which function holds it
  cur,         \* the transaction it works on
  mem,         \* its in-memory journal
  idx,         \* the next stable entry to replace or restore
  origin,      \* originalPhase of recoverFailure
  cleanupErr,  \* cleanupErr of recoverFailure is set
  todo,        \* directories RecoverInstall has still to look at
  faults       \* failures so far

durable == <<state, gens, boot, journal, backup, commit, result>>
servers == <<service, receipt, starting>>
procs   == <<apps, servers>>
local   == <<by, cur, mem, idx, origin, cleanupErr, todo>>
vars    == <<durable, procs, pc, local, faults>>

-----------------------------------------------------------------------------
(* Journals.                                                               *)

EarlyPhases    == {"current-exited", "stopping-participants",
                   "participants-stopped", "copying"}
IntentPhases   == {"bootstrap-intent", "bootstrap-ready", "state-intent"}
LaunchPhases   == {"activated", "candidate-launched"}
RollPhases     == {"rolling-back", "rollback-relaunch"}
Terminal       == {"complete", "rolled-back", "obsolete"}
Absent         == {"none", "removed"}   \* no directory: not yet, no longer
Phases         == EarlyPhases \cup IntentPhases \cup LaunchPhases \cup RollPhases
                    \cup Terminal \cup Absent
                    \cup {"prepared", "waiting-for-exit", "generation-ready"}

(* `prev' is the prior state: its digest is pinned in the request, and it  *)
(* becomes Previous with the first phase.  `cand' is Candidate together    *)
(* with GenerationDir; `pid' and `svc' say that the candidate process and  *)
(* its managed service are recorded; `claim' that the request names the    *)
(* managed service that was running.                                       *)
Journals == [phase : Phases, prev : Gen \cup {NoGen}, cand : BOOLEAN,
             pid : BOOLEAN, svc : BOOLEAN, claim : BOOLEAN]
NoJournal == [phase |-> "none", prev |-> NoGen, cand |-> FALSE,
              pid |-> FALSE, svc |-> FALSE, claim |-> FALSE]

(* rejectIncompleteTransactions: a journal that blocks PrepareApply.       *)
Incomplete(t) == journal[t].phase \notin Terminal \cup Absent

(* validateApplyJournal: the generations it names must still verify.       *)
Valid(t) ==
  /\ journal[t].phase # "prepared"
  /\ journal[t].prev \in gens
  /\ journal[t].cand => t \in gens
  /\ journal[t].svc => journal[t].cand

(* Mutant: the stable entries are not looked at.                           *)
LaunchableByManifest(g) == g \in gens

(* ActiveExecutableForRole, and the same test in launchAndAwaitReady: the  *)
(* generation verifies and no entry but an auxiliary one is missing.       *)
Launchable(g) == g \in gens /\ \A x \in Checked : boot[x] = g

IsPrior     == state = mem.prev
IsCandidate == mem.cand /\ state = cur

-----------------------------------------------------------------------------
(* Failures.  Each consumes one of the MaxFaults of the run.               *)

Fault   == faults < MaxFaults /\ faults' = faults + 1
NoFault == faults' = faults

At(p)   == pc = p
Goto(p) == pc' = p

(* writeDurableJSON of the holder's journal: temporary file, rename, then  *)
(* fsync of the directory; an error may come before or after the rename.   *)
WriteJournal(m, ok, failed) ==
  /\ mem' = m
  /\ \/ Goto(ok) /\ NoFault /\ journal' = [journal EXCEPT ![cur] = m]
     \/ /\ Goto(failed) /\ Fault
        /\ \E d \in {m, journal[cur]} : journal' = [journal EXCEPT ![cur] = d]

(* replaceFile at the next stable entry: a failed call may have renamed.   *)
SetEntry(g) == boot' = [boot EXCEPT ![idx] = g]

(* Mutant: one entry too few.                                              *)
NextEntryShort(again, done) ==
  \/ idx >= Entries - 1 /\ Goto(done) /\ idx' = 1
  \/ idx < Entries - 1 /\ Goto(again) /\ idx' = idx + 1

(* ... and on to the entry after it.                                       *)
NextEntry(again, done) ==
  \/ idx = Entries /\ Goto(done) /\ idx' = 1
  \/ idx < Entries /\ Goto(again) /\ idx' = idx + 1

Enter(p) == [mem EXCEPT !.phase = p]

(* A step of ApplyPrepared that only records the next phase.               *)
Advance(from, phase, ok, failed) ==
  /\ At(from)
  /\ WriteJournal(Enter(phase), ok, failed)
  /\ UNCHANGED <<state, gens, boot, backup, commit, result, procs,
                 by, cur, idx, origin, cleanupErr, todo>>

(* os.RemoveAll of a transaction directory, its error ignored.             *)
RemoveDirectory(t) ==
  \/ /\ journal' = [journal EXCEPT ![t] = [NoJournal EXCEPT !.phase = "removed"]]
     /\ backup' = [backup EXCEPT ![t] = NoBackup]
     /\ commit' = commit \ {t}
     /\ NoFault
  \/ Fault /\ UNCHANGED <<journal, backup, commit>>

Unlocked ==
  /\ by = "none" /\ cur = NoTxn /\ mem = NoJournal /\ idx = 1
  /\ origin = "none" /\ cleanupErr = FALSE /\ todo = {}

(* The deferred lock.Close; a dead process releases the lock as well.      *)
Release ==
  /\ Goto("idle")
  /\ by' = "none" /\ cur' = NoTxn /\ mem' = NoJournal /\ idx' = 1
  /\ origin' = "none" /\ cleanupErr' = FALSE /\ todo' = {}

Return ==
  /\ At("return") /\ Release
  /\ UNCHANGED <<durable, procs, faults>>

Crash ==
  /\ pc # "idle" /\ Fault /\ Release
  /\ UNCHANGED <<durable, procs>>

-----------------------------------------------------------------------------
(* rollbackJournal: restore the entries in order, then the prior state,    *)
(* remove the candidate generation, and record "rolled-back".  It has two  *)
(* callers: an error ends RecoverInstall, and makes recoverFailure report  *)
(* that recovery is required.                                              *)

RollbackError ==
  /\ Fault
  /\ Goto(IF by = "recover" THEN "return" ELSE "fResult")
  /\ cleanupErr' = (by = "apply")

RestoreEntry ==
  /\ At("restore")
  /\ \/ /\ SetEntry(backup[cur][idx]) /\ NoFault /\ UNCHANGED cleanupErr
        /\ NextEntry("restore", "priorState")
     \/ (SetEntry(backup[cur][idx]) \/ UNCHANGED boot) /\ RollbackError /\ idx' = 1
  /\ UNCHANGED <<state, gens, journal, backup, commit, result, procs,
                 by, cur, mem, origin, todo>>

RestoreState ==
  /\ At("priorState")
  /\ \/ state' = mem.prev /\ Goto("dropGen") /\ NoFault /\ UNCHANGED cleanupErr
     \/ RollbackError /\ state' \in {state, mem.prev}
  /\ UNCHANGED <<gens, boot, journal, backup, commit, result, procs,
                 by, cur, mem, idx, origin, todo>>

DropGeneration ==
  /\ At("dropGen")
  /\ \/ gens' = gens \ {cur} /\ Goto("rolledBack") /\ NoFault /\ UNCHANGED cleanupErr
     \/ RollbackError /\ gens' \in {gens, gens \ {cur}}
  /\ UNCHANGED <<state, boot, journal, backup, commit, result, procs,
                 by, cur, mem, idx, origin, todo>>

(* rollbackJournal has the journal by value: the caller's copy, `mem',     *)
(* keeps the phase it had.                                                 *)
RecordRolledBack ==
  /\ At("rolledBack")
  /\ \/ /\ journal' = [journal EXCEPT ![cur] = Enter("rolled-back")]
        /\ Goto(IF by = "recover" THEN "mark" ELSE "fVerify")
        /\ NoFault /\ UNCHANGED cleanupErr
     \/ /\ RollbackError
        /\ \E d \in {Enter("rolled-back"), journal[cur]} :
             journal' = [journal EXCEPT ![cur] = d]
  /\ UNCHANGED <<state, gens, boot, backup, commit, result, procs,
                 by, cur, mem, idx, origin, todo>>

RollbackJournal == RestoreEntry \/ RestoreState \/ DropGeneration \/ RecordRolledBack

(* launchAndAwaitReady of the prior generation: the process reports its    *)
(* readiness, or is dead again when the call returns an error.             *)
RelaunchPrior(from, ok, failed) ==
  /\ At(from)
  /\ \/ /\ Launchable(mem.prev)
        /\ apps' = apps \cup {mem.prev} /\ Goto(ok) /\ NoFault
     \/ ~Launchable(mem.prev) /\ Goto(failed) /\ NoFault /\ UNCHANGED apps
     \/ Fault /\ Goto(failed) /\ UNCHANGED apps

(* launchManagedService of the prior generation.                           *)
RelaunchService(from, ok, failed) ==
  /\ At(from)
  /\ \/ service' = mem.prev /\ receipt' = mem.prev /\ Goto(ok) /\ NoFault
     \/ service' = NoGen /\ receipt' \in {receipt, mem.prev} /\ Goto(failed) /\ Fault
  /\ UNCHANGED starting

=============================================================================
