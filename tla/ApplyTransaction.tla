-------------------------- MODULE ApplyTransaction --------------------------
(***************************************************************************)
(* The update transaction of one install root: the application prepares    *)
(* and commits it, the transaction manager applies it, launchers recover   *)
(* it, and the application, the managed service and crashes interleave     *)
(* with them.                                                              *)
(***************************************************************************)
EXTENDS ApplyPrepared, RecoverInstall

(* The user quits the application, or it dies; the candidate that the      *)
(* manager watches is CandidateFails.                                      *)
AppExit(g) ==
  /\ g \in apps
  /\ ~(g = cur /\ pc \in {"record", "await", "kill"})
  /\ apps' = apps \ {g}
  /\ UNCHANGED <<durable, servers, pc, local, faults>>

(* `headroom serve': its launcher's RecoverInstall left nothing to undo;   *)
(* RegisterManagedService first checks, without the lock, that the active  *)
(* generation is its own, and then waits for the lock to write the receipt *)
(* over that of a dead service.                                            *)
StartService ==
  /\ starting = NoGen /\ Launchable(state)
  /\ \A t \in Txn : Incomplete(t) /\ Valid(t) => journal[t].phase = "waiting-for-exit"
  /\ starting' = state
  /\ UNCHANGED <<durable, apps, service, receipt, pc, local, faults>>

RegisterService ==
  /\ starting # NoGen /\ At("idle") /\ service = NoGen
  /\ service' = starting /\ receipt' = starting /\ starting' = NoGen
  /\ UNCHANGED <<durable, apps, pc, local, faults>>

(* The lock stays busy, or another service lives: it exits with an error.  *)
RegisterRefused ==
  /\ starting # NoGen /\ (pc # "idle" \/ service # NoGen)
  /\ starting' = NoGen
  /\ UNCHANGED <<durable, apps, service, receipt, pc, local, faults>>

(* A stopping service removes its receipt if the lock is free; a killed    *)
(* one leaves it.                                                          *)
ServiceExit ==
  /\ service # NoGen
  /\ pc \notin {"svcRecord", "svcReceipt", "svcAwait", "svcKill"}
  /\ service' = NoGen
  /\ \/ UNCHANGED receipt
     \/ At("idle") /\ receipt = service /\ receipt' = NoGen
  /\ UNCHANGED <<durable, apps, starting, pc, local, faults>>

Init ==
  /\ state = Initial /\ gens = {Initial}
  /\ boot = [x \in Targets |-> Initial]
  /\ journal = [t \in Txn |-> NoJournal]
  /\ backup = [t \in Txn |-> NoBackup]
  /\ commit = {} /\ result = "none"
  /\ apps = {Initial} /\ service = NoGen /\ receipt = NoGen /\ starting = NoGen
  /\ pc = "idle" /\ Unlocked
  /\ faults = 0

Environment ==
  \/ \E g \in Gen : AppExit(g)
  \/ StartService \/ RegisterService \/ RegisterRefused \/ ServiceExit
  \/ \E t \in Txn : PrepareApply(t) \/ CommitPreparedApply(t) \/ AcceptApply(t)
  \/ RecoverStart \/ Crash

(* The steps of the function that holds the lock.                          *)
Work == ApplyStep \/ RollbackJournal \/ RecoverStep \/ Return

Next == Environment \/ Work

(* The holder of the lock runs until it returns: its waits are bounded by  *)
(* timeouts (a fault where the timeout strikes).  An application that has  *)
(* committed an update quits.  Some launcher is started again and again.   *)
Fairness ==
  /\ WF_vars(Work)
  /\ WF_vars(pc = "exit" /\ AppExit(mem.prev))
  /\ WF_vars(RecoverStart)

Spec == Init /\ [][Next]_vars /\ Fairness

-----------------------------------------------------------------------------
(* Every variable has its type.                                            *)
TypeOK ==
  /\ state \in Gen /\ gens \in SUBSET Gen
  /\ boot \in [Targets -> Gen]
  /\ journal \in [Txn -> Journals]
  /\ backup \in [Txn -> [Targets -> Gen] \cup {NoBackup}]
  /\ commit \in SUBSET Txn
  /\ result \in {"none", "applied", "rolled_back", "recovery_required"}
  /\ apps \in SUBSET Gen /\ {service, receipt, starting} \subseteq Gen \cup {NoGen}
  /\ by \in {"none", "apply", "recover"}
  /\ cur \in Txn \cup {NoTxn} /\ mem \in Journals
  /\ idx \in Targets /\ origin \in Phases \cup {"none"}
  /\ cleanupErr \in BOOLEAN /\ todo \in SUBSET Txn
  /\ faults \in 0 .. MaxFaults

(* Whatever fails or crashes, and in whatever order apply, its clean-ups   *)
(* and recoveries ran, install-state.json names a generation that is still *)
(* there: no clean-up removes the active one.                              *)
ActiveGenerationPresent == state \in gens

(* At most one transaction is open: recovery, which reopens a rolled-back  *)
(* journal as "rollback-relaunch", and PrepareApply, which refuses when it *)
(* sees an open one, never let two be undone on top of each other.         *)
SingleOpenTransaction ==
  \A t, u \in Txn : Incomplete(t) /\ Incomplete(u) => t = u

(* Between operations, with no transaction open, every stable entry that a *)
(* launch depends on is the active generation's: no completed, rolled      *)
(* back, expired or recovered transaction leaves a mixture behind.         *)
QuiescentConsistent ==
  pc = "idle" /\ (\A t \in Txn : ~Incomplete(t)) => \A x \in Checked : boot[x] = state

(* Entries are restored, by apply or by a recovery in another process,     *)
(* from a backup that holds the prior generation's entries: none is taken  *)
(* of entries already replaced, and none is missing.                       *)
RestoreHasBackup ==
  pc \in {"restore", "undo"} =>
    backup[cur] # NoBackup /\ \A x \in Checked : backup[cur][x] = mem.prev

(* A candidate whose process was recorded is stopped before its generation *)
(* is taken away and the transaction counts as rolled back.                *)
CandidateStopped ==
  \A t \in Txn : journal[t].phase = "rolled-back" /\ journal[t].pid => t \notin apps

(* So is its managed service, when the rollback is recorded.               *)
ServiceStopped ==
  [][\A t \in Txn :
       journal[t].phase # "rolled-back" /\ journal'[t].phase = "rolled-back" /\ journal'[t].svc
         => service' # t]_vars

(* A transaction counts as rolled back only when the state and the stable  *)
(* entries that a launch depends on are those it started from, whoever     *)
(* records it.                                                             *)
RolledBackRestores ==
  [][\A t \in Txn :
       journal[t].phase # "rolled-back" /\ journal'[t].phase = "rolled-back"
         => /\ state' = journal'[t].prev
            /\ \A x \in Checked : boot'[x] = journal'[t].prev]_vars

(* It counts as complete only when every stable entry has been replaced.   *)
CompleteReplaces ==
  [][\A t \in Txn :
       journal[t].phase # "complete" /\ journal'[t].phase = "complete"
         => state' = t /\ \A x \in Targets : boot'[x] = t]_vars

(* Without the application's commit a transaction expires and changes      *)
(* nothing of the installation, whatever recoveries and crashes follow.    *)
CommitBeforeChange ==
  [][<<state, gens, boot>>' # <<state, gens, boot>>
       => \E t \in commit : Incomplete(t) \/ cur = t]_vars

(* The function that holds the install lock returns.                       *)
LockReleased == pc # "idle" ~> pc = "idle"

(* An open transaction is closed by some later launch, unless its journal  *)
(* does not validate any more.                                             *)
Unrecoverable(t) == Incomplete(t) /\ journal[t].phase # "prepared" /\ ~Valid(t)
OpenTransactionEnds ==
  \A t \in Txn : Incomplete(t) ~> ~Incomplete(t) \/ Unrecoverable(t)

(* A committed update whose application exits is applied, unless something *)
(* fails.                                                                  *)
CommittedUpdateCompletes ==
  \A t \in Txn :
    cur = t /\ pc = "exit" /\ faults = 0 ~> journal[t].phase = "complete" \/ faults > 0

(* The transaction implements the atomic switch of AtomicInstall, as far   *)
(* as a launch depends on the entries.  It is open while its journal is,   *)
(* and while the lock's holder works on it.                                *)
Open(t)   == Incomplete(t) \/ cur = t
Uniform   == {g \in Gen : \A x \in Checked : boot[x] = g}
entries   == IF Uniform = {} THEN "mixed" ELSE CHOOSE g \in Uniform : TRUE
base      == IF \E t \in Txn : Open(t)
             THEN journal[CHOOSE t \in Txn : Open(t)].prev ELSE NoGen
Atomic == INSTANCE AtomicInstall WITH Mixed <- "mixed", active <- state
ImplementsAtomicInstall == Atomic!Spec

-----------------------------------------------------------------------------
(* What the documentation says and the code does not do.                   *)

(* The receipt of a dead service does not outlive the generation it names: *)
(* PrepareApply would refuse every further update because of it.           *)
DeadReceiptHarmless ==
  pc = "idle" /\ service = NoGen /\ (\A t \in Txn : ~Incomplete(t))
    => receipt \in {NoGen, state}

=============================================================================
