--------------------------- MODULE ApplyPrepared ---------------------------
(***************************************************************************)
(* An update from its preparation to its result: PrepareApply,             *)
(* CommitPreparedApply, ApplyPrepared and its deferred recoverFailure      *)
(* (packaging/headroom-manager/contract/transaction.go).                   *)
(***************************************************************************)
EXTENDS InstallRoot

(* Mutant: only the journals that still validate block.                    *)
RejectOnlyValid == \A u \in Txn : ~(Incomplete(u) /\ Valid(u))

RejectIncompleteTransactions == \A u \in Txn : ~Incomplete(u)

(* PrepareApply: under the lock, no journal may be incomplete, the stage   *)
(* may not be older, the caller must run the active generation, and the    *)
(* receipt of a managed service must name the active one; a live process   *)
(* makes it a claim of the request.                                        *)
PrepareApply(t) ==
  /\ At("idle")
  /\ journal[t].phase = "none"
  /\ RejectIncompleteTransactions
  /\ Version[t] >= Version[state]
  /\ Launchable(state) /\ state \in apps
  /\ receipt \in {NoGen, state}
  /\ journal' = [journal EXCEPT ![t] =
                   [NoJournal EXCEPT !.phase = "prepared", !.prev = state,
                                     !.claim = receipt = state /\ service = state]]
  /\ UNCHANGED <<state, gens, boot, backup, commit, result, procs,
                 pc, local, faults>>

(* CommitPreparedApply: the application has read the acknowledgement.      *)
CommitPreparedApply(t) ==
  /\ journal[t].phase = "waiting-for-exit" /\ journal[t].prev \in apps
  /\ t \notin commit
  /\ commit' = commit \cup {t}
  /\ UNCHANGED <<state, gens, boot, journal, backup, result, procs,
                 pc, local, faults>>

-----------------------------------------------------------------------------
(* ApplyPrepared up to the exit of the application: an error leaves the    *)
(* journal as it is, and runs no recovery.                                 *)

(* The manager revalidates the request, records "waiting-for-exit" and     *)
(* acknowledges.                                                           *)
AcceptApply(t) ==
  /\ At("idle")
  /\ journal[t].phase = "prepared"
  /\ state = journal[t].prev /\ Launchable(state) /\ state \in apps
  /\ journal[t].claim => service = state
  /\ by' = "apply" /\ cur' = t
  /\ mem' = [journal[t] EXCEPT !.phase = "waiting-for-exit"]
  /\ \/ Goto("commit") /\ NoFault /\ journal' = [journal EXCEPT ![t] = mem']
     \/ /\ Goto("return") /\ Fault
        /\ \E d \in {journal[t], mem'} : journal' = [journal EXCEPT ![t] = d]
  /\ UNCHANGED <<state, gens, boot, backup, commit, result, procs,
                 idx, origin, cleanupErr, todo>>

(* Mutant: the commit is not waited for.                                   *)
AwaitNoCommit ==
  /\ At("commit") /\ Goto("exit")
  /\ UNCHANGED <<durable, procs, local, faults>>

AwaitCommit ==
  /\ At("commit")
  /\ Goto(IF cur \in commit THEN "exit" ELSE "return")
  /\ UNCHANGED <<durable, procs, local, faults>>

ExitTimeout ==
  /\ At("exit") /\ Fault /\ Goto("return")
  /\ UNCHANGED <<durable, procs, local>>

AwaitExit ==
  /\ mem.prev \notin apps
  /\ Advance("exit", "current-exited", "child", "fail")

-----------------------------------------------------------------------------
(* ApplyPrepared after the exit: every error is followed by recoverFailure *)
(* ("fail").                                                               *)

(* An error of a call that changes nothing: the owned server does not      *)
(* exit, the stage or the copy fails, a process does not start.            *)
StepError ==
  /\ pc \in {"child", "stage", "copy", "launch", "svcLaunch"}
  /\ Fault /\ Goto("fail")
  /\ UNCHANGED <<durable, procs, local>>

StopIntent == Advance("child", "stopping-participants", "participants", "fail")

StopParticipants ==
  LET stopped == IF mem.claim /\ service = mem.prev THEN NoGen ELSE service
  IN /\ At("participants")
     /\ \/ service' = stopped /\ Goto("stopped") /\ NoFault
        \/ service' \in {service, stopped} /\ Goto("fail") /\ Fault
     /\ UNCHANGED <<durable, apps, receipt, starting, local>>

ParticipantsStopped == Advance("stopped", "participants-stopped", "stage", "fail")
CopyIntent          == Advance("stage", "copying", "copy", "fail")

CreateGeneration ==
  /\ At("copy") /\ Goto("generation")
  /\ gens' = gens \cup {cur}
  /\ mem' = [mem EXCEPT !.cand = TRUE]
  /\ UNCHANGED <<state, boot, journal, backup, commit, result, procs,
                 by, cur, idx, origin, cleanupErr, todo, faults>>

GenerationReady == Advance("generation", "generation-ready", "backup", "fail")

(* prepareBootstrapBackupWithCLI writes bootstrap-backup.json last.        *)
BackupEntries ==
  /\ At("backup")
  /\ \/ backup' = [backup EXCEPT ![cur] = boot] /\ Goto("intent") /\ NoFault
     \/ Fault /\ Goto("discard") /\ UNCHANGED backup
  /\ UNCHANGED <<state, gens, boot, journal, commit, result, procs, local>>

BootstrapIntent == Advance("intent", "bootstrap-intent", "entries", "discard")

(* applyBootstrapWithCLI replaces one stable entry after the other.        *)
ReplaceEntry ==
  /\ At("entries")
  /\ \/ /\ SetEntry(cur) /\ NoFault
        /\ NextEntry("entries", "replaced")
     \/ (SetEntry(cur) \/ UNCHANGED boot) /\ Fault /\ Goto("undo") /\ idx' = 1
  /\ UNCHANGED <<state, gens, journal, backup, commit, result, procs,
                 by, cur, mem, origin, cleanupErr, todo>>

BootstrapReady == Advance("replaced", "bootstrap-ready", "ready", "undo")
StateIntent    == Advance("ready", "state-intent", "switch", "fail")

(* Mutant: an error of the switch is ignored.                              *)
SwitchDespiteError ==
  /\ At("switch")
  /\ \/ state' = cur /\ Goto("switched") /\ NoFault
     \/ state' \in {state, cur} /\ Goto("switched") /\ Fault
  /\ UNCHANGED <<gens, boot, journal, backup, commit, result, procs, local>>

SwitchState ==
  /\ At("switch")
  /\ \/ state' = cur /\ Goto("switched") /\ NoFault
     \/ state' \in {state, cur} /\ Goto("undo") /\ Fault
  /\ UNCHANGED <<gens, boot, journal, backup, commit, result, procs, local>>

(* The immediate clean-up of three of the errors: the entries are restored *)
(* and, when replacing them failed, the generation removed, both without   *)
(* looking at the outcome.                                                 *)
UndoEntry ==
  /\ At("undo")
  /\ LET undone == IF mem.phase = "bootstrap-intent" THEN "discard" ELSE "fail"
     IN \/ SetEntry(backup[cur][idx]) /\ NoFault /\ NextEntry("undo", undone)
        \/ /\ SetEntry(backup[cur][idx]) \/ UNCHANGED boot
           /\ Fault /\ Goto(undone) /\ idx' = 1
  /\ UNCHANGED <<state, gens, journal, backup, commit, result, procs,
                 by, cur, mem, origin, cleanupErr, todo>>

DiscardGeneration ==
  /\ At("discard") /\ Goto("fail")
  /\ \/ gens' = gens \ {cur} /\ NoFault
     \/ UNCHANGED gens /\ Fault
  /\ UNCHANGED <<state, boot, journal, backup, commit, result, procs, local>>

Activated == Advance("switched", "activated", "launch", "fail")

-----------------------------------------------------------------------------
(* launchAndAwaitReady of the candidate, launchManagedService, completion. *)

LaunchCandidate ==
  /\ At("launch")
  /\ Goto(IF Launchable(cur) THEN "record" ELSE "fail")
  /\ apps' = IF Launchable(cur) THEN apps \cup {cur} ELSE apps
  /\ UNCHANGED <<durable, servers, local, faults>>

RecordCandidate ==
  /\ At("record")
  /\ WriteJournal([mem EXCEPT !.phase = "candidate-launched", !.pid = TRUE],
                  "await", "kill")
  /\ UNCHANGED <<state, gens, boot, backup, commit, result, procs,
                 by, cur, idx, origin, cleanupErr, todo>>

CandidateReady ==
  /\ At("await") /\ Goto(IF mem.claim THEN "svcLaunch" ELSE "complete")
  /\ UNCHANGED <<durable, procs, local, faults>>

(* The candidate exits early, or is not ready in time and is killed; a     *)
(* failed record kills it too.                                             *)
CandidateFails ==
  /\ \/ At("await") /\ Fault
     \/ At("kill") /\ NoFault
  /\ Goto("fail")
  /\ apps' = apps \ {cur}
  /\ UNCHANGED <<durable, servers, local>>

LaunchService ==
  /\ At("svcLaunch") /\ Goto("svcRecord")
  /\ service' = cur
  /\ UNCHANGED <<durable, apps, receipt, starting, local, faults>>

(* The journal, then the receipt.                                          *)
RecordService ==
  /\ At("svcRecord")
  /\ WriteJournal([mem EXCEPT !.svc = TRUE], "svcReceipt", "svcKill")
  /\ UNCHANGED <<state, gens, boot, backup, commit, result, procs,
                 by, cur, idx, origin, cleanupErr, todo>>

WriteReceipt ==
  /\ At("svcReceipt")
  /\ \/ receipt' = cur /\ Goto("svcAwait") /\ NoFault
     \/ receipt' \in {receipt, cur} /\ Goto("svcKill") /\ Fault
  /\ UNCHANGED <<durable, apps, service, starting, local>>

ServiceReady ==
  /\ At("svcAwait") /\ Goto("complete")
  /\ UNCHANGED <<durable, procs, local, faults>>

ServiceFails ==
  /\ \/ At("svcAwait") /\ Fault
     \/ At("svcKill") /\ NoFault
  /\ Goto("fail")
  /\ service' = NoGen
  /\ UNCHANGED <<durable, apps, receipt, starting, local>>

Complete == Advance("complete", "complete", "applied", "fail")

(* last-apply-result.json; an error of this write is ignored.              *)
ReportApplied ==
  /\ At("applied") /\ Goto("return")
  /\ \/ result' = "applied" /\ NoFault
     \/ UNCHANGED result /\ Fault
  /\ UNCHANGED <<state, gens, boot, journal, backup, commit, procs, local>>

-----------------------------------------------------------------------------
(* recoverFailure, deferred by ApplyPrepared.                              *)

(* Mutants: a later phase is forgotten, an earlier one is added.           *)
RestorePhasesFew  == IntentPhases
RestorePhasesMany == IntentPhases \cup LaunchPhases \cup {"complete", "generation-ready"}

RestorePhases == IntentPhases \cup LaunchPhases \cup {"complete"}

RollbackIntent ==
  /\ At("fail")
  /\ origin' = mem.phase
  /\ WriteJournal(Enter("rolling-back"), "fStop", "fStop")
  /\ cleanupErr' = (faults' # faults)
  /\ UNCHANGED <<state, gens, boot, backup, commit, result, procs,
                 by, cur, idx, todo>>

(* The recorded candidate, its service and the participants that still run *)
(* are stopped; any of them may resist.                                    *)
StopForRollback ==
  LET toStop == {mem.prev} \cup (IF mem.svc THEN {cur} ELSE {})
      stop   == mem.claim /\ service \in toStop
  IN /\ At("fStop") /\ Goto("fRoll")
     /\ \/ /\ apps' = IF mem.pid THEN apps \ {cur} ELSE apps
           /\ service' = IF stop THEN NoGen ELSE service
           /\ NoFault /\ UNCHANGED cleanupErr
        \/ /\ apps' \in {apps, IF mem.pid THEN apps \ {cur} ELSE apps}
           /\ service' \in {service, IF stop THEN NoGen ELSE service}
           /\ cleanupErr' = TRUE /\ Fault
     /\ UNCHANGED <<durable, receipt, starting, by, cur, mem, idx, origin, todo>>

(* Which clean-up: the whole rollback, or only the new generation.         *)
ChooseRollback ==
  /\ At("fRoll")
  /\ Goto(IF cleanupErr THEN "fResult"
          ELSE IF mem.cand /\ origin \in RestorePhases THEN "restore"
          ELSE IF mem.cand THEN "fDrop" ELSE "fVerify")
  /\ idx' = 1
  /\ UNCHANGED <<durable, procs, by, cur, mem, origin, cleanupErr, todo, faults>>

DropUnused ==
  /\ At("fDrop")
  /\ \/ gens' = gens \ {cur} /\ Goto("fVerify") /\ NoFault /\ UNCHANGED cleanupErr
     \/ gens' \in {gens, gens \ {cur}} /\ Goto("fResult") /\ Fault /\ cleanupErr' = TRUE
  /\ UNCHANGED <<state, boot, journal, backup, commit, result, procs,
                 by, cur, mem, idx, origin, todo>>

(* verifyBootstrapRestoreWithCLI needs bootstrap-backup.json: without it   *)
(* nothing counts as restored.                                             *)
VerifyRestored ==
  LET restored == IsPrior /\ Launchable(state) /\ boot = backup[cur]
  IN /\ At("fVerify")
     /\ Goto(IF restored THEN "fRelaunch" ELSE "fResult")
     /\ cleanupErr' = ~restored
     /\ UNCHANGED <<durable, procs, by, cur, mem, idx, origin, todo, faults>>

RelaunchPrevious ==
  /\ RelaunchPrior("fRelaunch", "fService", "fResult")
  /\ cleanupErr' = (pc' = "fResult")
  /\ UNCHANGED <<durable, servers, by, cur, mem, idx, origin, todo>>

RelaunchPreviousService ==
  /\ \/ /\ mem.claim /\ RelaunchService("fService", "fResult", "fResult")
        /\ cleanupErr' = (service' = NoGen)
     \/ /\ At("fService") /\ ~mem.claim /\ Goto("fResult")
        /\ UNCHANGED <<servers, cleanupErr, faults>>
  /\ UNCHANGED <<durable, apps, by, cur, mem, idx, origin, todo>>

ReportFailure ==
  /\ At("fResult") /\ Goto("return")
  /\ \/ result' = (IF cleanupErr THEN "recovery_required" ELSE "rolled_back") /\ NoFault
     \/ UNCHANGED result /\ Fault
  /\ UNCHANGED <<state, gens, boot, journal, backup, commit, procs, local>>

-----------------------------------------------------------------------------
BeforeSwitch ==
  \/ AwaitCommit \/ ExitTimeout \/ AwaitExit \/ StepError
  \/ StopIntent \/ StopParticipants \/ ParticipantsStopped
  \/ CopyIntent \/ CreateGeneration \/ GenerationReady
  \/ BackupEntries \/ BootstrapIntent \/ ReplaceEntry \/ BootstrapReady
  \/ StateIntent \/ UndoEntry \/ DiscardGeneration

FromSwitch ==
  \/ SwitchState \/ Activated
  \/ LaunchCandidate \/ RecordCandidate \/ CandidateReady \/ CandidateFails
  \/ LaunchService \/ RecordService \/ WriteReceipt \/ ServiceReady \/ ServiceFails
  \/ Complete \/ ReportApplied

RecoverFailure ==
  \/ RollbackIntent \/ StopForRollback \/ ChooseRollback \/ DropUnused
  \/ VerifyRestored \/ RelaunchPrevious \/ RelaunchPreviousService
  \/ ReportFailure

ApplyStep == BeforeSwitch \/ FromSwitch \/ RecoverFailure

=============================================================================
