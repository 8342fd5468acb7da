--------------------------- MODULE RecoverInstall ---------------------------
(***************************************************************************)
(* RecoverInstall on the journals of apply transactions: every launcher    *)
(* runs it before it starts the application, `headroom-package recover'    *)
(* runs it alone (packaging/headroom-manager/contract/transaction.go,      *)
(* cmd/headroom-manager/launch.go).                                        *)
(***************************************************************************)
EXTENDS InstallRoot

(* Under the lock, the transaction directories are listed once.            *)
RecoverStart ==
  /\ At("idle") /\ Goto("next")
  /\ by' = "recover" /\ todo' = {t \in Txn : journal[t].phase \notin Absent}
  /\ UNCHANGED <<durable, procs, cur, mem, idx, origin, cleanupErr, faults>>

(* Mutant: the directory is looked at again and again.                     *)
SkipJournalAgain(t) ==
  /\ At("next") /\ t \in todo
  /\ journal[t].phase # "prepared" /\ ~Valid(t)
  /\ UNCHANGED vars

(* A journal that does not validate is passed over in silence.             *)
SkipJournal(t) ==
  /\ At("next") /\ t \in todo
  /\ journal[t].phase # "prepared" /\ ~Valid(t)
  /\ todo' = todo \ {t}
  /\ UNCHANGED <<durable, procs, pc, by, cur, mem, idx, origin, cleanupErr, faults>>

RemoveFinished(t) ==
  /\ At("next") /\ t \in todo
  /\ \/ journal[t].phase = "prepared"
     \/ Valid(t) /\ journal[t].phase \in {"complete", "rolled-back"}
  /\ todo' = todo \ {t}
  /\ RemoveDirectory(t)
  /\ UNCHANGED <<state, gens, boot, result, procs,
                 pc, by, cur, mem, idx, origin, cleanupErr>>

Examine(t) ==
  /\ At("next") /\ t \in todo
  /\ Valid(t) /\ journal[t].phase \notin {"complete", "rolled-back"}
  /\ Goto("rStop")
  /\ cur' = t /\ mem' = journal[t] /\ todo' = todo \ {t}
  /\ UNCHANGED <<durable, procs, by, idx, origin, cleanupErr, faults>>

(* Mutant: not while rolling back.                                         *)
StopPhasesFew == LaunchPhases

StopPhases == LaunchPhases \cup RollPhases

(* The recorded candidate and the recorded service are stopped.            *)
StopRecorded ==
  LET running == mem.phase \in StopPhases
      apps1   == IF running /\ mem.pid THEN apps \ {cur} ELSE apps
      svc1    == IF running /\ mem.svc /\ service = cur THEN NoGen ELSE service
  IN /\ At("rStop")
     /\ \/ Goto("rDecide") /\ apps' = apps1 /\ service' = svc1 /\ NoFault
        \/ /\ running /\ mem.pid /\ Fault /\ Goto("return")
           /\ apps' \in {apps, apps1} /\ service' \in {service, svc1}
     /\ UNCHANGED <<durable, receipt, starting, local>>

MustRestore == IsCandidate \/ (IsPrior /\ mem.phase \in IntentPhases)

(* What the installed state and the phase call for.                        *)
Decide ==
  /\ At("rDecide")
  /\ \/ IsPrior /\ mem.phase = "waiting-for-exit" /\ Goto("eRemove")
     \/ /\ IsPrior /\ mem.phase \in EarlyPhases
        /\ Goto(IF mem.claim /\ mem.phase # "current-exited" THEN "eStop" ELSE "eRelaunch")
     \/ MustRestore /\ Goto("restore")
     \/ IsPrior /\ ~MustRestore /\ mem.cand /\ Goto("rDrop")
     \/ IsPrior /\ ~mem.cand /\ mem.phase \in RollPhases /\ Goto("mark")
  /\ UNCHANGED <<durable, procs, local, faults>>

NextDirectory(p) == Goto(p) /\ cur' = NoTxn /\ mem' = NoJournal

-----------------------------------------------------------------------------
(* Nothing installed has changed yet: put the processes back and forget    *)
(* the transaction.                                                        *)

(* finishManagedServiceStopForRecovery.                                    *)
FinishServiceStop ==
  /\ At("eStop")
  /\ \/ service' = NoGen /\ receipt' = NoGen /\ Goto("eRelaunch") /\ NoFault
     \/ /\ service' \in {service, NoGen} /\ UNCHANGED receipt
        /\ Goto("return") /\ Fault
  /\ UNCHANGED <<durable, apps, starting, local>>

RelaunchEarly ==
  /\ RelaunchPrior("eRelaunch",
       IF mem.claim /\ (mem.phase # "current-exited" \/ service = NoGen)
       THEN "eService" ELSE "eRemove", "return")
  /\ UNCHANGED <<durable, servers, local>>

RelaunchEarlyService ==
  /\ RelaunchService("eService", "eRemove", "return")
  /\ UNCHANGED <<durable, apps, local>>

RemoveExamined ==
  /\ At("eRemove") /\ RemoveDirectory(cur) /\ NextDirectory("next")
  /\ UNCHANGED <<state, gens, boot, result, procs, by, idx, origin, cleanupErr, todo>>

-----------------------------------------------------------------------------
(* The candidate is undone ("restore" is rollbackJournal), or only its     *)
(* generation is left; then the previous application comes back.           *)

DropCandidate ==
  /\ At("rDrop")
  /\ \/ gens' = gens \ {cur} /\ Goto("mark") /\ NoFault
     \/ gens' \in {gens, gens \ {cur}} /\ Goto("return") /\ Fault
  /\ UNCHANGED <<state, boot, journal, backup, commit, result, procs, local>>

RelaunchIntent == Advance("mark", "rollback-relaunch", "rRelaunch", "return")

RelaunchRestored ==
  /\ RelaunchPrior("rRelaunch", IF mem.claim THEN "rService" ELSE "rFinal", "return")
  /\ UNCHANGED <<durable, servers, local>>

RelaunchRestoredService ==
  /\ RelaunchService("rService", "rFinal", "return")
  /\ UNCHANGED <<durable, apps, local>>

(* Mutant: the outcome is not recorded.                                    *)
RecordNothing ==
  /\ At("rFinal") /\ Goto("rResult")
  /\ UNCHANGED <<durable, procs, local, faults>>

RecordRecovered == Advance("rFinal", "rolled-back", "rResult", "return")

ReportRecovered ==
  /\ At("rResult") /\ NextDirectory("next")
  /\ \/ result' = "rolled_back" /\ NoFault
     \/ UNCHANGED result /\ Fault
  /\ UNCHANGED <<state, gens, boot, journal, backup, commit, procs,
                 by, idx, origin, cleanupErr, todo>>

-----------------------------------------------------------------------------
(* Recovery returns nil.  The launcher then starts the active executable,  *)
(* the `recover' command does not.                                         *)
RecoverFinish ==
  /\ At("next") /\ todo = {} /\ Release
  /\ \/ UNCHANGED apps
     \/ Launchable(state) /\ apps' = apps \cup {state}
  /\ UNCHANGED <<durable, servers, faults>>

RecoverStep ==
  \/ \E t \in Txn : SkipJournal(t) \/ RemoveFinished(t) \/ Examine(t)
  \/ StopRecorded \/ Decide
  \/ FinishServiceStop \/ RelaunchEarly \/ RelaunchEarlyService \/ RemoveExamined
  \/ DropCandidate \/ RelaunchIntent \/ RelaunchRestored \/ RelaunchRestoredService
  \/ RecordRecovered \/ ReportRecovered \/ RecoverFinish

=============================================================================
