--------------------------- MODULE ManagedService ---------------------------
(***************************************************************************)
(* The managed service of an install root through updates, rollbacks and   *)
(* recoveries: who holds the install lock stops the registered service,    *)
(* starts the one of the generation that is active then, and waits for its *)
(* readiness (packaging/headroom-manager/contract/transaction.go).  What   *)
(* an update does to the generation itself is ApplyTransaction.            *)
(***************************************************************************)
EXTENDS ServeProcess

(* ReadManagedService, as PrepareApply takes it: the live service becomes  *)
(* a participant, a dead one does not matter, and any other receipt makes  *)
(* it refuse.                                                              *)
Service    == IF Alive(receipt.proc) THEN receipt.proc ELSE None
Acceptable == receipt = NoReceipt \/ (receipt.ready /\ proc[receipt.proc].gen = active)

PrepareApply ==
  /\ by = None /\ journal.phase \notin Open /\ latest < MaxVersion
  /\ Acceptable
  /\ journal' = [NoJournal EXCEPT !.phase = "prepared", !.prior = active, !.claim = Service,
                   !.sup = Service # None /\ proc[Service].sup]
  /\ UNCHANGED <<active, latest, receipt, intent, proc, unit, holder, faults>>

(* ApplyPrepared takes the lock, after the service that was registered is  *)
(* found to live; then the application commits and quits.                  *)
AcceptApply ==
  /\ by = None /\ journal.phase = "prepared"
  /\ journal.claim # None => Alive(journal.claim)
  /\ by' = Manager /\ Goto("stop")
  /\ journal' = [journal EXCEPT !.phase = "stopping"]
  /\ UNCHANGED <<active, latest, receipt, intent, proc, unit, child, faults>>

-----------------------------------------------------------------------------
(* Stopping the service.                                                   *)

Early == {"stopping", "stopped"}

(* The processes a holder stops: all of the unit, if the registered        *)
(* service belongs to it, or the recorded processes.                       *)
Victims(at) ==
  IF journal.sup
  THEN IF (at = "fail" /\ journal.svc = None) \/ (at = "recover" /\ journal.phase = "copied")
       THEN {} ELSE {unit.main}
  ELSE CASE at = "stop"    -> {journal.claim}
         [] at = "fail"    -> {journal.claim, journal.svc}
         [] at = "recover" -> {IF journal.phase \in Early THEN journal.claim ELSE journal.svc}
         [] OTHER          -> {}

StopService(at, then) ==
  /\ At(at) /\ Goto(then)
  /\ proc' = [p \in Proc |-> IF p \in Victims(at) /\ Alive(p)
                             THEN [proc[p] EXCEPT !.st = "stopping"] ELSE proc[p]]
  /\ unit' = [unit EXCEPT !.on = unit.on /\ ~(journal.sup /\ Victims(at) # {})]
  /\ UNCHANGED <<files, by, child, faults>>

(* KillWait, and `systemctl stop', return when the processes are gone.     *)
Stopped == \A p \in Proc : proc[p].st # "stopping"

ParticipantsStopped ==
  /\ At("stopWait") /\ Stopped /\ Goto("copy")
  /\ journal' = [journal EXCEPT !.phase = "stopped"]
  /\ UNCHANGED <<active, latest, receipt, intent, proc, unit, by, child, faults>>

CopyGeneration ==
  /\ At("copy") /\ Goto("switch")
  /\ latest' = latest + 1
  /\ journal' = [journal EXCEPT !.phase = "copied", !.cand = latest + 1]
  /\ UNCHANGED <<active, receipt, intent, proc, unit, by, child, faults>>

(* The candidate's application is launched with the switch.                *)
Switch ==
  /\ At("switch") /\ Goto("launch")
  /\ active' = journal.cand
  /\ journal' = [journal EXCEPT !.phase = "activated"]
  /\ UNCHANGED <<latest, receipt, intent, proc, unit, by, child, faults>>

-----------------------------------------------------------------------------
(* launchManagedService of the active generation.                          *)

LaunchFailed ==
  /\ child' = None
  /\ IF by = Manager /\ journal.phase = "activated"
     THEN Goto("fail") /\ journal' = [journal EXCEPT !.phase = "rolling"]
     ELSE Goto("return") /\ UNCHANGED journal

NothingToLaunch ==
  /\ At("launch") /\ journal.claim = None /\ Goto("close")
  /\ UNCHANGED <<files, proc, unit, by, child, faults>>

StartProcess ==
  /\ At("launch") /\ journal.claim # None /\ ~journal.sup
  /\ \E p \in Fresh :
       /\ proc' = [proc EXCEPT ![p] = [st |-> "exec", gen |-> active, sup |-> FALSE, token |-> TRUE]]
       /\ child' = p
  /\ Goto("svcRecord")
  /\ UNCHANGED <<files, unit, by, faults>>

(* onLaunch: only the candidate's service is recorded in the journal.      *)
RecordService ==
  /\ At("svcRecord") /\ Goto("svcReceipt")
  /\ journal' = IF journal.phase = "activated" THEN [journal EXCEPT !.svc = child] ELSE journal
  /\ UNCHANGED <<active, latest, receipt, intent, proc, unit, by, child, faults>>

WriteReceipt ==
  /\ At("svcReceipt") /\ Goto("await")
  /\ receipt' = [proc |-> child, ready |-> FALSE, token |-> TRUE]
  /\ UNCHANGED <<active, latest, journal, intent, proc, unit, by, child, faults>>

\* Mutant: the receipt of the stopped service stays.
AuthorizeUnitOnly ==
  /\ At("launch") /\ journal.claim # None /\ journal.sup
  /\ intent' = active /\ Goto("svcUnit")
  /\ UNCHANGED <<active, latest, journal, receipt, proc, unit, by, child, faults>>

AuthorizeUnit ==
  /\ At("launch") /\ journal.claim # None /\ journal.sup
  /\ receipt' = NoReceipt /\ intent' = active
  /\ Goto("svcUnit")
  /\ UNCHANGED <<active, latest, journal, proc, unit, by, child, faults>>

(* `systemctl start' does nothing if the unit runs already.                *)
StartUnit ==
  /\ At("svcUnit") /\ Goto("await")
  /\ \/ \E p \in Fresh : IsMain(None) /\ MainStarts(p)
     \/ ~IsMain(None) /\ unit' = [unit EXCEPT !.on = TRUE] /\ UNCHANGED proc
  /\ UNCHANGED <<files, by, child, faults>>

(* The receipt names the process that was awaited.                         *)
Awaited ==
  IF journal.sup THEN receipt.proc # None /\ proc[receipt.proc].sup /\ proc[receipt.proc].gen = active
  ELSE Alive(child) /\ receipt.proc = child /\ ~receipt.token

RecordUnit ==
  /\ At("await") /\ journal.sup /\ Awaited
  /\ journal.phase = "activated" /\ journal.svc = None
  /\ journal' = [journal EXCEPT !.svc = receipt.proc]
  /\ UNCHANGED <<active, latest, receipt, intent, proc, unit, holder, faults>>

ServiceReady ==
  /\ At("await") /\ Awaited /\ receipt.ready
  /\ journal.phase = "activated" => journal.svc # None
  /\ Goto("close") /\ child' = None
  /\ UNCHANGED <<files, proc, unit, by, faults>>

ServiceExited ==
  /\ At("await") /\ ~journal.sup /\ ~Alive(child)
  /\ LaunchFailed
  /\ UNCHANGED <<active, latest, receipt, intent, proc, unit, by, faults>>

(* A deadline that passes counts as a failure as long as they are counted. *)
TimedOut == faults' = IF faults < MaxFaults THEN faults + 1 ELSE faults

(* An error at any step of it, or no readiness in time: the process is     *)
(* killed, the unit stopped.                                               *)
ServiceFails ==
  /\ \/ At("svcRecord") \/ At("svcReceipt") \/ (At("await") /\ ~journal.sup)
  /\ Alive(child) /\ proc' = [proc EXCEPT ![child].st = "dead"]
  /\ LaunchFailed /\ TimedOut
  /\ UNCHANGED <<active, latest, receipt, intent, unit, by>>

UnitFails ==
  /\ \/ At("svcUnit") \/ (At("await") /\ journal.sup)
  /\ Goto("svcStop") /\ TimedOut
  /\ UNCHANGED <<files, proc, unit, by, child>>

UnitFailed ==
  /\ At("svcStopWait") /\ Stopped
  /\ intent' = None /\ LaunchFailed
  /\ UNCHANGED <<active, latest, receipt, proc, unit, by, faults>>

-----------------------------------------------------------------------------
(* The ends.                                                               *)

(* The holder returns; a launcher goes on to the service, unless there was *)
(* an error.                                                               *)
Return(ok) ==
  /\ by' = None /\ Goto("idle") /\ child' = None
  /\ IF by \notin Proc THEN UNCHANGED <<proc, unit>>
     ELSE IF ok
     THEN proc' = [proc EXCEPT ![by].st = "exec", ![by].gen = active] /\ UNCHANGED unit
     ELSE /\ Set(by, "dead")
          /\ unit' = IF IsMain(by) THEN [unit EXCEPT !.main = None] ELSE unit

Close ==
  /\ At("close") /\ Return(TRUE)
  /\ journal' = CASE by = Manager /\ journal.phase = "activated" -> [journal EXCEPT !.phase = "complete"]
                  [] by = Manager /\ journal.phase # "activated" -> journal
                  [] by # Manager /\ journal.phase \in Early     -> NoJournal
                  [] OTHER                                         -> [journal EXCEPT !.phase = "rolled-back"]
  /\ UNCHANGED <<active, latest, receipt, intent, faults>>

ReturnError ==
  /\ At("return") /\ Return(FALSE)
  /\ UNCHANGED <<files, faults>>

(* An error of ApplyPrepared; recoverFailure undoes what was done.         *)
StepFails ==
  /\ by = Manager /\ pc \in {"stopWait", "copy", "switch", "launch"}
  /\ journal.phase \in Early \cup {"copied", "activated"}
  /\ Fault /\ Goto("fail")
  /\ journal' = [journal EXCEPT !.phase = "rolling"]
  /\ UNCHANGED <<active, latest, receipt, intent, proc, unit, by, child>>

(* rollbackJournal closes the journal; without a candidate there is no     *)
(* backup to verify, and the journal stays open for the next launch.       *)
Undo ==
  /\ At("failWait") /\ Stopped
  /\ IF journal.cand = None
     THEN Goto("return") /\ UNCHANGED <<active, journal>>
     ELSE /\ active' = journal.prior
          /\ journal' = [journal EXCEPT !.phase = "rolled-back"]
          /\ Goto("launch")
  /\ UNCHANGED <<latest, receipt, intent, proc, unit, by, child, faults>>

(* The holder dies.                                                        *)
Crash ==
  /\ by \in {Manager, Launcher} /\ Fault
  /\ by' = None /\ Goto("idle") /\ child' = None
  /\ UNCHANGED <<files, proc, unit>>

-----------------------------------------------------------------------------
(* RecoverInstall.                                                         *)

(* The launcher of the application, or `headroom-package recover'.         *)
RecoverInstall ==
  /\ by = None /\ Recoverable
  /\ by' = Launcher /\ Goto("recover")
  /\ UNCHANGED <<files, proc, unit, child, faults>>

(* finishManagedServiceStopForRecovery clears the receipt, the stop of a   *)
(* later phase the intent of a unit.  The prior generation is the active   *)
(* one when its service is started again.                                  *)
Recovered ==
  /\ At("recWait") /\ Stopped /\ Goto("launch")
  /\ IF journal.phase \in Early
     THEN /\ receipt' = IF journal.claim # None THEN NoReceipt ELSE receipt
          /\ UNCHANGED <<active, journal, intent>>
     ELSE /\ intent' = IF journal.sup /\ journal.phase # "copied" THEN None ELSE intent
          /\ active' = journal.prior
          /\ journal' = [journal EXCEPT !.phase = "relaunch"]
          /\ UNCHANGED receipt
  /\ UNCHANGED <<latest, proc, unit, by, child, faults>>

-----------------------------------------------------------------------------
Work ==
  \/ StopService("stop", "stopWait") \/ ParticipantsStopped \/ CopyGeneration \/ Switch
  \/ NothingToLaunch \/ StartProcess \/ RecordService \/ WriteReceipt
  \/ AuthorizeUnit \/ StartUnit \/ RecordUnit \/ ServiceReady \/ ServiceExited
  \/ StopService("svcStop", "svcStopWait") \/ UnitFailed
  \/ StopService("fail", "failWait") \/ Undo
  \/ StopService("recover", "recWait") \/ Recovered
  \/ Close \/ ReturnError

Run(p) ==
  \/ LauncherStarts(p) \/ LauncherRecovers(p) \/ LockBusy(p)
  \/ AcceptManagedServiceRestart(p) \/ NotAuthorized(p)
  \/ AcceptSupervised(p) \/ WriteAccepted(p)
  \/ RegisterManagedService(p) \/ WriteRegistered(p)
  \/ Bind(p) \/ MarkManagedServiceReady(p) \/ WriteReady(p) \/ Terminate(p)

Init ==
  /\ active = 0 /\ latest = 0 /\ journal = NoJournal /\ receipt = NoReceipt /\ intent = None
  /\ proc = [p \in Proc |-> [st |-> "dead", gen |-> 0, sup |-> FALSE, token |-> FALSE]]
  /\ unit = [main |-> None, on |-> FALSE]
  /\ by = None /\ pc = "idle" /\ child = None
  /\ faults = 0

Next ==
  \/ Work \/ \E p \in Proc : Run(p) \/ Quits(p)
  \/ UserServes \/ UnitStarts
  \/ PrepareApply \/ AcceptApply \/ RecoverInstall
  \/ ServiceFails \/ UnitFails \/ StepFails \/ Crash

Fairness ==
  /\ WF_vars(Work)
  /\ \A p \in Proc : WF_vars(Run(p))
  /\ WF_vars(unit.on /\ UnitStarts)

Spec == Init /\ [][Next]_vars /\ Fairness

-----------------------------------------------------------------------------
(* Types; who holds the lock is alive.                                     *)
TypeOK ==
  /\ {active, latest} \subseteq Gen /\ journal \in Journals /\ receipt \in Receipts
  /\ intent \in Gen \cup {None} /\ proc \in [Proc -> Procs]
  /\ unit \in [main : Proc \cup {None}, on : BOOLEAN]
  /\ by \in {None, Manager, Launcher} \cup Proc /\ child \in Proc \cup {None}
  /\ faults \in 0 .. MaxFaults
  /\ pc = "idle" <=> by = None
  /\ by \in Proc => proc[by].st \in {"recovering", "stopping"}

(* What an update reports is true of the service: the holder of the lock   *)
(* goes on when a service of the active generation, and another one than   *)
(* the claimed, has reported its readiness, and closes a journal when the  *)
(* claimed one is gone ("An update stops that registered server after      *)
(* commit and starts the new version before reporting success").           *)
ServiceFollows ==
  [][/\ At("await") /\ pc' = "close" =>
          receipt.ready /\ receipt.proc # journal.claim /\ proc[receipt.proc].gen = active
     /\ Close /\ journal.claim # None => ~Alive(journal.claim)]_vars

(* Services race for the receipt, which some of them write without the     *)
(* lock, and for the port: whoever serves is the one that an update will   *)
(* find and stop, as long as nothing has failed.                           *)
ServingIsRegistered ==
  faults = 0 /\ by = None /\ journal.phase \notin Open =>
    \A p \in Proc : proc[p].st = "ready" => receipt.proc = p

(* The manager waits, with the lock, for services that end and for one     *)
(* that starts, and these must not wait for the lock, whatever else starts *)
(* meanwhile ("Service shutdown must never wait on that updater"): an      *)
(* update reaches its end without any of its timeouts.                     *)
HandoffCompletes ==
  journal.phase = "stopping" /\ faults = 0 ~> journal.phase = "complete" \/ faults > 0

(* A launch that finds an open transaction recovers the installation: what *)
(* it does to that end never ends the launcher itself.                     *)
RecoverySparesItself == by \in Proc => proc[by].st # "stopping"
=============================================================================
