---------------------------- MODULE ServeProcess ----------------------------
(***************************************************************************)
(* The `headroom serve' processes of an install root and the files they    *)
(* share with its updater: the receipt of the registered service, the      *)
(* intent that lets the unit `headroom.service' past the lock, and the     *)
(* stop and start of the service by an update, its rollback and a recovery *)
(* (packaging/headroom-manager/contract/service.go,                        *)
(* service_supervisor_linux.go, transaction.go; cmd/headroom/main.go).     *)
(* This module has the processes; ManagedService adds who holds the lock.  *)
(***************************************************************************)
EXTENDS Naturals, FiniteSets

CONSTANTS MaxProc, MaxVersion, MaxFaults, Manager, Launcher, None
ASSUME ServiceAssumption ==
  /\ {MaxProc, MaxFaults} \subseteq Nat \ {0} /\ MaxVersion \in Nat
  /\ {Manager, Launcher, None} \cap Nat = {}
  /\ Manager # Launcher /\ None \notin {Manager, Launcher}

Proc == 1 .. MaxProc
Gen  == 0 .. MaxVersion

VARIABLES
  active,   \* install-state.json: the active generation
  latest,   \* the generation created last
  journal,  \* the journal of the update
  receipt,  \* managed-serve.json
  intent,   \* supervised-restart.json: the generation it names
  proc,     \* the processes
  unit,     \* headroom.service: its main process, whether it is to run
  by,       \* holder of the install lock
  pc,       \* where the holder is
  child,    \* the process launchManagedService has started
  faults    \* failures, deaths and expired timeouts so far

files == <<active, latest, journal, receipt, intent>>
holder == <<by, pc, child>>
vars  == <<files, proc, unit, holder, faults>>

Open      == {"prepared", "stopping", "stopped", "copied", "activated", "rolling", "relaunch"}
NoJournal == [phase |-> "none", claim |-> None, sup |-> FALSE,
              prior |-> 0, cand |-> None, svc |-> None]
NoReceipt == [proc |-> None, ready |-> FALSE, token |-> FALSE]

Journals == [phase : Open \cup {"none", "complete", "rolled-back"}, claim : Proc \cup {None},
             sup : BOOLEAN, prior : Gen, cand : Gen \cup {None}, svc : Proc \cup {None}]
Receipts == [proc : Proc \cup {None}, ready : BOOLEAN, token : BOOLEAN]
States   == {"dead", "launch", "waiting", "recovering", "exec", "accepting", "registering",
             "up", "bound", "marking", "ready", "stopping"}
Procs    == [st : States, gen : Gen, sup : BOOLEAN, token : BOOLEAN]

(* A journal that validates: a recovery has removed the candidate before   *)
(* it relaunches.                                                          *)
Recoverable == /\ journal.phase \in Open \ {"prepared"}
               /\ journal.phase = "relaunch" => journal.cand = None

Fault   == faults < MaxFaults /\ faults' = faults + 1
NoFault == UNCHANGED faults

Alive(p)   == p # None /\ proc[p].st # "dead"
IsMain(p)  == unit.main = p
Listening  == {p \in Proc : proc[p].st \in {"bound", "marking", "ready"}}

(* A process identifier no file names; the operating system picks it.  One *)
(* is left for the holder of the lock, and another for the unit.           *)
Free  == {p \in Proc : ~Alive(p) /\ p \notin {receipt.proc, journal.claim, journal.svc, child}}
Fresh == {p \in Free : \A q \in Free : p <= q}
Spare(n) == {p \in Fresh : Cardinality(Free) > n}

At(p)   == pc = p
Goto(p) == pc' = p

-----------------------------------------------------------------------------
(* A process.                                                              *)

Set(p, s) == proc' = [proc EXCEPT ![p].st = s]

(* UnregisterManagedService, the deferred call of an unsupervised service: *)
(* with the lock busy the receipt is left to the updater.                  *)
Registered(p) == proc[p].st \in {"up", "bound", "marking", "ready", "stopping"}

\* Mutant: it waits for the lock.
UnregisterWaits(p) ==
  /\ by = None
  /\ receipt' = IF Registered(p) /\ ~proc[p].sup /\ receipt.proc = p THEN NoReceipt ELSE receipt

Unregister(p) ==
  receipt' = IF Registered(p) /\ ~proc[p].sup /\ by = None /\ receipt.proc = p
             THEN NoReceipt ELSE receipt

(* Its end; a dead process holds no lock, and a unit no main process.      *)
Vacates(p) == IF by = p THEN by' = None /\ Goto("idle") /\ child' = None ELSE UNCHANGED holder

Ends(p) ==
  /\ Set(p, "dead") /\ Vacates(p)
  /\ unit' = IF IsMain(p) THEN [unit EXCEPT !.main = None] ELSE unit

(* It returns an error.                                                    *)
Fails(p) == Ends(p) /\ Unregister(p) /\ NoFault /\ UNCHANGED <<active, latest, journal, intent>>

(* `headroom serve' in a terminal ...                                      *)
UserServes ==
  \E p \in Spare(2) :
    /\ proc' = [proc EXCEPT ![p] = [st |-> "launch", gen |-> 0, sup |-> FALSE, token |-> FALSE]]
    /\ UNCHANGED <<files, unit, holder, faults>>

(* ... or the unit, at boot, by hand, or again after a failure             *)
(* (Restart=on-failure).                                                   *)
MainStarts(p) ==
  /\ proc' = [proc EXCEPT ![p] = [st |-> "launch", gen |-> 0, sup |-> TRUE, token |-> FALSE]]
  /\ unit' = [main |-> p, on |-> TRUE]

UnitStarts ==
  \E p \in Spare(1) : IsMain(None) /\ MainStarts(p) /\ UNCHANGED <<files, holder, faults>>

(* AuthorizeSupervisedLauncherHandoff: the launcher of the unit need not   *)
(* recover, and so not wait for the lock, if the intent is about the       *)
(* active generation.                                                      *)
Authorized(p) == proc[p].sup /\ IsMain(p) /\ intent = active

LauncherStarts(p) ==
  /\ proc[p].st = "launch"
  /\ proc' = [proc EXCEPT ![p].st = IF Authorized(p) THEN "exec" ELSE "waiting",
                          ![p].gen = active]
  /\ UNCHANGED <<files, unit, holder, faults>>

(* RecoverInstall of a launcher: what there is to undo is undone first.    *)
LauncherRecovers(p) ==
  /\ proc[p].st = "waiting" /\ by = None
  /\ IF Recoverable
     THEN /\ Set(p, "recovering") /\ by' = p /\ Goto("recover")
          /\ UNCHANGED <<journal, child>>
     ELSE /\ proc' = [proc EXCEPT ![p].st = "exec", ![p].gen = active]
          /\ journal' = IF journal.phase = "prepared" THEN NoJournal ELSE journal
          /\ UNCHANGED holder
  /\ UNCHANGED <<active, latest, receipt, intent, unit, faults>>

(* "Headroom install transaction is busy".                                 *)
LockBusy(p) ==
  /\ proc[p].st \in {"waiting", "registering"} /\ by # None
  /\ Fails(p)

(* AcceptManagedServiceRestart: the manager that started this process      *)
(* writes its receipt; without it, it gives up after five seconds.         *)
AcceptManagedServiceRestart(p) ==
  /\ proc[p].st = "exec" /\ proc[p].token
  /\ receipt.proc = p /\ receipt.token
  /\ receipt' = [receipt EXCEPT !.token = FALSE]
  /\ Set(p, "up")
  /\ UNCHANGED <<active, latest, journal, intent, unit, holder, faults>>

NotAuthorized(p) ==
  /\ proc[p].st = "exec" /\ proc[p].token /\ receipt.proc # p
  /\ child # p
  /\ Fails(p)

(* AcceptSupervisedManagedServiceRestart: the intent is read, the unit's   *)
(* main process asked for, and the receipt written, all without the lock.  *)
AcceptSupervised(p) ==
  /\ proc[p].st = "exec" /\ proc[p].sup /\ intent # None
  /\ IF intent = proc[p].gen /\ IsMain(p)
     THEN Set(p, "accepting") /\ UNCHANGED <<files, unit, holder, faults>>
     ELSE Fails(p)

WriteAccepted(p) ==
  /\ proc[p].st = "accepting"
  /\ receipt' = [proc |-> p, ready |-> FALSE, token |-> FALSE]
  /\ Set(p, "up")
  /\ UNCHANGED <<active, latest, journal, intent, unit, holder, faults>>

(* RegisterManagedService: the active generation is checked first, and the *)
(* lock waited for then; only the receipt of a dead service is replaced    *)
(* (managedServiceMayRegister).                                            *)
\* Mutant: a service of another generation is replaced as well.
MayRegisterAfterUpdate == ~Alive(receipt.proc) \/ proc[receipt.proc].gen # active
MayRegister == ~Alive(receipt.proc)

RegisterManagedService(p) ==
  /\ proc[p].st = "exec" /\ ~proc[p].token /\ (proc[p].sup => intent = None)
  /\ IF proc[p].gen = active
     THEN Set(p, "registering") /\ UNCHANGED <<files, unit, holder, faults>>
     ELSE Fails(p)

WriteRegistered(p) ==
  /\ proc[p].st = "registering" /\ by = None
  /\ IF MayRegister
     THEN /\ receipt' = [proc |-> p, ready |-> FALSE, token |-> FALSE]
          /\ Set(p, "up")
          /\ UNCHANGED <<active, latest, journal, intent, unit, holder, faults>>
     ELSE Fails(p)

(* The listener: every service has the configured address.                 *)
Bind(p) ==
  /\ proc[p].st = "up"
  /\ IF Listening = {} THEN Set(p, "bound") /\ UNCHANGED <<files, unit, holder, faults>>
     ELSE Fails(p)

(* MarkManagedServiceReady: the receipt is read and checked ...            *)
MarkManagedServiceReady(p) ==
  /\ proc[p].st = "bound"
  /\ IF receipt.proc = p /\ ~receipt.token /\ proc[p].gen = active /\ (proc[p].sup => IsMain(p))
     THEN /\ Set(p, "marking")
          /\ intent' = IF proc[p].sup THEN None ELSE intent
          /\ UNCHANGED <<active, latest, journal, receipt, unit, holder, faults>>
     ELSE Fails(p)

(* ... and written back, without the lock.                                 *)
WriteReady(p) ==
  /\ proc[p].st = "marking"
  /\ receipt' = [proc |-> p, ready |-> TRUE, token |-> FALSE]
  /\ Set(p, "ready")
  /\ UNCHANGED <<active, latest, journal, intent, unit, holder, faults>>

(* SIGTERM: the server shuts down, and unregisters.                        *)
Terminate(p) ==
  /\ proc[p].st = "stopping" /\ Fails(p)

(* A service dies, or its user ends it.                                    *)
Quits(p) ==
  /\ Alive(p) /\ Fault
  /\ Set(p, "dead")
  /\ (UNCHANGED receipt \/ Unregister(p))
  /\ \E on \in {unit.on, FALSE} :
       unit' = IF IsMain(p) THEN [main |-> None, on |-> on] ELSE unit
  /\ Vacates(p)
  /\ UNCHANGED <<active, latest, journal, intent>>

=============================================================================
