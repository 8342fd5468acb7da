------------------------ MODULE ManagedServiceProofs ------------------------
(***************************************************************************)
(* Theorems about ManagedService: its types, that an update goes on only   *)
(* with the service it has started and without the one it has stopped,     *)
(* and that, as long as nothing fails, whoever serves is registered, for   *)
(* any number of processes, updates and failures.                          *)
(***************************************************************************)
EXTENDS ManagedService, TLAPS

(***************************************************************************)
(* The invariant.                                                          *)
(***************************************************************************)

(* Where the holder of the lock has stopped the claimed service.           *)
LaunchPcs == {"launch", "svcRecord", "svcReceipt", "svcUnit", "await",
              "svcStop", "svcStopWait", "close"}
WaitPcs   == {"stopWait", "recWait", "failWait"}

FilesTypes ==
  /\ active \in Gen /\ latest \in Gen /\ intent \in Gen \cup {None}
  /\ journal \in Journals /\ receipt \in Receipts

ProcTypes ==
  /\ proc \in [Proc -> Procs]
  /\ unit \in [main : Proc \cup {None}, on : BOOLEAN]
  /\ faults \in 0 .. MaxFaults

HolderTypes ==
  /\ by \in {None, Manager, Launcher} \cup Proc /\ child \in Proc \cup {None}
  /\ pc = "idle" <=> by = None
  /\ by \in Proc => proc[by].st \in {"recovering", "stopping"}

(* What is done when the journal says so.                                  *)
PhaseOK ==
  /\ journal.phase = "prepared" => by = None
  /\ journal.phase \in {"prepared"} \cup Early => latest < MaxVersion
  /\ pc \in {"stop", "stopWait"} => journal.phase = "stopping"
  /\ pc = "copy" => journal.phase = "stopped"
  /\ pc = "switch" => journal.phase = "copied" /\ journal.cand # None
  /\ pc \in {"fail", "failWait"} => journal.phase = "rolling"
  /\ pc \in {"recover", "recWait"} => journal.phase \in Open \ {"prepared"}

(* The process that launchManagedService has started is its own.           *)
ChildOK ==
  /\ child # None =>
       /\ pc \in {"svcRecord", "svcReceipt", "await"} /\ ~journal.sup
       /\ child \notin {by, journal.claim}
       /\ proc[child].st \notin {"launch", "waiting", "recovering"}
       /\ proc[child].gen = active /\ ~proc[child].sup
  /\ pc \in {"svcRecord", "svcReceipt"} => child # None
  /\ pc = "await" /\ ~journal.sup => child # None

(* The only process of the unit is its main process.                       *)
UnitOK == \A p \in Proc : Alive(p) /\ proc[p].sup => unit.main = p

(* The claimed service: stopped first, and gone once that was waited for.  *)
ClaimOK ==
  /\ journal.claim = None => ~journal.sup /\ pc \notin LaunchPcs \ {"launch", "close"}
  /\ journal.claim # None =>
       /\ journal.sup <=> proc[journal.claim].sup
       /\ journal.phase \in {"stopped", "copied", "activated", "relaunch", "complete", "rolled-back"}
            => proc[journal.claim].st = "dead"
       /\ journal.phase = "rolling" \/ pc \in WaitPcs
            => proc[journal.claim].st \in {"dead", "stopping"}
       /\ pc \in LaunchPcs => proc[journal.claim].st = "dead"

(* A start through the unit has taken the receipt away.                    *)
ReceiptOK ==
  /\ pc = "svcUnit" => journal.sup
  /\ pc \in {"svcUnit", "await"} /\ journal.sup => receipt.proc # journal.claim

ServiceInv == FilesTypes /\ ProcTypes /\ HolderTypes /\ PhaseOK /\ ChildOK /\ UnitOK /\ ClaimOK /\ ReceiptOK

(***************************************************************************)
(* As long as nothing has failed.                                          *)
(***************************************************************************)

(* It has a receipt, until another process takes it.                       *)
Owner(p) == proc[p].st \in {"up", "bound", "marking", "ready"}

(* Nobody but a manager holds the lock, and it goes straight on.           *)
StraightOn ==
  \/ by = None /\ journal.phase \in {"none", "prepared", "complete"}
  \/ /\ by = Manager
     /\ \/ pc \in {"stop", "stopWait"} /\ journal.phase = "stopping"
        \/ pc = "copy" /\ journal.phase = "stopped"
        \/ pc = "switch" /\ journal.phase = "copied"
        \/ /\ pc \in LaunchPcs \ {"svcStop", "svcStopWait"}
           /\ journal.phase = "activated"

(* Until its successor is started, the claimed service has the receipt.    *)
ClaimRegistered ==
  journal.claim # None =>
    /\ journal.phase = "prepared" =>
         receipt.proc = journal.claim /\ receipt.ready /\ proc[journal.claim].st = "ready"
    /\ pc \in {"stop", "stopWait", "copy", "switch", "launch", "svcRecord", "svcReceipt"} =>
         receipt.proc = journal.claim

(* A process with a token is the child, and it does not fail.              *)
ChildRegisters ==
  /\ \A p \in Proc :
       proc[p].st \in {"launch", "waiting", "recovering", "exec"} /\ proc[p].token => p = child
  /\ pc \in {"svcRecord", "svcReceipt"} => proc[child].st = "exec" /\ proc[child].token
  /\ pc = "await" /\ ~journal.sup =>
       /\ receipt.proc = child
       /\ \/ proc[child].st = "exec" /\ proc[child].token /\ receipt.token
          \/ Owner(child) /\ ~receipt.token

(* The unit's main process, past the lock, is the only one that may take   *)
(* the receipt, and the intent with it.                                    *)
UnitRegisters ==
  /\ intent # None => pc \in {"svcUnit", "await"} /\ journal.sup /\ intent = active
  /\ \A p \in Proc :
       proc[p].st = "accepting" =>
         IsMain(p) /\ intent # None /\ proc[p].gen = active /\ proc[p].sup
  /\ pc \in {"svcUnit", "await"} /\ journal.sup /\ receipt.proc # None =>
       /\ Owner(receipt.proc) /\ proc[receipt.proc].sup /\ proc[receipt.proc].gen = active
       /\ ~receipt.token
       /\ proc[receipt.proc].st \in {"marking", "ready"} => intent = None

(* One process at a time has the receipt; who is to end is waited for.     *)
OwnersOK ==
  /\ \A p \in Proc : Owner(p) => receipt.proc = p
  /\ \A p \in Proc : proc[p].st = "stopping" => pc = "stopWait"
  /\ receipt.ready => receipt.proc # None /\ proc[receipt.proc].st \in {"ready", "stopping", "dead"}

Calm == StraightOn /\ ClaimRegistered /\ ChildRegisters /\ UnitRegisters /\ OwnersOK
CalmInv == faults = 0 => Calm

(***************************************************************************)
(* The types.                                                              *)
(***************************************************************************)

(* The holders that are not processes.                                     *)
LEMMA Outside ==
  /\ None \notin Proc /\ Manager \notin Proc /\ Launcher \notin Proc
  /\ None # Manager /\ None # Launcher /\ Manager # Launcher
BY ServiceAssumption DEF Proc

(* One process goes from one state to another, ...                         *)
LEMMA SetState ==
  ASSUME proc \in [Proc -> Procs], NEW p \in Proc, NEW s \in States, Set(p, s)
  PROVE  /\ proc' \in [Proc -> Procs]
         /\ \A q \in Proc : q # p => proc'[q] = proc[q]
         /\ proc'[p] = [proc[p] EXCEPT !.st = s]
BY DEF Set, Procs

(* ... runs its generation, ...                                            *)
LEMMA Executes ==
  ASSUME FilesTypes, ProcTypes, NEW p \in Proc,
         proc' = [proc EXCEPT ![p].st = "exec", ![p].gen = active]
  PROVE  proc' \in [Proc -> Procs]
<1>1. [proc[p] EXCEPT !.st = "exec", !.gen = active] \in Procs
  BY DEF ProcTypes, FilesTypes, Procs, States
<1>2. proc' = [proc EXCEPT ![p] = [proc[p] EXCEPT !.st = "exec", !.gen = active]]
  BY DEF ProcTypes
<1>. QED BY <1>1, <1>2 DEF ProcTypes

(* ... or is named by a receipt.                                           *)
LEMMA ReceiptTypes ==
  /\ NoReceipt \in Receipts
  /\ \A p \in Proc, ready \in BOOLEAN, token \in BOOLEAN :
       [proc |-> p, ready |-> ready, token |-> token] \in Receipts
BY DEF NoReceipt, Receipts

(* A process that returns an error.                                        *)
LEMMA FailsTypes ==
  ASSUME FilesTypes, ProcTypes, HolderTypes, NEW p \in Proc, Fails(p)
  PROVE  FilesTypes' /\ ProcTypes' /\ HolderTypes'
<1>. USE DEF Fails, Ends, NoFault
<1>1. FilesTypes'
  BY Outside DEF Unregister, FilesTypes, Receipts, NoReceipt
<1>2. ProcTypes'
  BY SetState DEF ProcTypes, States, IsMain
<1>3. HolderTypes'
  <2>1. \A q \in Proc : q # p => proc'[q] = proc[q]
    BY SetState DEF ProcTypes, States
  <2>. QED BY <2>1, Outside DEF HolderTypes, Vacates, Goto, holder
<1>. QED BY <1>1, <1>2, <1>3

(* The holder stops the service.                                           *)
LEMMA StopTypes ==
  ASSUME ServiceInv, NEW at, NEW then, "idle" \notin {at, then}, StopService(at, then)
  PROVE  FilesTypes' /\ ProcTypes' /\ HolderTypes'
<1>. USE DEF ServiceInv, StopService
<1>1. FilesTypes'
  BY DEF files, FilesTypes
<1>2. ProcTypes'
  <2>1. \A p \in Proc : [proc[p] EXCEPT !.st = "stopping"] \in Procs
    BY DEF ProcTypes, Procs, States
  <2>2. proc' \in [Proc -> Procs]
    BY <2>1 DEF ProcTypes
  <2>. QED BY <2>2 DEF ProcTypes
<1>3. HolderTypes'
  <2>1. \A p \in Proc : proc'[p].st \in {proc[p].st, "stopping"}
    BY DEF ProcTypes, Procs
  <2>2. pc' # "idle" /\ (by \in Proc => proc[by].st \in {"recovering", "stopping"})
    BY DEF HolderTypes, Goto
  <2>3. by # None
    BY DEF HolderTypes, At
  <2>. QED BY <2>1, <2>2, <2>3 DEF HolderTypes
<1>. QED BY <1>1, <1>2, <1>3

LEMMA CopyTypes ==
  ASSUME ServiceInv, CopyGeneration
  PROVE  FilesTypes' /\ ProcTypes' /\ HolderTypes'
<1>. USE ServiceAssumption DEF ServiceInv, CopyGeneration, At, Goto
<1>1. latest + 1 \in Gen
  BY DEF PhaseOK, FilesTypes, Gen, Early
<1>2. journal' \in Journals
  BY <1>1 DEF FilesTypes, Journals, Open
<1>. QED BY <1>1, <1>2 DEF FilesTypes, ProcTypes, HolderTypes

LEMMA StartUnitTypes ==
  ASSUME ServiceInv, StartUnit
  PROVE  FilesTypes' /\ ProcTypes' /\ HolderTypes'
<1>. USE DEF ServiceInv, StartUnit
<1>0. by # None
  BY DEF HolderTypes, At
<1>1. FilesTypes'
  BY DEF FilesTypes, files
<1>2. CASE IsMain(None)
  <2>1. PICK p \in Fresh : MainStarts(p)
    BY <1>2
  <2>2. p \in Proc /\ ~Alive(p)
    BY DEF Fresh, Free
  <2>3. [st |-> "launch", gen |-> 0, sup |-> TRUE, token |-> FALSE] \in Procs
    BY ServiceAssumption DEF Procs, States, Gen
  <2>4. proc' \in [Proc -> Procs] /\ \A q \in Proc : q # p => proc'[q] = proc[q]
    BY <2>1, <2>2, <2>3 DEF MainStarts, ProcTypes
  <2>5. unit' \in [main : Proc \cup {None}, on : BOOLEAN]
    BY <2>1, <2>2 DEF MainStarts
  <2>6. by \in Proc => by # p
    BY <2>2, Outside DEF Alive, HolderTypes
  <2>. QED BY <1>0, <1>1, <2>4, <2>5, <2>6 DEF ProcTypes, HolderTypes, Goto
<1>3. CASE ~IsMain(None)
  BY <1>0, <1>1, <1>3 DEF ProcTypes, HolderTypes, Goto
<1>. QED BY <1>2, <1>3

LEMMA RecoveredTypes ==
  ASSUME ServiceInv, Recovered
  PROVE  FilesTypes' /\ ProcTypes' /\ HolderTypes'
<1>. USE DEF ServiceInv, Recovered
<1>1. journal' \in Journals
  <2>1. [journal EXCEPT !.phase = "relaunch"] \in Journals
    BY DEF FilesTypes, Journals, Open
  <2>. QED BY <2>1 DEF FilesTypes
<1>2. receipt' \in Receipts
  BY ReceiptTypes DEF FilesTypes
<1>3. journal.prior \in Gen
  BY DEF FilesTypes, Journals
<1>. QED BY <1>1, <1>2, <1>3 DEF FilesTypes, ProcTypes, HolderTypes, At, Goto

(* The holder returns.                                                     *)
LEMMA ReturnTypes ==
  ASSUME ServiceInv, NEW ok, Return(ok)
  PROVE  proc' \in [Proc -> Procs] /\ unit' \in [main : Proc \cup {None}, on : BOOLEAN]
<1>. USE DEF ServiceInv, Return
<1>1. CASE by \notin Proc
  BY <1>1 DEF ProcTypes
<1>2. CASE by \in Proc /\ ok
  BY <1>2, Executes DEF ProcTypes
<1>3. CASE by \in Proc /\ ~ok
  <2>1. proc' \in [Proc -> Procs]
    BY <1>3, SetState DEF ProcTypes, States
  <2>. QED BY <1>3, <2>1 DEF ProcTypes
<1>. QED BY <1>1, <1>2, <1>3

LEMMA EndTypes ==
  ASSUME ServiceInv, Close \/ ReturnError
  PROVE  FilesTypes' /\ ProcTypes' /\ HolderTypes'
<1>. USE DEF ServiceInv
<1>1. FilesTypes'
  <2>1. CASE ReturnError
    BY <2>1 DEF ReturnError, FilesTypes, files
  <2>2. CASE Close
    <3>1. NoJournal \in Journals
      BY ServiceAssumption DEF NoJournal, Journals, Gen, Open
    <3>2. \A ph \in {"complete", "rolled-back"} : [journal EXCEPT !.phase = ph] \in Journals
      BY DEF FilesTypes, Journals
    <3>. QED BY <2>2, <3>1, <3>2 DEF Close, FilesTypes
  <2>. QED BY <2>1, <2>2
<1>2. PICK ok \in BOOLEAN : Return(ok) /\ UNCHANGED faults
  BY DEF Close, ReturnError
<1>3. ProcTypes'
  BY <1>2, ReturnTypes DEF ProcTypes
<1>4. HolderTypes'
  BY <1>2, Outside DEF Return, HolderTypes, Goto
<1>. QED BY <1>1, <1>3, <1>4

(* The other steps of the holder.                                          *)
LEMMA StepTypes ==
  ASSUME ServiceInv,
         \/ ParticipantsStopped
         \/ Switch
         \/ NothingToLaunch
         \/ StartProcess
         \/ RecordService
         \/ WriteReceipt
         \/ AuthorizeUnit
         \/ RecordUnit
         \/ ServiceReady
         \/ ServiceExited
         \/ UnitFailed
         \/ Undo
  PROVE  FilesTypes' /\ ProcTypes' /\ HolderTypes'
<1>. USE ServiceAssumption DEF ServiceInv, FilesTypes, ProcTypes,
       HolderTypes, Gen, Open, Early, Journals, Receipts, Procs, States,
       NoReceipt, NoJournal, files, holder, At, Goto, Set, Alive, IsMain,
       NoFault, Fault
<1>1. CASE ParticipantsStopped
  BY <1>1 DEF ParticipantsStopped, Stopped
<1>2. CASE Switch
  <2>1. FilesTypes'
    BY <1>2 DEF Switch, PhaseOK
  <2>2. ProcTypes'
    BY <1>2 DEF Switch
  <2>3. HolderTypes'
    BY <1>2 DEF Switch
  <2>. QED BY <2>1, <2>2, <2>3
<1>3. CASE NothingToLaunch
  BY <1>3 DEF NothingToLaunch
<1>4. CASE StartProcess
  BY <1>4 DEF Free, Fresh, StartProcess
<1>5. CASE RecordService
  BY <1>5 DEF RecordService
<1>6. CASE WriteReceipt
  BY <1>6 DEF WriteReceipt
<1>7. CASE AuthorizeUnit
  BY <1>7 DEF AuthorizeUnit
<1>8. CASE RecordUnit
  BY <1>8 DEF Awaited, RecordUnit
<1>9. CASE ServiceReady
  BY <1>9 DEF Awaited, ServiceReady
<1>10. CASE ServiceExited
  BY <1>10 DEF LaunchFailed, ServiceExited
<1>11. CASE UnitFailed
  BY <1>11 DEF LaunchFailed, Stopped, UnitFailed
<1>12. CASE Undo
  BY <1>12 DEF Stopped, Undo
<1>. QED BY <1>1, <1>2, <1>3, <1>4, <1>5, <1>6, <1>7, <1>8, <1>9, <1>10,
       <1>11, <1>12

LEMMA WorkTypes ==
  ASSUME ServiceInv, Work
  PROVE  FilesTypes' /\ ProcTypes' /\ HolderTypes'
<1>1. CASE \/ StopService("stop", "stopWait") \/ StopService("svcStop", "svcStopWait")
            \/ StopService("fail", "failWait") \/ StopService("recover", "recWait")
  BY <1>1, StopTypes
<1>. QED BY <1>1, CopyTypes, StartUnitTypes, RecoveredTypes, EndTypes, StepTypes DEF Work

(* The launcher of a process.                                              *)
LEMMA LauncherStartsTypes ==
  ASSUME ServiceInv, NEW p \in Proc, LauncherStarts(p)
  PROVE  FilesTypes' /\ ProcTypes' /\ HolderTypes'
<1>. DEFINE s == IF Authorized(p) THEN "exec" ELSE "waiting"
<1>1. proc' = [proc EXCEPT ![p] = [proc[p] EXCEPT !.st = s, !.gen = active]]
  BY DEF LauncherStarts, ServiceInv, ProcTypes
<1>2. [proc[p] EXCEPT !.st = s, !.gen = active] \in Procs
  BY DEF ServiceInv, ProcTypes, FilesTypes, Procs, States
<1>3. FilesTypes'
  BY DEF LauncherStarts, ServiceInv, FilesTypes, files
<1>. QED BY <1>1, <1>2, <1>3, Outside
         DEF LauncherStarts, ServiceInv, ProcTypes, HolderTypes, holder

LEMMA LauncherRecoversTypes ==
  ASSUME ServiceInv, NEW p \in Proc, LauncherRecovers(p)
  PROVE  FilesTypes' /\ ProcTypes' /\ HolderTypes'
<1>. USE DEF ServiceInv, LauncherRecovers
<1>1. FilesTypes'
  <2>1. NoJournal \in Journals
    BY ServiceAssumption DEF NoJournal, Journals, Gen, Open
  <2>2. journal' \in {journal, NoJournal}
    OBVIOUS
  <2>. QED BY <2>1, <2>2 DEF FilesTypes
<1>2. CASE Recoverable
  <2>1. proc' \in [Proc -> Procs] /\ proc'[p].st = "recovering"
    BY <1>2 DEF Set, ProcTypes, States, Procs
  <2>. QED BY <1>1, <1>2, <2>1, Outside DEF ProcTypes, HolderTypes, Goto
<1>3. CASE ~Recoverable
  <2>1. proc' \in [Proc -> Procs]
    BY <1>3, Executes
  <2>2. UNCHANGED holder /\ by = None
    BY <1>3
  <2>. QED BY <1>1, <2>1, <2>2, Outside DEF ProcTypes, HolderTypes, holder
<1>. QED BY <1>2, <1>3

(* What fails, or goes on.                                                 *)
LEMMA WriteRegisteredTypes ==
  ASSUME ServiceInv, NEW p \in Proc, WriteRegistered(p)
  PROVE  FilesTypes' /\ ProcTypes' /\ HolderTypes'
<1>. USE DEF ServiceInv, WriteRegistered
<1>1. CASE MayRegister
  <2>1. proc' \in [Proc -> Procs] /\ \A q \in Proc : q # p => proc'[q] = proc[q]
    BY <1>1, SetState DEF ProcTypes, States
  <2>2. receipt' \in Receipts
    BY <1>1, ReceiptTypes
  <2>. QED BY <1>1, <2>1, <2>2, Outside DEF FilesTypes, ProcTypes, HolderTypes, holder
<1>. QED BY <1>1, FailsTypes

LEMMA BindTypes ==
  ASSUME ServiceInv, NEW p \in Proc, Bind(p)
  PROVE  FilesTypes' /\ ProcTypes' /\ HolderTypes'
<1>. USE DEF ServiceInv, Bind
<1>1. CASE Listening = {}
  <2>1. proc' \in [Proc -> Procs] /\ \A q \in Proc : q # p => proc'[q] = proc[q]
    BY <1>1, SetState DEF ProcTypes, States
  <2>2. UNCHANGED <<files, unit, holder, faults>>
    BY <1>1
  <2>3. HolderTypes'
    BY <2>1, <2>2, Outside DEF HolderTypes, holder
  <2>. QED BY <2>1, <2>2, <2>3 DEF FilesTypes, ProcTypes, files
<1>. QED BY <1>1, FailsTypes

LEMMA MarkTypes ==
  ASSUME ServiceInv, NEW p \in Proc, MarkManagedServiceReady(p)
  PROVE  FilesTypes' /\ ProcTypes' /\ HolderTypes'
<1>. USE DEF ServiceInv, MarkManagedServiceReady
<1>1. CASE receipt.proc = p /\ ~receipt.token /\ proc[p].gen = active /\ (proc[p].sup => IsMain(p))
  <2>1. proc' \in [Proc -> Procs] /\ \A q \in Proc : q # p => proc'[q] = proc[q]
    BY <1>1, SetState DEF ProcTypes, States
  <2>. QED BY <1>1, <2>1, Outside DEF FilesTypes, ProcTypes, HolderTypes, holder
<1>. QED BY <1>1, FailsTypes

(* The other steps of a process.                                           *)
LEMMA ProcessTypes ==
  ASSUME ServiceInv, NEW p \in Proc,
         \/ AcceptManagedServiceRestart(p)
         \/ AcceptSupervised(p)
         \/ WriteAccepted(p)
         \/ RegisterManagedService(p)
         \/ WriteReady(p)
  PROVE  FilesTypes' /\ ProcTypes' /\ HolderTypes'
<1>. USE ServiceAssumption DEF ServiceInv, FilesTypes, ProcTypes,
       HolderTypes, Gen, Open, Early, Journals, Receipts, Procs, States,
       NoReceipt, NoJournal, files, holder, At, Goto, Set, Alive, IsMain,
       NoFault, Fault
<1>1. CASE AcceptManagedServiceRestart(p)
  <2>1. FilesTypes'
    BY <1>1 DEF AcceptManagedServiceRestart
  <2>2. ProcTypes'
    BY <1>1 DEF AcceptManagedServiceRestart
  <2>3. HolderTypes'
    BY <1>1 DEF AcceptManagedServiceRestart
  <2>. QED BY <2>1, <2>2, <2>3
<1>2. CASE AcceptSupervised(p)
  BY <1>2 DEF AcceptSupervised, Ends, Fails, Registered, Unregister, Vacates
<1>3. CASE WriteAccepted(p)
  BY <1>3 DEF WriteAccepted
<1>4. CASE RegisterManagedService(p)
  BY <1>4 DEF Ends, Fails, RegisterManagedService, Registered, Unregister,
         Vacates
<1>5. CASE WriteReady(p)
  BY <1>5 DEF WriteReady
<1>. QED BY <1>1, <1>2, <1>3, <1>4, <1>5

LEMMA RunTypes ==
  ASSUME ServiceInv, NEW p \in Proc, Run(p)
  PROVE  FilesTypes' /\ ProcTypes' /\ HolderTypes'
<1>1. CASE LockBusy(p) \/ NotAuthorized(p) \/ Terminate(p)
  BY <1>1, FailsTypes DEF LockBusy, NotAuthorized, Terminate, ServiceInv
<1>. QED BY <1>1, LauncherStartsTypes, LauncherRecoversTypes, WriteRegisteredTypes, BindTypes,
            MarkTypes, ProcessTypes DEF Run

(* A process that dies.                                                    *)
LEMMA QuitsTypes ==
  ASSUME ServiceInv, NEW p \in Proc, Quits(p)
  PROVE  FilesTypes' /\ ProcTypes' /\ HolderTypes'
<1>. USE DEF Quits, ServiceInv
<1>1. FilesTypes'
  <2>1. receipt' \in {receipt, NoReceipt}
    BY DEF Unregister
  <2>. QED BY <2>1, ReceiptTypes DEF FilesTypes
<1>2. proc' \in [Proc -> Procs] /\ \A q \in Proc : q # p => proc'[q] = proc[q]
  BY SetState DEF ProcTypes, States
<1>3. unit' \in [main : Proc \cup {None}, on : BOOLEAN]
  <2>1. PICK on \in {unit.on, FALSE} :
          unit' = IF IsMain(p) THEN [main |-> None, on |-> on] ELSE unit
    OBVIOUS
  <2>2. on \in BOOLEAN
    BY DEF ProcTypes
  <2>. QED BY <2>1, <2>2 DEF ProcTypes
<1>4. faults' \in 0 .. MaxFaults
  BY ServiceAssumption DEF Fault, ProcTypes
<1>5. HolderTypes'
  BY <1>2, Outside DEF HolderTypes, Vacates, Goto, holder
<1>. QED BY <1>1, <1>2, <1>3, <1>4, <1>5 DEF ProcTypes

(* What comes from outside, and what else fails.                           *)
LEMMA OtherTypes ==
  ASSUME ServiceInv,
         \/ UserServes
         \/ UnitStarts
         \/ PrepareApply
         \/ ServiceFails
         \/ UnitFails
         \/ StepFails
  PROVE  FilesTypes' /\ ProcTypes' /\ HolderTypes'
<1>. USE ServiceAssumption DEF ServiceInv, FilesTypes, ProcTypes,
       HolderTypes, Gen, Open, Early, Journals, Receipts, Procs, States,
       NoReceipt, NoJournal, files, holder, At, Goto, Set, Alive, IsMain,
       NoFault, Fault
<1>1. CASE UserServes
  <2>1. PICK p \in Proc : ~Alive(p) /\
          proc' = [proc EXCEPT ![p] = [st |-> "launch", gen |-> 0, sup |-> FALSE, token |-> FALSE]]
    BY <1>1 DEF UserServes, Spare, Fresh, Free
  <2>2. proc' \in [Proc -> Procs] /\ \A q \in Proc : q # p => proc'[q] = proc[q]
    BY <2>1
  <2>3. UNCHANGED <<files, unit, holder, faults>>
    BY <1>1 DEF UserServes
  <2>. QED BY <2>1, <2>2, <2>3, Outside
<1>2. CASE UnitStarts
  <2>1. PICK p \in Proc : ~Alive(p) /\ MainStarts(p)
    BY <1>2 DEF UnitStarts, Spare, Fresh, Free
  <2>2. proc' \in [Proc -> Procs] /\ \A q \in Proc : q # p => proc'[q] = proc[q]
    BY <2>1 DEF MainStarts
  <2>3. unit' \in [main : Proc \cup {None}, on : BOOLEAN]
    BY <2>1 DEF MainStarts
  <2>4. UNCHANGED <<files, holder, faults>>
    BY <1>2 DEF UnitStarts
  <2>. QED BY <2>1, <2>2, <2>3, <2>4, Outside
<1>3. CASE PrepareApply
  <2>1. FilesTypes'
    BY <1>3 DEF Acceptable, PrepareApply, Service
  <2>2. ProcTypes'
    BY <1>3 DEF Acceptable, PrepareApply, Service
  <2>3. HolderTypes'
    BY <1>3 DEF Acceptable, PrepareApply, Service
  <2>. QED BY <2>1, <2>2, <2>3
<1>4. CASE ServiceFails
  <2>1. FilesTypes'
    BY <1>4 DEF LaunchFailed, ServiceFails, TimedOut
  <2>2. ProcTypes'
    BY <1>4 DEF LaunchFailed, ServiceFails, TimedOut
  <2>3. HolderTypes'
    BY <1>4, Outside DEF ChildOK, LaunchFailed, ServiceFails, TimedOut
  <2>. QED BY <2>1, <2>2, <2>3
<1>5. CASE UnitFails
  BY <1>5 DEF TimedOut, UnitFails
<1>6. CASE StepFails
  BY <1>6 DEF StepFails
<1>. QED BY <1>1, <1>2, <1>3, <1>4, <1>5, <1>6

LEMMA LockTypes ==
  ASSUME ServiceInv, AcceptApply \/ RecoverInstall \/ Crash
  PROVE  FilesTypes' /\ ProcTypes' /\ HolderTypes'
<1>. USE DEF ServiceInv, AcceptApply, RecoverInstall, Crash
<1>1. FilesTypes'
  <2>1. [journal EXCEPT !.phase = "stopping"] \in Journals
    BY DEF FilesTypes, Journals, Open
  <2>. QED BY <2>1 DEF FilesTypes, files
<1>2. ProcTypes'
  BY ServiceAssumption DEF ProcTypes, Fault
<1>3. HolderTypes'
  BY Outside DEF HolderTypes, Goto
<1>. QED BY <1>1, <1>2, <1>3

(***************************************************************************)
(* The rest of the invariant.                                              *)
(***************************************************************************)

(* The claimed service is stopped, or has been.                            *)
LEMMA StopClaim ==
  ASSUME ServiceInv, NEW at \in {"stop", "svcStop", "fail", "recover"}, NEW then,
         <<at, then>> \in {<<"stop", "stopWait">>, <<"svcStop", "svcStopWait">>,
                          <<"fail", "failWait">>, <<"recover", "recWait">>},
         StopService(at, then)
  PROVE  ClaimOK'
<1>1. UNCHANGED journal /\ pc = at /\ pc' = then
  BY DEF StopService, files, At, Goto
<1>2. ASSUME NEW p \in Proc
      PROVE  /\ proc'[p].sup = proc[p].sup
             /\ proc'[p].st = IF p \in Victims(at) /\ Alive(p) THEN "stopping" ELSE proc[p].st
  BY DEF StopService, ServiceInv, ProcTypes, Procs
<1>3. journal.claim \in Proc \cup {None}
  BY DEF ServiceInv, FilesTypes, Journals
<1>4. CASE journal.claim = None
  BY <1>1, <1>4 DEF ServiceInv, ClaimOK, LaunchPcs
<1>5. CASE journal.claim # None
  <2>1. proc'[journal.claim].sup <=> proc[journal.claim].sup
    BY <1>2, <1>3, <1>5
  <2>2. proc[journal.claim].st = "dead" => proc'[journal.claim].st = "dead"
    BY <1>2, <1>3, <1>5 DEF Alive
  <2>3. proc[journal.claim].st = "stopping" => proc'[journal.claim].st = "stopping"
    BY <1>2, <1>3, <1>5 DEF Alive
  <2>4. journal.phase \in Early /\ pc \in {"stop", "recover"} =>
          journal.claim \in Victims(at) \/ ~Alive(journal.claim)
    BY <1>1, <1>3, <1>5 DEF Victims, Early, ServiceInv, UnitOK, ClaimOK, Alive
  <2>5. pc \in {"stop", "recover", "fail"} => proc'[journal.claim].st \in {"dead", "stopping"}
    <3>1. pc \in {"stop", "recover"} /\ journal.phase \in Early =>
            proc'[journal.claim].st \in {"dead", "stopping"}
      BY <1>2, <1>3, <1>5, <2>4 DEF Alive
    <3>2. pc \in {"stop", "recover", "fail"} =>
             journal.phase \in Early \cup {"copied", "activated", "rolling", "relaunch"}
      BY DEF ServiceInv, PhaseOK, Early, Open
    <3>3. pc = "stop" => journal.phase \in Early
      BY DEF ServiceInv, PhaseOK, Early
    <3>4. pc = "fail" => journal.phase = "rolling"
      BY DEF ServiceInv, PhaseOK
    <3>. QED BY <1>5, <3>1, <3>2, <3>3, <3>4, <2>2, <2>3 DEF ServiceInv, ClaimOK
  <2>. QED BY <1>1, <1>5, <2>1, <2>2, <2>3, <2>5 DEF ServiceInv, ClaimOK, WaitPcs, LaunchPcs
<1>. QED BY <1>4, <1>5

LEMMA StopRest ==
  ASSUME ServiceInv, NEW at \in {"stop", "svcStop", "fail", "recover"}, NEW then,
         <<at, then>> \in {<<"stop", "stopWait">>, <<"svcStop", "svcStopWait">>,
                          <<"fail", "failWait">>, <<"recover", "recWait">>},
         StopService(at, then)
  PROVE  PhaseOK' /\ ChildOK' /\ UnitOK' /\ ClaimOK' /\ ReceiptOK'
<1>1. UNCHANGED <<journal, latest, receipt, by, child, unit.main>> /\ pc = at /\ pc' = then
  BY DEF StopService, files, At, Goto, ServiceInv, ProcTypes
<1>2. ASSUME NEW p \in Proc
      PROVE  /\ proc'[p].sup = proc[p].sup /\ proc'[p].gen = proc[p].gen
             /\ proc'[p].st = IF p \in Victims(at) /\ Alive(p) THEN "stopping" ELSE proc[p].st
  BY DEF StopService, ServiceInv, ProcTypes, Procs
<1>3. child = None
  BY <1>1 DEF ServiceInv, ChildOK
<1>4. PhaseOK' /\ ChildOK' /\ ReceiptOK'
  BY <1>1, <1>3 DEF ServiceInv, PhaseOK, ChildOK, ReceiptOK
<1>5. UnitOK'
  BY <1>1, <1>2 DEF ServiceInv, UnitOK, Alive
<1>6. ClaimOK'
  BY StopClaim
<1>. QED BY <1>4, <1>5, <1>6

(* The other steps of the holder.                                          *)
LEMMA StepRest ==
  ASSUME ServiceInv,
         \/ ParticipantsStopped
         \/ Switch
         \/ NothingToLaunch
         \/ StartProcess
         \/ RecordService
         \/ WriteReceipt
         \/ AuthorizeUnit
         \/ RecordUnit
         \/ ServiceReady
         \/ ServiceExited
         \/ UnitFailed
         \/ Undo
         \/ CopyGeneration
         \/ StartUnit
         \/ Recovered
         \/ Close
         \/ ReturnError
  PROVE  PhaseOK' /\ ChildOK' /\ UnitOK' /\ ClaimOK' /\ ReceiptOK'
<1>. USE ServiceAssumption DEF ServiceInv, FilesTypes, ProcTypes,
       HolderTypes, PhaseOK, ChildOK, UnitOK, ClaimOK, ReceiptOK, Gen, Open,
       Early, LaunchPcs, WaitPcs, Journals, Receipts, Procs, States,
       NoReceipt, NoJournal, files, holder, At, Goto, Set, Alive, IsMain,
       NoFault, Fault
<1>1. CASE ParticipantsStopped
  BY <1>1 DEF ParticipantsStopped, Stopped
<1>2. CASE Switch
  BY <1>2 DEF Switch
<1>3. CASE NothingToLaunch
  BY <1>3 DEF NothingToLaunch
<1>4. CASE StartProcess
  BY <1>4 DEF Free, Fresh, StartProcess
<1>5. CASE RecordService
  BY <1>5 DEF RecordService
<1>6. CASE WriteReceipt
  BY <1>6 DEF WriteReceipt
<1>7. CASE AuthorizeUnit
  BY <1>7 DEF AuthorizeUnit
<1>8. CASE RecordUnit
  BY <1>8 DEF Awaited, RecordUnit
<1>9. CASE ServiceReady
  BY <1>9 DEF Awaited, ServiceReady
<1>10. CASE ServiceExited
  BY <1>10 DEF LaunchFailed, ServiceExited
<1>11. CASE UnitFailed
  BY <1>11 DEF LaunchFailed, Stopped, UnitFailed
<1>12. CASE Undo
  BY <1>12 DEF Stopped, Undo
<1>13. CASE CopyGeneration
  BY <1>13 DEF CopyGeneration
<1>14. CASE StartUnit
  BY <1>14 DEF Free, Fresh, MainStarts, StartUnit
<1>15. CASE Recovered
  BY <1>15 DEF Recovered, Stopped
<1>16. CASE Close
  BY <1>16 DEF Close, Return
<1>17. CASE ReturnError
  BY <1>17 DEF Return, ReturnError
<1>. QED BY <1>1, <1>2, <1>3, <1>4, <1>5, <1>6, <1>7, <1>8, <1>9, <1>10,
       <1>11, <1>12, <1>13, <1>14, <1>15, <1>16, <1>17

LEMMA WorkRest ==
  ASSUME ServiceInv, Work
  PROVE  PhaseOK' /\ ChildOK' /\ UnitOK' /\ ClaimOK' /\ ReceiptOK'
<1>1. CASE \/ StopService("stop", "stopWait") \/ StopService("svcStop", "svcStopWait")
            \/ StopService("fail", "failWait") \/ StopService("recover", "recWait")
  BY <1>1, StopRest
<1>. QED BY <1>1, StepRest DEF Work

(* A process neither is the child of the holder nor the claimed service    *)
(* unless it was that before.                                              *)
LEMMA RunRest ==
  ASSUME ServiceInv, NEW p \in Proc, Run(p) \/ Quits(p)
  PROVE  PhaseOK' /\ ChildOK' /\ UnitOK' /\ ClaimOK' /\ ReceiptOK'
<1>. USE ServiceAssumption DEF ServiceInv, FilesTypes, ProcTypes,
       HolderTypes, PhaseOK, ChildOK, UnitOK, ClaimOK, ReceiptOK, Gen, Open,
       Early, LaunchPcs, WaitPcs, Journals, Receipts, Procs, States,
       NoReceipt, NoJournal, files, holder, At, Goto, Set, Alive, IsMain,
       NoFault, Fault
<1>1. CASE LauncherStarts(p)
  BY <1>1 DEF Authorized, LauncherStarts
<1>2. CASE LauncherRecovers(p)
  BY <1>2 DEF LauncherRecovers, Recoverable
<1>3. CASE LockBusy(p)
  BY <1>3 DEF Ends, Fails, LockBusy, Registered, Unregister, Vacates
<1>4. CASE AcceptManagedServiceRestart(p)
  BY <1>4 DEF AcceptManagedServiceRestart
<1>5. CASE NotAuthorized(p)
  BY <1>5 DEF Ends, Fails, NotAuthorized, Registered, Unregister, Vacates
<1>6. CASE AcceptSupervised(p)
  BY <1>6 DEF AcceptSupervised, Ends, Fails, Registered, Unregister, Vacates
<1>7. CASE WriteAccepted(p)
  BY <1>7 DEF WriteAccepted
<1>8. CASE RegisterManagedService(p)
  BY <1>8 DEF Ends, Fails, RegisterManagedService, Registered, Unregister,
         Vacates
<1>9. CASE WriteRegistered(p)
  BY <1>9 DEF Ends, Fails, MayRegister, Registered, Unregister, Vacates,
         WriteRegistered
<1>10. CASE Bind(p)
  BY <1>10 DEF Bind, Ends, Fails, Listening, Registered, Unregister, Vacates
<1>11. CASE MarkManagedServiceReady(p)
  BY <1>11 DEF Ends, Fails, MarkManagedServiceReady, Registered, Unregister,
         Vacates
<1>12. CASE WriteReady(p)
  BY <1>12 DEF WriteReady
<1>13. CASE Terminate(p)
  BY <1>13 DEF Ends, Fails, Registered, Terminate, Unregister, Vacates
<1>14. CASE Quits(p)
  BY <1>14 DEF Quits, Registered, Unregister, Vacates
<1>. QED BY <1>1, <1>2, <1>3, <1>4, <1>5, <1>6, <1>7, <1>8, <1>9, <1>10,
       <1>11, <1>12, <1>13, <1>14 DEF Run

(* What comes from outside, and what else fails.                           *)
LEMMA OtherRest ==
  ASSUME ServiceInv,
         \/ UserServes
         \/ UnitStarts
         \/ PrepareApply
         \/ AcceptApply
         \/ RecoverInstall
         \/ ServiceFails
         \/ UnitFails
         \/ StepFails
         \/ Crash
  PROVE  PhaseOK' /\ ChildOK' /\ UnitOK' /\ ClaimOK' /\ ReceiptOK'
<1>. USE ServiceAssumption DEF ServiceInv, FilesTypes, ProcTypes,
       HolderTypes, PhaseOK, ChildOK, UnitOK, ClaimOK, ReceiptOK, Gen, Open,
       Early, LaunchPcs, WaitPcs, Journals, Receipts, Procs, States,
       NoReceipt, NoJournal, files, holder, At, Goto, Set, Alive, IsMain,
       NoFault, Fault
<1>1. CASE UserServes
  BY <1>1 DEF Free, Fresh, Spare, UserServes
<1>2. CASE UnitStarts
  BY <1>2 DEF Free, Fresh, MainStarts, Spare, UnitStarts
<1>3. CASE PrepareApply
  BY <1>3 DEF Acceptable, PrepareApply, Service
<1>4. CASE AcceptApply
  BY <1>4 DEF AcceptApply
<1>5. CASE RecoverInstall
  BY <1>5 DEF RecoverInstall, Recoverable
<1>6. CASE ServiceFails
  <2>1. PhaseOK'
    BY <1>6 DEF LaunchFailed, ServiceFails, TimedOut
  <2>2. ChildOK'
    BY <1>6 DEF LaunchFailed, ServiceFails, TimedOut
  <2>3. UnitOK'
    BY <1>6 DEF LaunchFailed, ServiceFails, TimedOut
  <2>4. ClaimOK'
    BY <1>6 DEF LaunchFailed, ServiceFails, TimedOut
  <2>5. ReceiptOK'
    BY <1>6 DEF LaunchFailed, ServiceFails, TimedOut
  <2>. QED BY <2>1, <2>2, <2>3, <2>4, <2>5
<1>7. CASE UnitFails
  BY <1>7 DEF TimedOut, UnitFails
<1>8. CASE StepFails
  BY <1>8 DEF StepFails
<1>9. CASE Crash
  BY <1>9 DEF Crash
<1>. QED BY <1>1, <1>2, <1>3, <1>4, <1>5, <1>6, <1>7, <1>8, <1>9

(***************************************************************************)
(* The invariant, and what follows from it.                                *)
(***************************************************************************)

LEMMA ServiceInductive ==
  ASSUME ServiceInv, [Next]_vars
  PROVE  ServiceInv'
<1>1. CASE UNCHANGED vars
  BY <1>1 DEF vars, files, holder, ServiceInv, FilesTypes, ProcTypes,
         HolderTypes, PhaseOK, ChildOK, UnitOK, ClaimOK, ReceiptOK,
         LaunchPcs, WaitPcs, Alive
<1>2. CASE Next
  <2>1. FilesTypes' /\ ProcTypes' /\ HolderTypes'
    BY <1>2, WorkTypes, RunTypes, QuitsTypes, LockTypes, OtherTypes DEF Next
  <2>2. PhaseOK' /\ ChildOK' /\ UnitOK' /\ ClaimOK' /\ ReceiptOK'
    BY <1>2, WorkRest, RunRest, OtherRest DEF Next
  <2>. QED BY <2>1, <2>2 DEF ServiceInv
<1>. QED BY <1>1, <1>2

LEMMA ServiceInitially ==
  ASSUME Init
  PROVE  ServiceInv
BY ServiceAssumption, Outside DEF Init, ServiceInv, FilesTypes, ProcTypes,
       HolderTypes, PhaseOK, ChildOK, UnitOK, ClaimOK, ReceiptOK, Gen,
       Journals, Receipts, Procs, States, NoJournal, NoReceipt, LaunchPcs,
       WaitPcs, Early, Alive

(* The types hold of every state, for any number of processes, updates and *)
(* failures; who holds the lock is alive.                                  *)
THEOREM ServiceTypeCorrect == Spec => []TypeOK
<1>1. ServiceInv => TypeOK
  BY DEF ServiceInv, FilesTypes, ProcTypes, HolderTypes, TypeOK
<1>. QED BY <1>1, ServiceInitially, ServiceInductive, PTL DEF Spec

(* An update goes on only with a service of the new generation that has    *)
(* reported its readiness, and closes its journal only when the service it *)
(* has replaced is gone.                                                   *)
THEOREM ServiceFollowed == Spec => ServiceFollows
<1>1. ASSUME ServiceInv, Next, At("await"), pc' = "close"
      PROVE  receipt.ready /\ receipt.proc # journal.claim /\ proc[receipt.proc].gen = active
  <2>1. Awaited /\ receipt.ready
    <3>. USE <1>1 DEF At, Goto
    <3>1. CASE Work
      BY <3>1 DEF Work, StopService, ParticipantsStopped, CopyGeneration, Switch, NothingToLaunch,
           StartProcess, RecordService, WriteReceipt, AuthorizeUnit, StartUnit, RecordUnit,
           ServiceReady, ServiceExited, LaunchFailed, UnitFailed, Undo, Recovered, Close,
           ReturnError, holder
    <3>2. ASSUME NEW p \in Proc, Run(p) \/ Quits(p) PROVE FALSE
      BY <3>2 DEF Run, Quits, LauncherStarts, LauncherRecovers, LockBusy,
           AcceptManagedServiceRestart, NotAuthorized, AcceptSupervised, WriteAccepted,
           RegisterManagedService, WriteRegistered, Bind, MarkManagedServiceReady, WriteReady,
           Terminate, Fails, Ends, Vacates, holder
    <3>3. CASE \/ UserServes \/ UnitStarts \/ PrepareApply \/ AcceptApply \/ RecoverInstall
               \/ ServiceFails \/ UnitFails \/ StepFails \/ Crash
      BY <3>3 DEF UserServes, UnitStarts, PrepareApply, AcceptApply, RecoverInstall,
           ServiceFails, LaunchFailed, UnitFails, StepFails, Crash, holder
    <3>. QED BY <3>1, <3>2, <3>3 DEF Next
  <2>2. CASE journal.sup
    BY <2>1, <2>2, <1>1 DEF ServiceInv, ReceiptOK, Awaited, At
  <2>3. CASE ~journal.sup
    BY <2>1, <2>3, <1>1 DEF ServiceInv, ChildOK, Awaited, At, Alive
  <2>. QED BY <2>1, <2>2, <2>3
<1>2. ASSUME ServiceInv, Close, journal.claim # None
      PROVE  ~Alive(journal.claim)
  BY <1>2 DEF ServiceInv, ClaimOK, LaunchPcs, Close, At, Alive
<1>3. ASSUME ServiceInv, [Next]_vars
      PROVE  [/\ At("await") /\ pc' = "close" =>
                   receipt.ready /\ receipt.proc # journal.claim /\ proc[receipt.proc].gen = active
              /\ Close /\ journal.claim # None => ~Alive(journal.claim)]_vars
  BY <1>1, <1>2, <1>3
<1>. QED BY <1>3, ServiceInitially, ServiceInductive, PTL DEF Spec, ServiceFollows

(***************************************************************************)
(* As long as nothing has failed.                                          *)
(***************************************************************************)

(* A failure is not forgotten.                                             *)
LEMMA FaultsRemain ==
  ASSUME ServiceInv, Next, faults' = 0
  PROVE  faults = 0
<1>. USE DEF ServiceInv, ProcTypes
<1>1. CASE Work
  BY <1>1 DEF Work, StopService, ParticipantsStopped, Switch,
         NothingToLaunch, StartProcess, RecordService, WriteReceipt,
         AuthorizeUnit, RecordUnit, ServiceReady, ServiceExited, UnitFailed,
         Undo, CopyGeneration, StartUnit, Recovered, Close, ReturnError
<1>2. CASE \E p \in Proc : Run(p) \/ Quits(p)
  BY <1>2, ServiceAssumption DEF Run, LauncherStarts, LauncherRecovers,
         LockBusy, AcceptManagedServiceRestart, NotAuthorized,
         AcceptSupervised, WriteAccepted, RegisterManagedService,
         WriteRegistered, Bind, MarkManagedServiceReady, WriteReady,
         Terminate, Quits, Fails, NoFault, Fault
<1>3. CASE UserServes \/ UnitStarts \/ PrepareApply \/ AcceptApply \/ RecoverInstall
  BY <1>3 DEF UserServes, UnitStarts, PrepareApply, AcceptApply, RecoverInstall
<1>4. CASE ServiceFails \/ UnitFails \/ StepFails \/ Crash
  BY <1>4, ServiceAssumption DEF ServiceFails, UnitFails, StepFails, Crash, TimedOut, Fault
<1>. QED BY <1>1, <1>2, <1>3, <1>4 DEF Next

(* Nothing that undoes an update is ever done.                             *)
LEMMA CalmHolder ==
  ASSUME ServiceInv, Calm, faults = 0, faults' = 0, Next
  PROVE  \/ StopService("stop", "stopWait")
         \/ ParticipantsStopped
         \/ CopyGeneration
         \/ Switch
         \/ NothingToLaunch
         \/ StartProcess
         \/ RecordService
         \/ WriteReceipt
         \/ AuthorizeUnit
         \/ StartUnit
         \/ RecordUnit
         \/ ServiceReady
         \/ Close
         \/ \E p \in Proc : Run(p)
         \/ UserServes \/ UnitStarts \/ PrepareApply \/ AcceptApply
<1>1. pc \notin {"svcStop", "svcStopWait", "fail", "failWait", "recover", "recWait", "return"}
  BY DEF Calm, StraightOn, LaunchPcs, ServiceInv, HolderTypes
<1>2. ~ServiceExited
  BY DEF ServiceExited, At, Alive, Owner, ServiceInv, ChildOK, Calm, ChildRegisters
<1>3. ~RecoverInstall
  BY Outside DEF RecoverInstall, Recoverable, Open, Calm, StraightOn
<1>4. ~(\E p \in Proc : Quits(p)) /\ ~StepFails /\ ~Crash
  BY DEF Quits, StepFails, Crash, Fault
<1>5. ~ServiceFails /\ ~UnitFails
  BY ServiceAssumption DEF ServiceFails, UnitFails, TimedOut
<1>. QED BY <1>1, <1>2, <1>3, <1>4, <1>5
         DEF Next, Work, StopService, UnitFailed, Undo, Recovered, ReturnError, At

LEMMA CalmWork ==
  ASSUME ServiceInv, Calm, faults = 0,
         \/ StopService("stop", "stopWait")
         \/ ParticipantsStopped
         \/ CopyGeneration
         \/ Switch
         \/ NothingToLaunch
         \/ StartProcess
         \/ RecordService
         \/ WriteReceipt
         \/ AuthorizeUnit
         \/ StartUnit
         \/ RecordUnit
         \/ ServiceReady
         \/ Close
  PROVE  Calm'
<1>. USE ServiceAssumption DEF ServiceInv, FilesTypes, ProcTypes,
       HolderTypes, PhaseOK, ChildOK, UnitOK, ClaimOK, ReceiptOK, Calm,
       StraightOn, ClaimRegistered, ChildRegisters, UnitRegisters, OwnersOK,
       Owner, Gen, Open, Early, LaunchPcs, Journals, Receipts, Procs,
       States, NoReceipt, NoJournal, files, holder, At, Goto, Set, Alive,
       IsMain, NoFault
<1>1. CASE StopService("stop", "stopWait")
  BY <1>1 DEF StopService, Victims
<1>2. CASE ParticipantsStopped
  BY <1>2 DEF ParticipantsStopped, Stopped
<1>3. CASE CopyGeneration
  BY <1>3 DEF CopyGeneration
<1>4. CASE Switch
  BY <1>4 DEF Switch
<1>5. CASE NothingToLaunch
  BY <1>5 DEF NothingToLaunch
<1>6. CASE StartProcess
  <2>1. PICK p \in Proc :
          /\ ~Alive(p) /\ p # receipt.proc /\ child' = p
          /\ proc' = [proc EXCEPT ![p] =
                      [st |-> "exec", gen |-> active, sup |-> FALSE, token |-> TRUE]]
    BY <1>6 DEF StartProcess, Fresh, Free
  <2>2. /\ proc'[p] = [st |-> "exec", gen |-> active, sup |-> FALSE, token |-> TRUE]
        /\ \A q \in Proc : q # p => proc'[q] = proc[q]
    BY <2>1
  <2>3. UNCHANGED <<files, unit, by, faults>> /\ pc = "launch" /\ pc' = "svcRecord" /\ ~journal.sup
    BY <1>6 DEF StartProcess
  <2>4. child = None
    BY <2>3
  <2>5. StraightOn'
    BY <2>1, <2>2, <2>3, <2>4, Outside
  <2>6. ClaimRegistered'
    BY <2>1, <2>2, <2>3, <2>4, Outside
  <2>7. ChildRegisters'
    BY <2>1, <2>2, <2>3, <2>4, Outside
  <2>8. UnitRegisters'
    BY <2>1, <2>2, <2>3, <2>4, Outside
  <2>9. OwnersOK'
    BY <2>1, <2>2, <2>3, <2>4, Outside
  <2>. QED BY <2>5, <2>6, <2>7, <2>8, <2>9
<1>7. CASE RecordService
  BY <1>7 DEF RecordService
<1>8. CASE WriteReceipt
  BY <1>8 DEF WriteReceipt
<1>9. CASE AuthorizeUnit
  BY <1>9 DEF AuthorizeUnit
<1>10. CASE StartUnit
  <2>1. /\ UNCHANGED <<files, by, child, faults>> /\ pc = "svcUnit" /\ pc' = "await"
        /\ IsMain(None) \/ UNCHANGED <<proc, unit.main>>
    BY <1>10 DEF StartUnit
  <2>2. ASSUME NEW q \in Proc
        PROVE  proc'[q] = proc[q] \/ (~Alive(q) /\ proc'[q].st = "launch" /\ ~proc'[q].token)
    BY <1>10 DEF StartUnit, Fresh, Free, MainStarts
  <2>3. StraightOn'
    BY <2>1, <2>2, Outside
  <2>4. ClaimRegistered'
    BY <2>1, <2>2, Outside
  <2>5. ChildRegisters'
    BY <2>1, <2>2, Outside
  <2>6. UnitRegisters'
    BY <2>1, <2>2, Outside
  <2>7. OwnersOK'
    BY <2>1, <2>2, Outside
  <2>. QED BY <2>3, <2>4, <2>5, <2>6, <2>7
<1>11. CASE RecordUnit
  BY <1>11 DEF Awaited, RecordUnit
<1>12. CASE ServiceReady
  BY <1>12 DEF Awaited, ServiceReady
<1>13. CASE Close
  BY <1>13 DEF Close, Return
<1>. QED BY <1>1, <1>2, <1>3, <1>4, <1>5, <1>6, <1>7, <1>8, <1>9, <1>10,
       <1>11, <1>12, <1>13

LEMMA CalmRun ==
  ASSUME ServiceInv, Calm, faults = 0, NEW p \in Proc, Run(p)
  PROVE  Calm'
<1>. USE ServiceAssumption DEF ServiceInv, FilesTypes, ProcTypes,
       HolderTypes, PhaseOK, ChildOK, UnitOK, ClaimOK, ReceiptOK, Calm,
       StraightOn, ClaimRegistered, ChildRegisters, UnitRegisters, OwnersOK,
       Owner, Gen, Open, Early, LaunchPcs, Journals, Receipts, Procs,
       States, NoReceipt, NoJournal, files, holder, At, Goto, Set, Alive,
       IsMain, NoFault
<1>1. CASE LauncherStarts(p)
  BY <1>1 DEF Authorized, LauncherStarts
<1>2. CASE LauncherRecovers(p)
  BY <1>2 DEF LauncherRecovers, Recoverable
<1>3. CASE LockBusy(p)
  BY <1>3 DEF Ends, Fails, LockBusy, Registered, Unregister, Vacates
<1>4. CASE AcceptManagedServiceRestart(p)
  BY <1>4 DEF AcceptManagedServiceRestart
<1>5. CASE NotAuthorized(p)
  BY <1>5 DEF Ends, Fails, NotAuthorized, Registered, Unregister, Vacates
<1>6. CASE AcceptSupervised(p)
  BY <1>6 DEF AcceptSupervised, Ends, Fails, Registered, Unregister, Vacates
<1>7. CASE WriteAccepted(p)
  <2>1. \A q \in Proc : ~Owner(q)
    BY <1>7, Outside DEF WriteAccepted
  <2>2. UNCHANGED <<active, latest, journal, intent, unit, holder, faults>>
    BY <1>7 DEF WriteAccepted
  <2>3. /\ receipt' = [proc |-> p, ready |-> FALSE, token |-> FALSE]
        /\ proc'[p] = [proc[p] EXCEPT !.st = "up"] /\ proc[p].st = "accepting"
        /\ \A q \in Proc : q # p => proc'[q] = proc[q]
    BY <1>7 DEF WriteAccepted
  <2>4. StraightOn'
    BY <2>1, <2>2, <2>3, Outside
  <2>5. ClaimRegistered'
    BY <2>1, <2>2, <2>3, Outside
  <2>6. ChildRegisters'
    BY <2>1, <2>2, <2>3, Outside
  <2>7. UnitRegisters'
    BY <2>1, <2>2, <2>3, Outside
  <2>8. OwnersOK'
    BY <2>1, <2>2, <2>3, Outside
  <2>. QED BY <2>4, <2>5, <2>6, <2>7, <2>8
<1>8. CASE RegisterManagedService(p)
  BY <1>8 DEF Ends, Fails, RegisterManagedService, Registered, Unregister,
         Vacates
<1>9. CASE WriteRegistered(p)
  BY <1>9 DEF Ends, Fails, MayRegister, Registered, Unregister, Vacates,
         WriteRegistered
<1>10. CASE Bind(p)
  BY <1>10 DEF Bind, Ends, Fails, Listening, Registered, Unregister, Vacates
<1>11. CASE MarkManagedServiceReady(p)
  BY <1>11 DEF Ends, Fails, MarkManagedServiceReady, Registered, Unregister,
         Vacates
<1>12. CASE WriteReady(p)
  <2>1. UNCHANGED <<active, latest, journal, intent, unit, holder, faults>>
    BY <1>12 DEF WriteReady
  <2>2. /\ receipt' = [proc |-> p, ready |-> TRUE, token |-> FALSE] /\ receipt.proc = p
        /\ proc'[p] = [proc[p] EXCEPT !.st = "ready"] /\ proc[p].st = "marking"
        /\ \A q \in Proc : q # p => proc'[q] = proc[q]
    BY <1>12 DEF WriteReady
  <2>3. StraightOn'
    BY <2>1, <2>2, Outside
  <2>4. ClaimRegistered'
    BY <2>1, <2>2, Outside
  <2>5. ChildRegisters'
    BY <2>1, <2>2, Outside
  <2>6. UnitRegisters'
    BY <2>1, <2>2, Outside
  <2>7. OwnersOK'
    BY <2>1, <2>2, Outside
  <2>. QED BY <2>3, <2>4, <2>5, <2>6, <2>7
<1>13. CASE Terminate(p)
  <2>1. pc = "stopWait" /\ by = Manager /\ proc[p].st = "stopping"
    BY <1>13 DEF Terminate
  <2>2. UNCHANGED <<files, holder, faults>>
    BY <1>13, <2>1, Outside DEF Terminate, Fails, Ends, Vacates, Unregister
  <2>3. /\ proc'[p] = [proc[p] EXCEPT !.st = "dead"]
        /\ \A q \in Proc : q # p => proc'[q] = proc[q]
    BY <1>13 DEF Terminate, Fails, Ends
  <2>4. StraightOn'
    BY <2>1, <2>2, <2>3, Outside
  <2>5. ClaimRegistered'
    BY <2>1, <2>2, <2>3, Outside
  <2>6. ChildRegisters'
    BY <2>1, <2>2, <2>3, Outside
  <2>7. UnitRegisters'
    BY <2>1, <2>2, <2>3, Outside
  <2>8. OwnersOK'
    BY <2>1, <2>2, <2>3, Outside
  <2>. QED BY <2>4, <2>5, <2>6, <2>7, <2>8
<1>. QED BY <1>1, <1>2, <1>3, <1>4, <1>5, <1>6, <1>7, <1>8, <1>9, <1>10,
       <1>11, <1>12, <1>13 DEF Run

LEMMA CalmOther ==
  ASSUME ServiceInv, Calm, faults = 0,
         \/ UserServes
         \/ UnitStarts
         \/ PrepareApply
         \/ AcceptApply
  PROVE  Calm'
<1>. USE ServiceAssumption DEF ServiceInv, FilesTypes, ProcTypes,
       HolderTypes, PhaseOK, ChildOK, UnitOK, ClaimOK, ReceiptOK, Calm,
       StraightOn, ClaimRegistered, ChildRegisters, UnitRegisters, OwnersOK,
       Owner, Gen, Open, Early, LaunchPcs, Journals, Receipts, Procs,
       States, NoReceipt, NoJournal, files, holder, At, Goto, Set, Alive,
       IsMain, NoFault
<1>1. CASE UserServes
  BY <1>1 DEF Free, Fresh, Spare, UserServes
<1>2. CASE UnitStarts
  <2>1. UNCHANGED <<files, holder, faults>> /\ IsMain(None)
    BY <1>2 DEF UnitStarts
  <2>2. ASSUME NEW q \in Proc
        PROVE  \/ proc'[q] = proc[q]
               \/ ~Alive(q) /\ q # receipt.proc /\ proc'[q].st = "launch" /\ ~proc'[q].token
    BY <1>2 DEF UnitStarts, Spare, Fresh, Free, MainStarts
  <2>3. StraightOn'
    BY <2>1, <2>2, Outside
  <2>4. ClaimRegistered'
    BY <2>1, <2>2, Outside
  <2>5. ChildRegisters'
    BY <2>1, <2>2, Outside
  <2>6. UnitRegisters'
    BY <2>1, <2>2, Outside
  <2>7. OwnersOK'
    BY <2>1, <2>2, Outside
  <2>. QED BY <2>3, <2>4, <2>5, <2>6, <2>7
<1>3. CASE PrepareApply
  BY <1>3 DEF Acceptable, PrepareApply, Service
<1>4. CASE AcceptApply
  BY <1>4 DEF AcceptApply
<1>. QED BY <1>1, <1>2, <1>3, <1>4

LEMMA CalmInductive ==
  ASSUME ServiceInv, CalmInv, [Next]_vars
  PROVE  CalmInv'
<1>1. CASE UNCHANGED vars
  BY <1>1 DEF CalmInv, Calm, StraightOn, ClaimRegistered, ChildRegisters,
         UnitRegisters, OwnersOK, Owner, IsMain, LaunchPcs, vars, files,
         holder
<1>2. CASE Next
  <2>1. SUFFICES ASSUME faults' = 0 PROVE Calm'
    BY DEF CalmInv
  <2>2. faults = 0
    BY <1>2, <2>1, FaultsRemain
  <2>3. Calm
    BY <2>2 DEF CalmInv
  <2>. QED BY <1>2, <2>1, <2>2, <2>3, CalmHolder, CalmWork, CalmRun, CalmOther
<1>. QED BY <1>1, <1>2

LEMMA CalmInitially ==
  ASSUME Init
  PROVE  CalmInv
BY ServiceAssumption, Outside DEF Init, CalmInv, Calm, StraightOn,
       ClaimRegistered, ChildRegisters, UnitRegisters, OwnersOK, Owner,
       NoJournal, NoReceipt, IsMain

(* As long as nothing has failed and no update is at work, a service that  *)
(* serves is the one the receipt names, which the next update will stop.   *)
THEOREM ServingRegistered == Spec => []ServingIsRegistered
<1>1. CalmInv => ServingIsRegistered
  BY DEF CalmInv, Calm, OwnersOK, Owner, ServingIsRegistered
<1>. QED BY <1>1, ServiceInitially, ServiceInductive, CalmInitially, CalmInductive, PTL DEF Spec
=============================================================================
