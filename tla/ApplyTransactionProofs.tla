----------------------- MODULE ApplyTransactionProofs -----------------------
(***************************************************************************)
(* Theorems about the update transaction, for any number of transactions,  *)
(* stable entries, versions and failures.                                  *)
(***************************************************************************)
EXTENDS ApplyTransaction, TLAPS

-----------------------------------------------------------------------------
(* The inductive invariant, by what it is about.                           *)

(* Where ApplyPrepared stands before install-state.json names the          *)
(* candidate, and where a generation is about to be removed.               *)
BeforeSwitchPcs ==
  {"commit", "exit", "child", "participants", "stopped", "stage", "copy",
   "generation", "backup", "intent", "entries", "replaced", "ready", "switch"}
RemovalPcs == {"discard", "fDrop", "dropGen", "rDrop"}

(* ... with the candidate copied, with the entries saved, and after the    *)
(* switch.                                                                 *)
AfterSwitchPcs ==
  {"switched", "launch", "record", "await", "kill",
   "svcLaunch", "svcRecord", "svcReceipt", "svcAwait", "svcKill", "complete"}
SavedPcs  == {"intent", "entries", "replaced", "ready", "switch"} \cup AfterSwitchPcs
CopiedPcs == {"generation", "backup"} \cup SavedPcs

(* The journals on disk.  Only an installer makes one "obsolete".          *)
JournalsOK ==
  \A t \in Txn :
    /\ journal[t].prev # t
    /\ journal[t].phase # "obsolete"
    /\ journal[t].phase = "none" => t \notin gens
    /\ journal[t].phase \in RestorePhases => backup[t] # NoBackup
    /\ state = t /\ Incomplete(t) => backup[t] # NoBackup

(* The phases of the transactions ApplyPrepared and RecoverInstall handle. *)
LivePhases == Phases \ (Absent \cup {"obsolete"})

(* The transaction the holder of the lock works on: no other one is open.  *)
HolderOK ==
  /\ pc \in {"idle", "next"} <=> cur = NoTxn
  /\ cur = NoTxn => SingleOpenTransaction
  /\ \A t \in todo : journal[t].phase \notin Absent
  /\ pc = "idle" => todo = {}
  /\ cur # NoTxn =>
       /\ \A t \in Txn \ {cur} : ~Incomplete(t)
       /\ cur \notin todo
       /\ journal[cur].phase \notin Absent
       /\ mem.phase \in LivePhases
       /\ mem.prev \in gens /\ mem.prev # cur
       /\ mem.phase \in RestorePhases => backup[cur] # NoBackup
       /\ state = cur => backup[cur] # NoBackup

(* Its steps: while the prior generation is active, while its entries are  *)
(* saved, and what an error will make recoverFailure do.                   *)
StepsOK ==
  /\ pc \in BeforeSwitchPcs \cup RemovalPcs => state = mem.prev
  /\ pc \in CopiedPcs => mem.cand /\ cur \in gens
  /\ pc \in SavedPcs \cup {"undo", "restore"} => backup[cur] # NoBackup
  /\ pc = "switch" => mem.phase = "state-intent"
  /\ pc = "undo" /\ mem.phase = "bootstrap-intent" => state = mem.prev
  /\ pc \in AfterSwitchPcs \cup {"undo", "fail"} /\ state # mem.prev
       => mem.phase \in RestorePhases /\ mem.cand
  /\ pc \in {"fStop", "fRoll"} =>
       /\ state # mem.prev => origin \in RestorePhases /\ mem.cand
       /\ origin \in RestorePhases => backup[cur] # NoBackup

IInv == TypeOK /\ ActiveGenerationPresent /\ JournalsOK /\ HolderOK /\ StepsOK

-----------------------------------------------------------------------------
(* What every step has in common.                                          *)

(* A journal keeps its type when a member of it is changed.                *)
LEMMA JournalTyped ==
  ASSUME TypeOK
  PROVE  /\ NoJournal \in Journals
         /\ \A p \in Phases :
              /\ Enter(p) \in Journals
              /\ Enter(p).phase = p
              /\ Enter(p).prev = mem.prev /\ Enter(p).cand = mem.cand
BY DEF TypeOK, Journals, Enter, NoJournal, Phases, LivePhases, EarlyPhases, Absent

(* The named sets of phases are phases of a journal.                       *)
LEMMA PhasesTyped ==
  /\ {"waiting-for-exit", "current-exited", "stopping-participants",
      "participants-stopped", "copying", "generation-ready", "bootstrap-intent",
      "bootstrap-ready", "state-intent", "activated", "candidate-launched",
      "complete", "rolling-back", "rollback-relaunch", "rolled-back"} \subseteq LivePhases
  /\ LivePhases \subseteq Phases /\ "removed" \in Phases
BY DEF Phases, LivePhases, EarlyPhases, IntentPhases, LaunchPhases, RollPhases,
       Terminal, Absent

(* What a removed directory leaves is typed as a journal.                  *)
LEMMA RemovedTyped == [NoJournal EXCEPT !.phase = "removed"] \in Journals
BY DEF NoJournal, Journals, Phases, LivePhases, Absent

(* A step that leaves the installation, the backups and the journals alone *)
(* and keeps the lock.                                                     *)
LEMMA FrameOK ==
  ASSUME IInv, cur # NoTxn, pc' \notin {"idle", "next"},
         UNCHANGED <<state, gens, journal, backup, cur, mem, todo>>
  PROVE  ActiveGenerationPresent' /\ JournalsOK' /\ HolderOK'
BY DEF IInv, ActiveGenerationPresent, JournalsOK, HolderOK, Incomplete

(* A step that records journal m of the transaction under work, with or    *)
(* without an error.                                                       *)
LEMMA RecordOK ==
  ASSUME IInv, cur # NoTxn, pc' \notin {"idle", "next"},
         NEW m \in Journals, m.prev = mem.prev, m.phase \in LivePhases,
         m.phase \in RestorePhases => backup[cur] # NoBackup,
         \E d \in {m, journal[cur]} : journal' = [journal EXCEPT ![cur] = d],
         mem' \in {m, mem}, UNCHANGED <<state, gens, backup, cur, todo>>
  PROVE  /\ journal' \in [Txn -> Journals]
         /\ ActiveGenerationPresent' /\ JournalsOK' /\ HolderOK'
<1>1. cur \in Txn
  BY DEF IInv, TypeOK
<1>2. journal' \in [Txn -> Journals]
  BY <1>1 DEF IInv, TypeOK
<1>3. ActiveGenerationPresent'
  BY DEF IInv, ActiveGenerationPresent
<1>4. JournalsOK'
  BY <1>1, <1>2 DEF IInv, TypeOK, JournalsOK, HolderOK, Absent, LivePhases, Incomplete
<1>5. HolderOK'
  BY <1>1, <1>2 DEF IInv, TypeOK, HolderOK, Absent, LivePhases, Incomplete
<1> QED BY <1>2, <1>3, <1>4, <1>5

(* A step that creates or removes the generation of the transaction, or    *)
(* switches between its generation and the prior one.                      *)
LEMMA GenerationOK ==
  ASSUME IInv, cur # NoTxn, pc' \notin {"idle", "next"},
         gens' \in {gens, gens \cup {cur}, gens \ {cur}},
         state' \in {state, cur, mem.prev}, state' \in gens',
         state' = cur => backup[cur] # NoBackup,
         mem'.prev = mem.prev, mem'.phase = mem.phase,
         UNCHANGED <<journal, backup, cur, todo>>
  PROVE  ActiveGenerationPresent' /\ JournalsOK' /\ HolderOK'
<1>1. \A t \in Txn : Incomplete(t)' <=> Incomplete(t)
  BY DEF Incomplete
<1>2. \A t \in Txn : state' = t /\ Incomplete(t) => backup[t] # NoBackup
  BY DEF IInv, HolderOK, JournalsOK
<1>3. JournalsOK'
  BY <1>1, <1>2 DEF IInv, JournalsOK, HolderOK, TypeOK, Absent, LivePhases
<1>4. HolderOK'
  BY <1>1 DEF IInv, HolderOK, TypeOK
<1> QED BY <1>3, <1>4 DEF ActiveGenerationPresent

(* A step that only records the next phase of the transaction.             *)
LEMMA AdvanceOK ==
  ASSUME IInv, cur # NoTxn, NEW from, NEW p \in LivePhases, NEW ok, NEW failed,
         Advance(from, p, ok, failed),
         p \in RestorePhases => backup[cur] # NoBackup,
         ok \notin {"idle", "next"}, failed \notin {"idle", "next"}
  PROVE  /\ TypeOK' /\ ActiveGenerationPresent' /\ JournalsOK' /\ HolderOK'
         /\ mem'.prev = mem.prev /\ mem'.cand = mem.cand /\ mem'.phase = p
         /\ pc = from /\ pc' \in {ok, failed}
         /\ UNCHANGED <<state, gens, backup, cur, origin, todo>>
<1>1. mem' = Enter(p) /\ mem' \in Journals /\ mem'.phase = p
        /\ mem'.prev = mem.prev /\ mem'.cand = mem.cand
  BY JournalTyped, PhasesTyped DEF IInv, Advance, WriteJournal
<1>2. /\ \E d \in {mem', journal[cur]} : journal' = [journal EXCEPT ![cur] = d]
      /\ pc = from /\ pc' \in {ok, failed}
      /\ UNCHANGED <<state, gens, backup, cur, origin, todo>>
  BY <1>1 DEF Advance, WriteJournal, Goto, At
<1>3. /\ journal' \in [Txn -> Journals]
      /\ ActiveGenerationPresent' /\ JournalsOK' /\ HolderOK'
  BY <1>1, <1>2, RecordOK
<1>4. TypeOK'
  BY <1>1, <1>2, <1>3, ApplyAssumption
     DEF IInv, TypeOK, Advance, WriteJournal, procs, servers, Fault, NoFault
<1> QED BY <1>1, <1>2, <1>3, <1>4

(* The steps along the stable entries.                                     *)
LEMMA FirstEntry == 1 \in Targets
BY ApplyAssumption DEF Targets

(* Replacing an entry keeps the type of the entries.                       *)
LEMMA SetEntryTyped ==
  ASSUME TypeOK, NEW g \in Gen, SetEntry(g)
  PROVE  boot' \in [Targets -> Gen]
BY DEF TypeOK, SetEntry

(* The index stays within the entries.                                     *)
LEMMA NextEntryTyped ==
  ASSUME TypeOK, NEW again, NEW done, NextEntry(again, done)
  PROVE  idx' \in Targets /\ pc' \in {again, done}
BY ApplyAssumption DEF TypeOK, NextEntry, Targets, Goto

(* ApplyPrepared before it switches install-state.json.                    *)
LEMMA BeforeSwitchOK ==
  ASSUME IInv, cur # NoTxn, BeforeSwitch
  PROVE  IInv'
<1> USE ApplyAssumption
        DEF BeforeSwitchPcs, RemovalPcs, AfterSwitchPcs, SavedPcs, CopiedPcs,
            At, Goto, Fault, NoFault
<1>1. CASE AwaitCommit
  <2>1. TypeOK'
    BY <1>1 DEF AwaitCommit, IInv, TypeOK, durable, procs, servers, local
  <2>2. ActiveGenerationPresent' /\ JournalsOK' /\ HolderOK'
    BY <1>1, FrameOK DEF AwaitCommit, durable, local
  <2>3. StepsOK'
    BY <1>1 DEF AwaitCommit, IInv, StepsOK, durable, local
  <2> QED BY <2>1, <2>2, <2>3 DEF IInv
<1>2. CASE ExitTimeout
  <2>1. TypeOK'
    BY <1>2 DEF ExitTimeout, IInv, TypeOK, durable, procs, servers, local
  <2>2. ActiveGenerationPresent' /\ JournalsOK' /\ HolderOK'
    BY <1>2, FrameOK DEF ExitTimeout, durable, local
  <2>3. StepsOK'
    BY <1>2 DEF ExitTimeout, IInv, StepsOK
  <2> QED BY <2>1, <2>2, <2>3 DEF IInv
<1>3. CASE AwaitExit
  <2>1. /\ TypeOK' /\ ActiveGenerationPresent' /\ JournalsOK' /\ HolderOK'
        /\ mem'.prev = mem.prev /\ mem'.cand = mem.cand /\ mem'.phase = "current-exited"
        /\ UNCHANGED <<state, gens, backup, cur, origin, todo>>
    BY <1>3, PhasesTyped, AdvanceOK
       DEF AwaitExit, RestorePhases, IntentPhases, LaunchPhases
  <2>2. StepsOK'
    BY <1>3, <2>1 DEF AwaitExit, Advance, WriteJournal, IInv, StepsOK
  <2> QED BY <2>1, <2>2 DEF IInv
<1>4. CASE StepError
  <2>1. TypeOK'
    BY <1>4 DEF StepError, IInv, TypeOK, durable, procs, servers, local
  <2>2. ActiveGenerationPresent' /\ JournalsOK' /\ HolderOK'
    BY <1>4, FrameOK DEF StepError, durable, local
  <2>3. StepsOK'
    BY <1>4 DEF StepError, IInv, StepsOK, durable, local
  <2> QED BY <2>1, <2>2, <2>3 DEF IInv
<1>5. CASE StopIntent
  <2>1. /\ TypeOK' /\ ActiveGenerationPresent' /\ JournalsOK' /\ HolderOK'
        /\ mem'.prev = mem.prev /\ mem'.cand = mem.cand /\ mem'.phase = "stopping-participants"
        /\ UNCHANGED <<state, gens, backup, cur, origin, todo>>
    BY <1>5, PhasesTyped, AdvanceOK
       DEF StopIntent, RestorePhases, IntentPhases, LaunchPhases
  <2>2. StepsOK'
    BY <1>5, <2>1 DEF StopIntent, Advance, WriteJournal, IInv, StepsOK
  <2> QED BY <2>1, <2>2 DEF IInv
<1>6. CASE StopParticipants
  <2>1. TypeOK'
    BY <1>6 DEF StopParticipants, IInv, TypeOK, durable, procs, servers, local
  <2>2. ActiveGenerationPresent' /\ JournalsOK' /\ HolderOK'
    BY <1>6, FrameOK DEF StopParticipants, durable, local
  <2>3. StepsOK'
    BY <1>6 DEF StopParticipants, IInv, StepsOK, durable, local
  <2> QED BY <2>1, <2>2, <2>3 DEF IInv
<1>7. CASE ParticipantsStopped
  <2>1. /\ TypeOK' /\ ActiveGenerationPresent' /\ JournalsOK' /\ HolderOK'
        /\ mem'.prev = mem.prev /\ mem'.cand = mem.cand /\ mem'.phase = "participants-stopped"
        /\ UNCHANGED <<state, gens, backup, cur, origin, todo>>
    BY <1>7, PhasesTyped, AdvanceOK
       DEF ParticipantsStopped, RestorePhases, IntentPhases, LaunchPhases
  <2>2. StepsOK'
    BY <1>7, <2>1 DEF ParticipantsStopped, Advance, WriteJournal, IInv, StepsOK
  <2> QED BY <2>1, <2>2 DEF IInv
<1>8. CASE CopyIntent
  <2>1. /\ TypeOK' /\ ActiveGenerationPresent' /\ JournalsOK' /\ HolderOK'
        /\ mem'.prev = mem.prev /\ mem'.cand = mem.cand /\ mem'.phase = "copying"
        /\ UNCHANGED <<state, gens, backup, cur, origin, todo>>
    BY <1>8, PhasesTyped, AdvanceOK
       DEF CopyIntent, RestorePhases, IntentPhases, LaunchPhases
  <2>2. StepsOK'
    BY <1>8, <2>1 DEF CopyIntent, Advance, WriteJournal, IInv, StepsOK
  <2> QED BY <2>1, <2>2 DEF IInv
<1>9. CASE CreateGeneration
  <2>1. TypeOK'
    BY <1>9
       DEF CreateGeneration, IInv, TypeOK, durable, procs, servers, local, Gen,
           Journals
  <2>2. /\ gens' \in {gens, gens \cup {cur}, gens \ {cur}}
        /\ state' \in {state, cur, mem.prev} /\ state' \in gens'
        /\ state' = cur => backup[cur] # NoBackup
    BY <1>9 DEF CreateGeneration, IInv, HolderOK, StepsOK, ActiveGenerationPresent
  <2>3. ActiveGenerationPresent' /\ JournalsOK' /\ HolderOK'
    BY <1>9, <2>2, GenerationOK
       DEF CreateGeneration, procs, IInv, TypeOK, Journals, Gen, Journals
  <2>4. StepsOK'
    BY <1>9 DEF CreateGeneration, IInv, StepsOK, Gen, Journals
  <2> QED BY <2>1, <2>3, <2>4 DEF IInv
<1>10. CASE GenerationReady
  <2>1. /\ TypeOK' /\ ActiveGenerationPresent' /\ JournalsOK' /\ HolderOK'
        /\ mem'.prev = mem.prev /\ mem'.cand = mem.cand /\ mem'.phase = "generation-ready"
        /\ UNCHANGED <<state, gens, backup, cur, origin, todo>>
    BY <1>10, PhasesTyped, AdvanceOK
       DEF GenerationReady, RestorePhases, IntentPhases, LaunchPhases
  <2>2. StepsOK'
    BY <1>10, <2>1 DEF GenerationReady, Advance, WriteJournal, IInv, StepsOK
  <2> QED BY <2>1, <2>2 DEF IInv
<1>11. CASE BackupEntries
  <2>1. TypeOK'
    BY <1>11 DEF BackupEntries, IInv, TypeOK, durable, procs, servers, local
  <2>2. ActiveGenerationPresent' /\ JournalsOK' /\ HolderOK'
    BY <1>11
       DEF BackupEntries, IInv, TypeOK, HolderOK, JournalsOK,
           ActiveGenerationPresent, StepsOK, durable, procs, servers, local,
           RestorePhases, Absent, LivePhases, Incomplete
  <2>3. StepsOK'
    BY <1>11
       DEF BackupEntries, IInv, TypeOK, HolderOK, StepsOK, durable, procs, servers,
           local, RestorePhases, IntentPhases
  <2> QED BY <2>1, <2>2, <2>3 DEF IInv
<1>12. CASE BootstrapIntent
  <2>0. backup[cur] # NoBackup
    BY <1>12 DEF BootstrapIntent, Advance, IInv, StepsOK
  <2>1. /\ TypeOK' /\ ActiveGenerationPresent' /\ JournalsOK' /\ HolderOK'
        /\ mem'.prev = mem.prev /\ mem'.cand = mem.cand /\ mem'.phase = "bootstrap-intent"
        /\ UNCHANGED <<state, gens, backup, cur, origin, todo>>
    BY <1>12, <2>0, PhasesTyped, AdvanceOK DEF BootstrapIntent
  <2>2. StepsOK'
    BY <1>12, <2>1 DEF BootstrapIntent, Advance, WriteJournal, IInv, StepsOK
  <2> QED BY <2>1, <2>2 DEF IInv
<1>13. CASE ReplaceEntry
  <2>1. TypeOK'
    <3>1. cur \in Gen
      BY <1>13 DEF ReplaceEntry, IInv, TypeOK, HolderOK, StepsOK, Gen
    <3>2. boot' \in [Targets -> Gen]
      <4>1. SetEntry(cur) \/ boot' = boot
        BY <1>13 DEF ReplaceEntry
      <4> QED BY <3>1, <4>1, SetEntryTyped DEF IInv, TypeOK
    <3>4. idx' \in Targets
      <4>1. idx' = 1 \/ \E again, done : NextEntry(again, done)
        BY <1>13 DEF ReplaceEntry
      <4> QED BY <4>1, FirstEntry, NextEntryTyped DEF IInv
    <3> QED
      BY <1>13, <3>2, <3>4
         DEF ReplaceEntry, IInv, TypeOK, durable, procs, servers, local, NextEntry
  <2>2. ActiveGenerationPresent' /\ JournalsOK' /\ HolderOK'
    BY <1>13, FrameOK
       DEF ReplaceEntry, durable, local, NextEntry, SetEntry, Gen, Targets
  <2>3. StepsOK'
    BY <1>13 DEF ReplaceEntry, IInv, StepsOK, NextEntry, SetEntry, Gen, Targets
  <2> QED BY <2>1, <2>2, <2>3 DEF IInv
<1>14. CASE BootstrapReady
  <2>0. backup[cur] # NoBackup
    BY <1>14 DEF BootstrapReady, Advance, IInv, StepsOK
  <2>1. /\ TypeOK' /\ ActiveGenerationPresent' /\ JournalsOK' /\ HolderOK'
        /\ mem'.prev = mem.prev /\ mem'.cand = mem.cand /\ mem'.phase = "bootstrap-ready"
        /\ UNCHANGED <<state, gens, backup, cur, origin, todo>>
    BY <1>14, <2>0, PhasesTyped, AdvanceOK DEF BootstrapReady
  <2>2. StepsOK'
    BY <1>14, <2>1 DEF BootstrapReady, Advance, WriteJournal, IInv, StepsOK
  <2> QED BY <2>1, <2>2 DEF IInv
<1>15. CASE StateIntent
  <2>0. backup[cur] # NoBackup
    BY <1>15 DEF StateIntent, Advance, IInv, StepsOK
  <2>1. /\ TypeOK' /\ ActiveGenerationPresent' /\ JournalsOK' /\ HolderOK'
        /\ mem'.prev = mem.prev /\ mem'.cand = mem.cand /\ mem'.phase = "state-intent"
        /\ UNCHANGED <<state, gens, backup, cur, origin, todo>>
    BY <1>15, <2>0, PhasesTyped, AdvanceOK DEF StateIntent
  <2>2. StepsOK'
    BY <1>15, <2>1 DEF StateIntent, Advance, WriteJournal, IInv, StepsOK
  <2> QED BY <2>1, <2>2 DEF IInv
<1>16. CASE UndoEntry
  <2>1. TypeOK'
    <3>1. backup[cur][idx] \in Gen
      BY <1>16 DEF UndoEntry, IInv, TypeOK, HolderOK, StepsOK, Gen
    <3>2. boot' \in [Targets -> Gen]
      <4>1. SetEntry(backup[cur][idx]) \/ boot' = boot
        BY <1>16 DEF UndoEntry
      <4> QED BY <3>1, <4>1, SetEntryTyped DEF IInv, TypeOK
    <3>4. idx' \in Targets
      <4>1. idx' = 1 \/ \E again, done : NextEntry(again, done)
        BY <1>16 DEF UndoEntry
      <4> QED BY <4>1, FirstEntry, NextEntryTyped DEF IInv
    <3> QED
      BY <1>16, <3>2, <3>4
         DEF UndoEntry, IInv, TypeOK, durable, procs, servers, local, NextEntry
  <2>2. ActiveGenerationPresent' /\ JournalsOK' /\ HolderOK'
    BY <1>16, FrameOK DEF UndoEntry, durable, local, NextEntry, SetEntry, Targets
  <2>3. StepsOK'
    BY <1>16 DEF UndoEntry, IInv, StepsOK, NextEntry, SetEntry, Targets
  <2> QED BY <2>1, <2>2, <2>3 DEF IInv
<1>17. CASE DiscardGeneration
  <2>1. TypeOK'
    BY <1>17 DEF DiscardGeneration, IInv, TypeOK, durable, procs, servers, local
  <2>2. /\ gens' \in {gens, gens \cup {cur}, gens \ {cur}}
        /\ state' \in {state, cur, mem.prev} /\ state' \in gens'
        /\ state' = cur => backup[cur] # NoBackup
    BY <1>17 DEF DiscardGeneration, IInv, HolderOK, StepsOK, ActiveGenerationPresent
  <2>3. ActiveGenerationPresent' /\ JournalsOK' /\ HolderOK'
    BY <1>17, <2>2, GenerationOK DEF DiscardGeneration, procs, local
  <2>4. StepsOK'
    BY <1>17 DEF DiscardGeneration, IInv, StepsOK, durable, procs, servers, local
  <2> QED BY <2>1, <2>3, <2>4 DEF IInv
<1> QED BY <1>1, <1>2, <1>3, <1>4, <1>5, <1>6, <1>7, <1>8, <1>9, <1>10, <1>11,
           <1>12, <1>13, <1>14, <1>15, <1>16, <1>17 DEF BeforeSwitch

(* ApplyPrepared from the switch to its result.                            *)
LEMMA FromSwitchOK ==
  ASSUME IInv, cur # NoTxn, FromSwitch
  PROVE  IInv'
<1> USE ApplyAssumption
        DEF BeforeSwitchPcs, RemovalPcs, AfterSwitchPcs, SavedPcs, CopiedPcs,
            At, Goto, Fault, NoFault
<1>1. CASE SwitchState
  <2>1. TypeOK'
    BY <1>1
       DEF SwitchState, IInv, TypeOK, HolderOK, StepsOK, durable, procs, servers,
           local, ActiveGenerationPresent, LaunchPhases
  <2>2. /\ gens' \in {gens, gens \cup {cur}, gens \ {cur}}
        /\ state' \in {state, cur, mem.prev} /\ state' \in gens'
        /\ state' = cur => backup[cur] # NoBackup
    BY <1>1 DEF SwitchState, IInv, HolderOK, StepsOK, ActiveGenerationPresent
  <2>3. ActiveGenerationPresent' /\ JournalsOK' /\ HolderOK'
    BY <1>1, <2>2, GenerationOK DEF SwitchState, procs, local
  <2>4. StepsOK'
    BY <1>1
       DEF SwitchState, IInv, TypeOK, HolderOK, StepsOK, durable, procs, servers,
           local, RestorePhases, IntentPhases, LaunchPhases
  <2> QED BY <2>1, <2>3, <2>4 DEF IInv
<1>2. CASE Activated
  <2>0. backup[cur] # NoBackup
    BY <1>2 DEF Activated, Advance, IInv, StepsOK
  <2>1. /\ TypeOK' /\ ActiveGenerationPresent' /\ JournalsOK' /\ HolderOK'
        /\ mem'.prev = mem.prev /\ mem'.cand = mem.cand /\ mem'.phase = "activated"
        /\ UNCHANGED <<state, gens, backup, cur, origin, todo>>
    BY <1>2, <2>0, PhasesTyped, AdvanceOK DEF Activated
  <2>2. StepsOK'
    BY <1>2, <2>1
       DEF Activated, Advance, WriteJournal, IInv, StepsOK, RestorePhases,
           IntentPhases, LaunchPhases
  <2> QED BY <2>1, <2>2 DEF IInv
<1>3. CASE LaunchCandidate
  <2>1. TypeOK'
    BY <1>3 DEF LaunchCandidate, IInv, TypeOK, durable, procs, servers, local, Gen
  <2>2. ActiveGenerationPresent' /\ JournalsOK' /\ HolderOK'
    BY <1>3, FrameOK DEF LaunchCandidate, durable, local, Gen
  <2>3. StepsOK'
    BY <1>3 DEF LaunchCandidate, IInv, StepsOK, durable, local, Gen
  <2> QED BY <2>1, <2>2, <2>3 DEF IInv
<1>4. CASE RecordCandidate
  <2> DEFINE m == [mem EXCEPT !.phase = "candidate-launched", !.pid = TRUE]
  <2>1. m \in Journals /\ m.prev = mem.prev /\ m.cand = mem.cand /\ m.phase \in LivePhases
          /\ (m.phase \in RestorePhases => backup[cur] # NoBackup)
    BY <1>4
       DEF RecordCandidate, IInv, TypeOK, StepsOK, Journals, Phases, LivePhases,
           LaunchPhases, Absent
  <2>2. /\ \E d \in {m, journal[cur]} : journal' = [journal EXCEPT ![cur] = d]
        /\ mem' \in {m, mem} /\ pc' \notin {"idle", "next"}
        /\ UNCHANGED <<state, gens, backup, cur, todo>>
    BY <1>4 DEF RecordCandidate, WriteJournal, RollbackError
  <2> HIDE DEF m
  <2>3. /\ journal' \in [Txn -> Journals]
        /\ ActiveGenerationPresent' /\ JournalsOK' /\ HolderOK'
    BY <2>1, <2>2, RecordOK
  <2>4. cleanupErr' \in BOOLEAN
    BY <1>4, Zenon DEF RecordCandidate, RollbackError, IInv, TypeOK
  <2>5. TypeOK'
    BY <1>4, <2>1, <2>2, <2>3, <2>4
       DEF RecordCandidate, WriteJournal, RollbackError, IInv, TypeOK, procs,
           servers
  <2>6. StepsOK'
    BY <1>4, <2>1, <2>2
       DEF RecordCandidate, WriteJournal, RollbackError, IInv, StepsOK, m,
           RestorePhases, LaunchPhases
  <2> QED BY <2>3, <2>5, <2>6 DEF IInv
<1>5. CASE CandidateReady
  <2>1. TypeOK'
    BY <1>5 DEF CandidateReady, IInv, TypeOK, durable, procs, servers, local
  <2>2. ActiveGenerationPresent' /\ JournalsOK' /\ HolderOK'
    BY <1>5, FrameOK DEF CandidateReady, durable, local
  <2>3. StepsOK'
    BY <1>5 DEF CandidateReady, IInv, StepsOK, durable, local
  <2> QED BY <2>1, <2>2, <2>3 DEF IInv
<1>6. CASE CandidateFails
  <2>1. TypeOK'
    BY <1>6 DEF CandidateFails, IInv, TypeOK, durable, procs, servers, local
  <2>2. ActiveGenerationPresent' /\ JournalsOK' /\ HolderOK'
    BY <1>6, FrameOK DEF CandidateFails, durable, local
  <2>3. StepsOK'
    BY <1>6 DEF CandidateFails, IInv, StepsOK, durable, local
  <2> QED BY <2>1, <2>2, <2>3 DEF IInv
<1>7. CASE LaunchService
  <2>1. TypeOK'
    BY <1>7 DEF LaunchService, IInv, TypeOK, durable, procs, servers, local, Gen
  <2>2. ActiveGenerationPresent' /\ JournalsOK' /\ HolderOK'
    BY <1>7, FrameOK DEF LaunchService, durable, local, Gen
  <2>3. StepsOK'
    BY <1>7 DEF LaunchService, IInv, StepsOK, durable, local, Gen
  <2> QED BY <2>1, <2>2, <2>3 DEF IInv
<1>8. CASE RecordService
  <2> DEFINE m == [mem EXCEPT !.svc = TRUE]
  <2>1. m \in Journals /\ m.prev = mem.prev /\ m.cand = mem.cand /\ m.phase \in LivePhases
          /\ (m.phase \in RestorePhases => backup[cur] # NoBackup)
    BY <1>8
       DEF RecordService, IInv, TypeOK, StepsOK, Journals, HolderOK, RestorePhases,
           IntentPhases, LaunchPhases, Absent, LivePhases
  <2>2. /\ \E d \in {m, journal[cur]} : journal' = [journal EXCEPT ![cur] = d]
        /\ mem' \in {m, mem} /\ pc' \notin {"idle", "next"}
        /\ UNCHANGED <<state, gens, backup, cur, todo>>
    BY <1>8 DEF RecordService, WriteJournal
  <2> HIDE DEF m
  <2>3. /\ journal' \in [Txn -> Journals]
        /\ ActiveGenerationPresent' /\ JournalsOK' /\ HolderOK'
    BY <2>1, <2>2, RecordOK
  <2>4. TypeOK'
    <3>1. faults' \in 0 .. MaxFaults
      BY <1>8 DEF RecordService, WriteJournal, IInv, TypeOK
    <3> QED BY <1>8, <2>1, <2>2, <2>3, <3>1
               DEF RecordService, IInv, TypeOK, procs, servers
  <2>5. StepsOK'
    BY <1>8, <2>1, <2>2 DEF RecordService, WriteJournal, IInv, StepsOK, m
  <2> QED BY <2>3, <2>4, <2>5 DEF IInv
<1>9. CASE WriteReceipt
  <2>1. TypeOK'
    BY <1>9 DEF WriteReceipt, IInv, TypeOK, durable, local, Gen
  <2>2. ActiveGenerationPresent' /\ JournalsOK' /\ HolderOK'
    BY <1>9, FrameOK DEF WriteReceipt, durable, local
  <2>3. StepsOK'
    BY <1>9 DEF WriteReceipt, IInv, StepsOK, durable, local
  <2> QED BY <2>1, <2>2, <2>3 DEF IInv
<1>10. CASE ServiceReady
  <2>1. TypeOK'
    BY <1>10 DEF ServiceReady, IInv, TypeOK, durable, procs, servers, local
  <2>2. ActiveGenerationPresent' /\ JournalsOK' /\ HolderOK'
    BY <1>10, FrameOK DEF ServiceReady, durable, local
  <2>3. StepsOK'
    BY <1>10 DEF ServiceReady, IInv, StepsOK, durable, local
  <2> QED BY <2>1, <2>2, <2>3 DEF IInv
<1>11. CASE ServiceFails
  <2>1. TypeOK'
    BY <1>11 DEF ServiceFails, IInv, TypeOK, durable, procs, servers, local
  <2>2. ActiveGenerationPresent' /\ JournalsOK' /\ HolderOK'
    BY <1>11, FrameOK DEF ServiceFails, durable, local
  <2>3. StepsOK'
    BY <1>11 DEF ServiceFails, IInv, StepsOK, durable, local
  <2> QED BY <2>1, <2>2, <2>3 DEF IInv
<1>12. CASE Complete
  <2>0. backup[cur] # NoBackup
    BY <1>12 DEF Complete, Advance, IInv, StepsOK
  <2>1. /\ TypeOK' /\ ActiveGenerationPresent' /\ JournalsOK' /\ HolderOK'
        /\ mem'.prev = mem.prev /\ mem'.cand = mem.cand /\ mem'.phase = "complete"
        /\ UNCHANGED <<state, gens, backup, cur, origin, todo>>
    BY <1>12, <2>0, PhasesTyped, AdvanceOK DEF Complete
  <2>2. StepsOK'
    BY <1>12, <2>1
       DEF Complete, Advance, WriteJournal, IInv, StepsOK, RestorePhases,
           IntentPhases, LaunchPhases
  <2> QED BY <2>1, <2>2 DEF IInv
<1>13. CASE ReportApplied
  <2>1. TypeOK'
    BY <1>13 DEF ReportApplied, IInv, TypeOK, durable, procs, servers, local
  <2>2. ActiveGenerationPresent' /\ JournalsOK' /\ HolderOK'
    BY <1>13, FrameOK DEF ReportApplied, durable, local
  <2>3. StepsOK'
    BY <1>13 DEF ReportApplied, IInv, StepsOK
  <2> QED BY <2>1, <2>2, <2>3 DEF IInv
<1> QED BY <1>1, <1>2, <1>3, <1>4, <1>5, <1>6, <1>7, <1>8, <1>9, <1>10, <1>11,
           <1>12, <1>13 DEF FromSwitch

(* The deferred recovery of ApplyPrepared, up to the rollback.             *)
LEMMA RecoverFailureOK ==
  ASSUME IInv, cur # NoTxn, RecoverFailure
  PROVE  IInv'
<1> USE ApplyAssumption
        DEF BeforeSwitchPcs, RemovalPcs, AfterSwitchPcs, SavedPcs, CopiedPcs,
            At, Goto, Fault, NoFault
<1>1. CASE RollbackIntent
  <2> DEFINE m == Enter("rolling-back")
  <2>1. m \in Journals /\ m.prev = mem.prev /\ m.cand = mem.cand /\ m.phase \in LivePhases
          /\ (m.phase \in RestorePhases => backup[cur] # NoBackup)
    BY <1>1, JournalTyped, PhasesTyped
       DEF IInv, RestorePhases, IntentPhases, LaunchPhases
  <2>2. /\ \E d \in {m, journal[cur]} : journal' = [journal EXCEPT ![cur] = d]
        /\ mem' \in {m, mem} /\ pc' \notin {"idle", "next"}
        /\ UNCHANGED <<state, gens, backup, cur, todo>>
    BY <1>1 DEF RollbackIntent, WriteJournal
  <2> HIDE DEF m
  <2>3. /\ journal' \in [Txn -> Journals]
        /\ ActiveGenerationPresent' /\ JournalsOK' /\ HolderOK'
    BY <2>1, <2>2, RecordOK
  <2>4. cleanupErr' \in BOOLEAN
    BY <1>1, Zenon DEF RollbackIntent, IInv, TypeOK
  <2>5. TypeOK'
    <3>1. origin' \in Phases \cup {"none"}
      BY <1>1 DEF RollbackIntent, IInv, TypeOK, Journals
    <3>2. faults' \in 0 .. MaxFaults
      BY <1>1 DEF RollbackIntent, WriteJournal, IInv, TypeOK
    <3> QED
      BY <1>1, <2>1, <2>2, <2>3, <2>4, <3>1, <3>2
         DEF RollbackIntent, IInv, TypeOK, procs, servers
  <2>6. StepsOK'
    BY <1>1, <2>1, <2>2 DEF RollbackIntent, WriteJournal, IInv, StepsOK, HolderOK
  <2> QED BY <2>3, <2>5, <2>6 DEF IInv
<1>2. CASE StopForRollback
  <2>1. TypeOK'
    <3>3. cleanupErr' \in BOOLEAN
      BY <1>2, Zenon DEF StopForRollback, IInv, TypeOK
    <3> QED
      BY <1>2, <3>3
         DEF StopForRollback, IInv, TypeOK, durable, procs, servers, local
  <2>2. ActiveGenerationPresent' /\ JournalsOK' /\ HolderOK'
    BY <1>2, FrameOK DEF StopForRollback, durable, local
  <2>3. StepsOK'
    BY <1>2 DEF StopForRollback, IInv, StepsOK, durable, local
  <2> QED BY <2>1, <2>2, <2>3 DEF IInv
<1>3. CASE ChooseRollback
  <2>1. TypeOK'
    BY <1>3, FirstEntry DEF ChooseRollback, IInv, TypeOK, durable, procs, servers
  <2>2. ActiveGenerationPresent' /\ JournalsOK' /\ HolderOK'
    BY <1>3, FrameOK DEF ChooseRollback, durable, local
  <2>3. StepsOK'
    BY <1>3 DEF ChooseRollback, IInv, StepsOK, durable, local
  <2> QED BY <2>1, <2>2, <2>3 DEF IInv
<1>4. CASE DropUnused
  <2>1. TypeOK'
    <3>3. cleanupErr' \in BOOLEAN
      BY <1>4, Zenon DEF DropUnused, IInv, TypeOK
    <3> QED
      BY <1>4, <3>3 DEF DropUnused, IInv, TypeOK, durable, procs, servers, local
  <2>2. /\ gens' \in {gens, gens \cup {cur}, gens \ {cur}}
        /\ state' \in {state, cur, mem.prev} /\ state' \in gens'
        /\ state' = cur => backup[cur] # NoBackup
    BY <1>4 DEF DropUnused, IInv, HolderOK, StepsOK, ActiveGenerationPresent
  <2>3. ActiveGenerationPresent' /\ JournalsOK' /\ HolderOK'
    BY <1>4, <2>2, GenerationOK DEF DropUnused, procs, IInv, TypeOK, Journals
  <2>4. StepsOK'
    BY <1>4 DEF DropUnused, IInv, StepsOK
  <2> QED BY <2>1, <2>3, <2>4 DEF IInv
<1>5. CASE VerifyRestored
  <2>1. TypeOK'
    <3>3. cleanupErr' \in BOOLEAN
      BY <1>5, Zenon DEF VerifyRestored, IInv, TypeOK
    <3> QED
      BY <1>5, <3>3 DEF VerifyRestored, IInv, TypeOK, durable, procs, servers, local
  <2>2. ActiveGenerationPresent' /\ JournalsOK' /\ HolderOK'
    BY <1>5, FrameOK DEF VerifyRestored, durable, local
  <2>3. StepsOK'
    BY <1>5 DEF VerifyRestored, IInv, StepsOK
  <2> QED BY <2>1, <2>2, <2>3 DEF IInv
<1>6. CASE RelaunchPrevious
  <2>1. TypeOK'
    <3>3. cleanupErr' \in BOOLEAN
      BY <1>6, Zenon DEF RelaunchPrevious, IInv, TypeOK
    <3> QED
      BY <1>6, <3>3
         DEF RelaunchPrevious, IInv, TypeOK, HolderOK, durable, procs, servers,
             local, RelaunchPrior
  <2>2. ActiveGenerationPresent' /\ JournalsOK' /\ HolderOK'
    BY <1>6, FrameOK DEF RelaunchPrevious, durable, local, RelaunchPrior
  <2>3. StepsOK'
    BY <1>6 DEF RelaunchPrevious, IInv, StepsOK, RelaunchPrior
  <2> QED BY <2>1, <2>2, <2>3 DEF IInv
<1>7. CASE RelaunchPreviousService
  <2>1. TypeOK'
    <3>3. cleanupErr' \in BOOLEAN
      BY <1>7, Zenon DEF RelaunchPreviousService, IInv, TypeOK, RelaunchService
    <3> QED
      BY <1>7, <3>3
         DEF RelaunchPreviousService, IInv, TypeOK, durable, procs, servers, local,
             RelaunchService, Journals
  <2>2. ActiveGenerationPresent' /\ JournalsOK' /\ HolderOK'
    BY <1>7, FrameOK
       DEF RelaunchPreviousService, durable, local, RelaunchService, Journals
  <2>3. StepsOK'
    BY <1>7 DEF RelaunchPreviousService, IInv, StepsOK, RelaunchService, Journals
  <2> QED BY <2>1, <2>2, <2>3 DEF IInv
<1>8. CASE ReportFailure
  <2>1. TypeOK'
    BY <1>8 DEF ReportFailure, IInv, TypeOK, durable, procs, servers, local
  <2>2. ActiveGenerationPresent' /\ JournalsOK' /\ HolderOK'
    BY <1>8, FrameOK DEF ReportFailure, durable, local
  <2>3. StepsOK'
    BY <1>8 DEF ReportFailure, IInv, StepsOK
  <2> QED BY <2>1, <2>2, <2>3 DEF IInv
<1> QED BY <1>1, <1>2, <1>3, <1>4, <1>5, <1>6, <1>7, <1>8 DEF RecoverFailure

(* rollbackJournal, for both of its callers.                               *)
LEMMA RollbackJournalOK ==
  ASSUME IInv, cur # NoTxn, RollbackJournal
  PROVE  IInv'
<1> USE ApplyAssumption
        DEF BeforeSwitchPcs, RemovalPcs, AfterSwitchPcs, SavedPcs, CopiedPcs,
            At, Goto, Fault, NoFault
<1>1. CASE RestoreEntry
  <2>1. TypeOK'
    <3>1. backup[cur][idx] \in Gen
      BY <1>1 DEF RestoreEntry, IInv, TypeOK, HolderOK, StepsOK, Gen
    <3>2. boot' \in [Targets -> Gen]
      <4>1. SetEntry(backup[cur][idx]) \/ boot' = boot
        BY <1>1 DEF RestoreEntry
      <4> QED BY <3>1, <4>1, SetEntryTyped DEF IInv, TypeOK
    <3>4. idx' \in Targets
      <4>1. idx' = 1 \/ \E again, done : NextEntry(again, done)
        BY <1>1 DEF RestoreEntry
      <4> QED BY <4>1, FirstEntry, NextEntryTyped DEF IInv
    <3>3. cleanupErr' \in BOOLEAN
      BY <1>1, Zenon DEF RestoreEntry, IInv, TypeOK, RollbackError
    <3> QED
      BY <1>1, <3>2, <3>4, <3>3
         DEF RestoreEntry, IInv, TypeOK, durable, procs, servers, local,
             RollbackError, NextEntry
  <2>2. ActiveGenerationPresent' /\ JournalsOK' /\ HolderOK'
    BY <1>1, FrameOK
       DEF RestoreEntry, durable, local, NextEntry, SetEntry, Targets,
           RollbackError
  <2>3. StepsOK'
    BY <1>1
       DEF RestoreEntry, IInv, StepsOK, NextEntry, SetEntry, Targets, RollbackError
  <2> QED BY <2>1, <2>2, <2>3 DEF IInv
<1>2. CASE RestoreState
  <2>1. TypeOK'
    <3>3. cleanupErr' \in BOOLEAN
      BY <1>2, Zenon DEF RestoreState, IInv, TypeOK, RollbackError
    <3> QED
      BY <1>2, <3>3
         DEF RestoreState, IInv, TypeOK, HolderOK, durable, procs, servers, local,
             RollbackError
  <2>2. /\ gens' \in {gens, gens \cup {cur}, gens \ {cur}}
        /\ state' \in {state, cur, mem.prev} /\ state' \in gens'
        /\ state' = cur => backup[cur] # NoBackup
    BY <1>2 DEF RestoreState, IInv, HolderOK, StepsOK, ActiveGenerationPresent
  <2>3. ActiveGenerationPresent' /\ JournalsOK' /\ HolderOK'
    BY <1>2, <2>2, GenerationOK
       DEF RestoreState, procs, IInv, TypeOK, Journals, RollbackError
  <2>4. StepsOK'
    BY <1>2 DEF RestoreState, IInv, StepsOK, RollbackError
  <2> QED BY <2>1, <2>3, <2>4 DEF IInv
<1>3. CASE DropGeneration
  <2>1. TypeOK'
    <3>3. cleanupErr' \in BOOLEAN
      BY <1>3, Zenon DEF DropGeneration, IInv, TypeOK, RollbackError
    <3> QED
      BY <1>3, <3>3
         DEF DropGeneration, IInv, TypeOK, durable, procs, servers, local,
             RollbackError
  <2>2. /\ gens' \in {gens, gens \cup {cur}, gens \ {cur}}
        /\ state' \in {state, cur, mem.prev} /\ state' \in gens'
        /\ state' = cur => backup[cur] # NoBackup
    BY <1>3 DEF DropGeneration, IInv, HolderOK, StepsOK, ActiveGenerationPresent
  <2>3. ActiveGenerationPresent' /\ JournalsOK' /\ HolderOK'
    BY <1>3, <2>2, GenerationOK
       DEF DropGeneration, procs, IInv, TypeOK, Journals, RollbackError
  <2>4. StepsOK'
    BY <1>3 DEF DropGeneration, IInv, StepsOK, RollbackError
  <2> QED BY <2>1, <2>3, <2>4 DEF IInv
<1>4. CASE RecordRolledBack
  <2> DEFINE m == Enter("rolled-back")
  <2>1. m \in Journals /\ m.prev = mem.prev /\ m.cand = mem.cand /\ m.phase \in LivePhases
          /\ (m.phase \in RestorePhases => backup[cur] # NoBackup)
    BY <1>4, JournalTyped, PhasesTyped
       DEF IInv, RestorePhases, IntentPhases, LaunchPhases
  <2>2. /\ \E d \in {m, journal[cur]} : journal' = [journal EXCEPT ![cur] = d]
        /\ mem' \in {m, mem} /\ pc' \notin {"idle", "next"}
        /\ UNCHANGED <<state, gens, backup, cur, todo>>
    BY <1>4 DEF RecordRolledBack, WriteJournal, RollbackError
  <2> HIDE DEF m
  <2>3. /\ journal' \in [Txn -> Journals]
        /\ ActiveGenerationPresent' /\ JournalsOK' /\ HolderOK'
    BY <2>1, <2>2, RecordOK
  <2>4. cleanupErr' \in BOOLEAN
    BY <1>4, Zenon DEF RecordRolledBack, RollbackError, IInv, TypeOK
  <2>5. TypeOK'
    BY <1>4, <2>1, <2>2, <2>3, <2>4
       DEF RecordRolledBack, WriteJournal, RollbackError, IInv, TypeOK, procs,
           servers
  <2>6. StepsOK'
    BY <1>4, <2>1, <2>2
       DEF RecordRolledBack, WriteJournal, RollbackError, IInv, StepsOK, m
  <2> QED BY <2>3, <2>5, <2>6 DEF IInv
<1> QED BY <1>1, <1>2, <1>3, <1>4 DEF RollbackJournal

(* RecoverInstall on the transaction it examines.                          *)
LEMMA RecoverExaminedOK ==
  ASSUME IInv, cur # NoTxn,
         \/ StopRecorded \/ Decide
         \/ FinishServiceStop \/ RelaunchEarly \/ RelaunchEarlyService \/ RemoveExamined
         \/ DropCandidate \/ RelaunchIntent \/ RelaunchRestored \/ RelaunchRestoredService
         \/ RecordRecovered \/ ReportRecovered
  PROVE  IInv'
<1> USE ApplyAssumption
        DEF BeforeSwitchPcs, RemovalPcs, AfterSwitchPcs, SavedPcs, CopiedPcs,
            At, Goto, Fault, NoFault
<1>1. CASE StopRecorded
  <2>1. TypeOK'
    BY <1>1 DEF StopRecorded, IInv, TypeOK, durable, procs, servers, local
  <2>2. ActiveGenerationPresent' /\ JournalsOK' /\ HolderOK'
    BY <1>1, FrameOK DEF StopRecorded, durable, local
  <2>3. StepsOK'
    BY <1>1 DEF StopRecorded, IInv, StepsOK
  <2> QED BY <2>1, <2>2, <2>3 DEF IInv
<1>2. CASE Decide
  <2>1. TypeOK'
    BY <1>2 DEF Decide, IInv, TypeOK, durable, procs, servers, local
  <2>2. ActiveGenerationPresent' /\ JournalsOK' /\ HolderOK'
    BY <1>2, FrameOK DEF Decide, durable, local
  <2>3. StepsOK'
    BY <1>2
       DEF Decide, IInv, StepsOK, HolderOK, durable, local, MustRestore,
           IsCandidate, IsPrior, RestorePhases
  <2> QED BY <2>1, <2>2, <2>3 DEF IInv
<1>3. CASE FinishServiceStop
  <2>1. TypeOK'
    BY <1>3 DEF FinishServiceStop, IInv, TypeOK, durable, procs, servers, local
  <2>2. ActiveGenerationPresent' /\ JournalsOK' /\ HolderOK'
    BY <1>3, FrameOK DEF FinishServiceStop, durable, local
  <2>3. StepsOK'
    BY <1>3 DEF FinishServiceStop, IInv, StepsOK
  <2> QED BY <2>1, <2>2, <2>3 DEF IInv
<1>4. CASE RelaunchEarly
  <2>1. TypeOK'
    BY <1>4
       DEF RelaunchEarly, IInv, TypeOK, HolderOK, durable, procs, servers, local,
           RelaunchPrior
  <2>2. ActiveGenerationPresent' /\ JournalsOK' /\ HolderOK'
    BY <1>4, FrameOK DEF RelaunchEarly, durable, local, RelaunchPrior
  <2>3. StepsOK'
    BY <1>4 DEF RelaunchEarly, IInv, StepsOK, RelaunchPrior
  <2> QED BY <2>1, <2>2, <2>3 DEF IInv
<1>5. CASE RelaunchEarlyService
  <2>1. TypeOK'
    BY <1>5
       DEF RelaunchEarlyService, IInv, TypeOK, durable, procs, servers, local,
           RelaunchService, Journals
  <2>2. ActiveGenerationPresent' /\ JournalsOK' /\ HolderOK'
    BY <1>5, FrameOK
       DEF RelaunchEarlyService, durable, local, RelaunchService, Journals
  <2>3. StepsOK'
    BY <1>5 DEF RelaunchEarlyService, IInv, StepsOK, RelaunchService, Journals
  <2> QED BY <2>1, <2>2, <2>3 DEF IInv
<1>6. CASE RemoveExamined
  <2>1. TypeOK'
    BY <1>6, JournalTyped, RemovedTyped
       DEF RemoveExamined, RemoveDirectory, NextDirectory, IInv, TypeOK, procs,
           servers
  <2>2. ActiveGenerationPresent'
    BY <1>6 DEF RemoveExamined, IInv, ActiveGenerationPresent
  <2>3. JournalsOK'
    BY <1>6
       DEF RemoveExamined, RemoveDirectory, IInv, TypeOK, JournalsOK, HolderOK,
           NoJournal, Incomplete, Absent, LivePhases, RestorePhases, IntentPhases,
           LaunchPhases
  <2>4. HolderOK'
    BY <1>6
       DEF RemoveExamined, RemoveDirectory, NextDirectory, IInv, TypeOK, HolderOK,
           NoJournal, Incomplete, Absent, LivePhases, SingleOpenTransaction
  <2>5. StepsOK'
    BY <1>6 DEF RemoveExamined, NextDirectory, StepsOK
  <2> QED BY <2>1, <2>2, <2>3, <2>4, <2>5 DEF IInv
<1>7. CASE DropCandidate
  <2>1. TypeOK'
    BY <1>7 DEF DropCandidate, IInv, TypeOK, durable, procs, servers, local
  <2>2. /\ gens' \in {gens, gens \cup {cur}, gens \ {cur}}
        /\ state' \in {state, cur, mem.prev} /\ state' \in gens'
        /\ state' = cur => backup[cur] # NoBackup
    BY <1>7 DEF DropCandidate, IInv, HolderOK, StepsOK, ActiveGenerationPresent
  <2>3. ActiveGenerationPresent' /\ JournalsOK' /\ HolderOK'
    BY <1>7, <2>2, GenerationOK DEF DropCandidate, procs, local
  <2>4. StepsOK'
    BY <1>7 DEF DropCandidate, IInv, StepsOK
  <2> QED BY <2>1, <2>3, <2>4 DEF IInv
<1>8. CASE RelaunchIntent
  <2>1. /\ TypeOK' /\ ActiveGenerationPresent' /\ JournalsOK' /\ HolderOK'
        /\ mem'.prev = mem.prev /\ mem'.cand = mem.cand /\ mem'.phase = "rollback-relaunch"
        /\ UNCHANGED <<state, gens, backup, cur, origin, todo>>
    BY <1>8, PhasesTyped, AdvanceOK
       DEF RelaunchIntent, RestorePhases, IntentPhases, LaunchPhases
  <2>2. StepsOK'
    BY <1>8, <2>1 DEF RelaunchIntent, Advance, WriteJournal, IInv, StepsOK
  <2> QED BY <2>1, <2>2 DEF IInv
<1>9. CASE RelaunchRestored
  <2>1. TypeOK'
    BY <1>9
       DEF RelaunchRestored, IInv, TypeOK, HolderOK, durable, procs, servers,
           local, RelaunchPrior
  <2>2. ActiveGenerationPresent' /\ JournalsOK' /\ HolderOK'
    BY <1>9, FrameOK DEF RelaunchRestored, durable, local, RelaunchPrior
  <2>3. StepsOK'
    BY <1>9 DEF RelaunchRestored, IInv, StepsOK, RelaunchPrior
  <2> QED BY <2>1, <2>2, <2>3 DEF IInv
<1>10. CASE RelaunchRestoredService
  <2>1. TypeOK'
    BY <1>10
       DEF RelaunchRestoredService, IInv, TypeOK, durable, procs, servers, local,
           RelaunchService, Journals
  <2>2. ActiveGenerationPresent' /\ JournalsOK' /\ HolderOK'
    BY <1>10, FrameOK
       DEF RelaunchRestoredService, durable, local, RelaunchService, Journals
  <2>3. StepsOK'
    BY <1>10 DEF RelaunchRestoredService, IInv, StepsOK, RelaunchService, Journals
  <2> QED BY <2>1, <2>2, <2>3 DEF IInv
<1>11. CASE RecordRecovered
  <2>1. /\ TypeOK' /\ ActiveGenerationPresent' /\ JournalsOK' /\ HolderOK'
        /\ mem'.prev = mem.prev /\ mem'.cand = mem.cand /\ mem'.phase = "rolled-back"
        /\ UNCHANGED <<state, gens, backup, cur, origin, todo>>
    BY <1>11, PhasesTyped, AdvanceOK
       DEF RecordRecovered, RestorePhases, IntentPhases, LaunchPhases
  <2>2. StepsOK'
    BY <1>11, <2>1 DEF RecordRecovered, Advance, WriteJournal, IInv, StepsOK
  <2> QED BY <2>1, <2>2 DEF IInv
<1>12. CASE ReportRecovered
  <2>1. TypeOK'
    BY <1>12, JournalTyped
       DEF ReportRecovered, NextDirectory, IInv, TypeOK, procs, servers
  <2>2. ActiveGenerationPresent' /\ JournalsOK'
    BY <1>12
       DEF ReportRecovered, IInv, ActiveGenerationPresent, JournalsOK, Incomplete
  <2>3. HolderOK'
    BY <1>12
       DEF ReportRecovered, NextDirectory, IInv, HolderOK, Incomplete,
           SingleOpenTransaction
  <2>4. StepsOK'
    BY <1>12 DEF ReportRecovered, NextDirectory, StepsOK
  <2> QED BY <2>1, <2>2, <2>3, <2>4 DEF IInv
<1> QED BY <1>1, <1>2, <1>3, <1>4, <1>5, <1>6, <1>7, <1>8, <1>9, <1>10, <1>11,
           <1>12

-----------------------------------------------------------------------------
(* Steps of a recovery between two transactions.                           *)

(* RecoverInstall passes over a journal that does not validate.            *)
LEMMA SkipJournalOK ==
  ASSUME IInv, NEW t \in Txn, SkipJournal(t)
  PROVE  IInv'
<1>1. TypeOK'
  BY DEF SkipJournal, IInv, TypeOK, durable, procs, servers
<1>2. ActiveGenerationPresent' /\ JournalsOK'
  BY DEF SkipJournal, durable, IInv, ActiveGenerationPresent, JournalsOK, Incomplete
<1>3. HolderOK'
  BY DEF SkipJournal, At, durable, IInv, HolderOK, Incomplete, SingleOpenTransaction
<1>4. StepsOK'
  BY DEF SkipJournal, durable, IInv, StepsOK
<1> QED BY <1>1, <1>2, <1>3, <1>4 DEF IInv

(* RecoverInstall removes a finished or expired directory.                 *)
LEMMA RemoveFinishedOK ==
  ASSUME IInv, NEW t \in Txn, RemoveFinished(t)
  PROVE  IInv'
<1>1. TypeOK'
  BY RemovedTyped, ApplyAssumption
     DEF RemoveFinished, RemoveDirectory, Fault, NoFault, IInv, TypeOK, procs,
         servers
<1>2. ActiveGenerationPresent'
  BY DEF RemoveFinished, IInv, ActiveGenerationPresent
<1>3. JournalsOK'
  BY ApplyAssumption
     DEF RemoveFinished, RemoveDirectory, IInv, TypeOK, JournalsOK, NoJournal,
         Incomplete, Absent, LivePhases, RestorePhases, IntentPhases, LaunchPhases
<1>4. HolderOK'
  BY DEF RemoveFinished, RemoveDirectory, At, IInv, TypeOK, HolderOK, NoJournal,
     Incomplete, Absent, LivePhases, SingleOpenTransaction
<1>5. StepsOK'
  BY DEF RemoveFinished, At, StepsOK, BeforeSwitchPcs, RemovalPcs, CopiedPcs,
     SavedPcs, AfterSwitchPcs
<1> QED BY <1>1, <1>2, <1>3, <1>4, <1>5 DEF IInv

(* RecoverInstall takes up an open transaction.                            *)
LEMMA ExamineOK ==
  ASSUME IInv, NEW t \in Txn, Examine(t)
  PROVE  IInv'
<1>1. TypeOK'
  BY DEF Examine, IInv, TypeOK, durable, procs, servers
<1>2. ActiveGenerationPresent' /\ JournalsOK'
  BY DEF Examine, durable, IInv, ActiveGenerationPresent, JournalsOK, Incomplete
<1>3. HolderOK'
  <2>1. cur = NoTxn /\ journal[t].phase \in LivePhases
    BY DEF Examine, At, IInv, TypeOK, HolderOK, JournalsOK, Journals, LivePhases
  <2>2. Incomplete(t)
    BY <2>1 DEF Examine, Incomplete, Terminal, LivePhases
  <2> QED BY <2>1, <2>2, ApplyAssumption
             DEF Examine, Goto, Valid, durable, IInv, HolderOK, JournalsOK,
                 Incomplete, SingleOpenTransaction
<1>4. StepsOK'
  BY DEF Examine, Goto, StepsOK, BeforeSwitchPcs, RemovalPcs, CopiedPcs, SavedPcs,
     AfterSwitchPcs
<1> QED BY <1>1, <1>2, <1>3, <1>4 DEF IInv

(* The lock is released: by a return, by a crash, at the end of a recovery.*)
LEMMA ReleaseOK ==
  ASSUME IInv, Release, UNCHANGED <<durable, servers>>,
         apps' \in SUBSET Gen, faults' \in 0 .. MaxFaults
  PROVE  IInv'
<1>1. TypeOK'
  BY JournalTyped, FirstEntry DEF Release, IInv, TypeOK, durable, servers
<1>2. ActiveGenerationPresent' /\ JournalsOK'
  BY DEF durable, IInv, ActiveGenerationPresent, JournalsOK, Incomplete
<1>3. HolderOK'
  BY DEF Release, Goto, durable, IInv, HolderOK, Incomplete, SingleOpenTransaction
<1>4. StepsOK'
  BY DEF Release, Goto, StepsOK, BeforeSwitchPcs, RemovalPcs, CopiedPcs, SavedPcs,
     AfterSwitchPcs
<1> QED BY <1>1, <1>2, <1>3, <1>4 DEF IInv

(* Every step of RecoverInstall.                                           *)
LEMMA RecoverStepOK ==
  ASSUME IInv, RecoverStep
  PROVE  IInv'
<1>1. CASE \E t \in Txn : SkipJournal(t) \/ RemoveFinished(t) \/ Examine(t)
  BY <1>1, SkipJournalOK, RemoveFinishedOK, ExamineOK
<1>2. CASE RecoverFinish
  <2>1. apps' \in SUBSET Gen
    BY <1>2 DEF RecoverFinish, IInv, TypeOK
  <2> QED BY <1>2, <2>1, ReleaseOK DEF RecoverFinish, IInv, TypeOK
<1>3. CASE /\ \/ StopRecorded \/ Decide
              \/ FinishServiceStop \/ RelaunchEarly \/ RelaunchEarlyService
              \/ RemoveExamined \/ DropCandidate \/ RelaunchIntent
              \/ RelaunchRestored \/ RelaunchRestoredService
              \/ RecordRecovered \/ ReportRecovered
  <2>1. pc \notin {"idle", "next"}
    BY <1>3
       DEF StopRecorded, Decide, FinishServiceStop, RelaunchEarly,
           RelaunchEarlyService, RelaunchPrior, RelaunchService, RemoveExamined,
           DropCandidate, RelaunchIntent, RelaunchRestored, RelaunchRestoredService,
           RecordRecovered, ReportRecovered, Advance, At
  <2>2. cur # NoTxn
    BY <2>1 DEF IInv, HolderOK
  <2> QED BY <1>3, <2>2, RecoverExaminedOK
<1> QED BY <1>1, <1>2, <1>3 DEF RecoverStep

-----------------------------------------------------------------------------
(* Everything else.                                                        *)

(* Every step of the holder of the lock.                                   *)
LEMMA WorkOK ==
  ASSUME IInv, Work
  PROVE  IInv'
<1>1. CASE ApplyStep \/ RollbackJournal
  <2>1. pc \notin {"idle", "next"}
    BY <1>1
       DEF ApplyStep, BeforeSwitch, FromSwitch, RecoverFailure, RollbackJournal,
           AwaitCommit, ExitTimeout, AwaitExit, StepError, StopIntent,
           StopParticipants, ParticipantsStopped, CopyIntent, CreateGeneration,
           GenerationReady, BackupEntries, BootstrapIntent, ReplaceEntry,
           BootstrapReady, StateIntent, UndoEntry, DiscardGeneration, SwitchState,
           Activated, LaunchCandidate, RecordCandidate, CandidateReady, CandidateFails,
           LaunchService, RecordService, WriteReceipt, ServiceReady, ServiceFails,
           Complete, ReportApplied, RollbackIntent, StopForRollback, ChooseRollback,
           DropUnused, VerifyRestored, RelaunchPrevious, RelaunchPreviousService,
           ReportFailure, RestoreEntry, RestoreState, DropGeneration, RecordRolledBack,
           RelaunchPrior, RelaunchService, Advance, At
  <2>2. cur # NoTxn
    BY <2>1 DEF IInv, HolderOK
  <2> QED BY <1>1, <2>2, BeforeSwitchOK, FromSwitchOK, RecoverFailureOK,
             RollbackJournalOK DEF ApplyStep
<1>2. CASE RecoverStep
  BY <1>2, RecoverStepOK
<1>3. CASE Return
  BY <1>3, ReleaseOK DEF Return, procs, IInv, TypeOK
<1> QED BY <1>1, <1>2, <1>3 DEF Work

(* Processes start and stop.                                               *)
LEMMA ProcessesOK ==
  ASSUME IInv, UNCHANGED <<durable, pc, local, faults>>,
         apps' \in SUBSET Gen, {service, receipt, starting}' \subseteq Gen \cup {NoGen}
  PROVE  IInv'
<1>1. TypeOK'
  BY DEF durable, local, IInv, TypeOK
<1>2. ActiveGenerationPresent' /\ JournalsOK' /\ HolderOK'
  BY DEF durable, local, IInv, ActiveGenerationPresent, JournalsOK, HolderOK,
     Incomplete, SingleOpenTransaction
<1>3. StepsOK'
  BY DEF durable, local, IInv, StepsOK
<1> QED BY <1>1, <1>2, <1>3 DEF IInv

(* A transaction is prepared only when no other is open.                   *)
LEMMA PrepareApplyOK ==
  ASSUME IInv, NEW t \in Txn, PrepareApply(t)
  PROVE  IInv'
<1> DEFINE m == [NoJournal EXCEPT !.phase = "prepared", !.prev = state,
                                  !.claim = receipt = state /\ service = state]
<1>1. m \in Journals /\ m.phase = "prepared" /\ m.prev = state
  BY DEF m, NoJournal, Journals, Phases, LivePhases, IInv, TypeOK
<1>2. /\ journal' = [journal EXCEPT ![t] = m] /\ pc = "idle"
      /\ journal[t].phase = "none" /\ \A u \in Txn : ~Incomplete(u)
      /\ UNCHANGED <<state, gens, boot, backup, commit, result, procs, pc, local, faults>>
  BY DEF PrepareApply, At, RejectIncompleteTransactions
<1>3. state # t
  BY <1>2 DEF IInv, JournalsOK, ActiveGenerationPresent
<1> HIDE DEF m
<1>4. TypeOK'
  BY <1>1, <1>2 DEF IInv, TypeOK, procs, servers, local
<1>5. ActiveGenerationPresent'
  BY <1>2 DEF IInv, ActiveGenerationPresent
<1>6. JournalsOK'
  BY <1>1, <1>2, <1>3
     DEF IInv, TypeOK, JournalsOK, Incomplete, RestorePhases, IntentPhases,
         LaunchPhases
<1>7. HolderOK'
  BY <1>1, <1>2 DEF IInv, TypeOK, HolderOK, SingleOpenTransaction, Incomplete, local
<1>8. StepsOK'
  BY <1>2
     DEF StepsOK, BeforeSwitchPcs, RemovalPcs, CopiedPcs, SavedPcs, AfterSwitchPcs
<1> QED BY <1>4, <1>5, <1>6, <1>7, <1>8 DEF IInv

(* A commit writes only commit.json.                                       *)
LEMMA CommitPreparedApplyOK ==
  ASSUME IInv, NEW t \in Txn, CommitPreparedApply(t)
  PROVE  IInv'
<1>1. TypeOK'
  BY DEF CommitPreparedApply, IInv, TypeOK, procs, servers, local
<1>2. ActiveGenerationPresent' /\ JournalsOK' /\ HolderOK'
  BY DEF CommitPreparedApply, local, IInv, ActiveGenerationPresent, JournalsOK,
     HolderOK, Incomplete, SingleOpenTransaction
<1>3. StepsOK'
  BY DEF CommitPreparedApply, local, IInv, StepsOK
<1> QED BY <1>1, <1>2, <1>3 DEF IInv

(* ApplyPrepared takes the lock for the one open transaction.              *)
LEMMA AcceptApplyOK ==
  ASSUME IInv, NEW t \in Txn, AcceptApply(t)
  PROVE  IInv'
<1>1. /\ mem' \in Journals /\ mem'.phase = "waiting-for-exit" /\ mem'.prev = journal[t].prev
      /\ cur' = t /\ pc = "idle" /\ pc' \in {"commit", "return"}
      /\ journal[t].phase = "prepared" /\ state = journal[t].prev
      /\ \E d \in {journal[t], mem'} : journal' = [journal EXCEPT ![t] = d]
      /\ UNCHANGED <<state, gens, boot, backup, commit, result, procs,
                     idx, origin, cleanupErr, todo>>
  BY DEF AcceptApply, At, Goto, IInv, TypeOK, Journals, Phases, LivePhases
<1>2. TypeOK'
  BY <1>1, ApplyAssumption
     DEF AcceptApply, Fault, NoFault, IInv, TypeOK, procs, servers
<1>3. ActiveGenerationPresent'
  BY <1>1 DEF IInv, ActiveGenerationPresent
<1>4. state # t
  BY <1>1 DEF IInv, JournalsOK
<1>5. JournalsOK'
  BY <1>1, <1>4
     DEF IInv, TypeOK, JournalsOK, Incomplete, RestorePhases, IntentPhases,
         LaunchPhases
<1>6. HolderOK'
  <2>1. Incomplete(t)
    BY <1>1 DEF Incomplete, Terminal, Absent, LivePhases
  <2>2. \A u \in Txn \ {t} : ~Incomplete(u) /\ ~Incomplete(u)'
    BY <1>1, <2>1 DEF IInv, HolderOK, SingleOpenTransaction, TypeOK, Incomplete
  <2> QED BY <1>1, <1>4, <2>2, ApplyAssumption
             DEF IInv, HolderOK, TypeOK, Absent, LivePhases, Phases, RestorePhases,
                 IntentPhases, LaunchPhases, ActiveGenerationPresent
<1>7. StepsOK'
  BY <1>1
     DEF StepsOK, BeforeSwitchPcs, RemovalPcs, CopiedPcs, SavedPcs, AfterSwitchPcs
<1> QED BY <1>2, <1>3, <1>5, <1>6, <1>7 DEF IInv

(* RecoverInstall takes the lock.                                          *)
LEMMA RecoverStartOK ==
  ASSUME IInv, RecoverStart
  PROVE  IInv'
<1>1. TypeOK'
  BY DEF RecoverStart, IInv, TypeOK, durable, procs, servers
<1>2. ActiveGenerationPresent' /\ JournalsOK'
  BY DEF RecoverStart, durable, IInv, ActiveGenerationPresent, JournalsOK,
     Incomplete
<1>3. HolderOK'
  BY DEF RecoverStart, At, Goto, durable, IInv, HolderOK, Incomplete,
     SingleOpenTransaction
<1>4. StepsOK'
  BY DEF RecoverStart, Goto, StepsOK, BeforeSwitchPcs, RemovalPcs, CopiedPcs,
     SavedPcs, AfterSwitchPcs
<1> QED BY <1>1, <1>2, <1>3, <1>4 DEF IInv

(* Every step of the environment.                                          *)
LEMMA EnvironmentOK ==
  ASSUME IInv, Environment
  PROVE  IInv'
<1>1. CASE \/ \E g \in Gen : AppExit(g)
           \/ StartService \/ RegisterService \/ RegisterRefused \/ ServiceExit
  <2>1. UNCHANGED <<durable, pc, local, faults>>
    BY <1>1 DEF AppExit, StartService, RegisterService, RegisterRefused, ServiceExit
  <2>2. /\ apps' \in SUBSET Gen
        /\ {service, receipt, starting}' \subseteq Gen \cup {NoGen}
    BY <1>1
       DEF AppExit, StartService, RegisterService, RegisterRefused, ServiceExit,
           IInv, TypeOK, servers
  <2> QED BY <2>1, <2>2, ProcessesOK
<1>2. CASE \E t \in Txn : PrepareApply(t) \/ CommitPreparedApply(t) \/ AcceptApply(t)
  BY <1>2, PrepareApplyOK, CommitPreparedApplyOK, AcceptApplyOK
<1>3. CASE RecoverStart
  BY <1>3, RecoverStartOK
<1>4. CASE Crash
  BY <1>4, ReleaseOK, ApplyAssumption DEF Crash, Fault, procs, IInv, TypeOK
<1> QED BY <1>1, <1>2, <1>3, <1>4 DEF Environment

-----------------------------------------------------------------------------
(* The invariant holds of a fresh installation.                            *)
LEMMA InitOK == Init => IInv
<1> SUFFICES ASSUME Init PROVE IInv
  OBVIOUS
<1>1. NoJournal \in Journals
  BY DEF NoJournal, Journals, Phases, LivePhases, Absent
<1>2. TypeOK
  <2>1. /\ boot \in [Targets -> Gen] /\ journal \in [Txn -> Journals]
        /\ backup \in [Txn -> [Targets -> Gen] \cup {NoBackup}]
    BY <1>1 DEF Init, Gen
  <2>2. idx \in Targets /\ faults \in 0 .. MaxFaults /\ mem \in Journals
    BY <1>1, FirstEntry, ApplyAssumption DEF Init, Unlocked
  <2>3. /\ state \in Gen /\ gens \in SUBSET Gen /\ apps \in SUBSET Gen
        /\ {service, receipt, starting} \subseteq Gen \cup {NoGen}
    BY DEF Init, Gen
  <2> QED BY <2>1, <2>2, <2>3 DEF Init, Unlocked, TypeOK
<1>3. ActiveGenerationPresent
  BY DEF Init, ActiveGenerationPresent
<1>4. JournalsOK
  BY ApplyAssumption
     DEF Init, JournalsOK, NoJournal, Incomplete, Absent, LivePhases,
         RestorePhases, IntentPhases, LaunchPhases
<1>5. HolderOK
  BY DEF Init, Unlocked, HolderOK, SingleOpenTransaction, NoJournal, Incomplete,
     Absent, LivePhases
<1>6. StepsOK
  BY DEF Init, StepsOK, BeforeSwitchPcs, RemovalPcs, CopiedPcs, SavedPcs,
     AfterSwitchPcs
<1> QED BY <1>2, <1>3, <1>4, <1>5, <1>6 DEF IInv

(* Every step preserves it.                                                *)
LEMMA NextOK == IInv /\ [Next]_vars => IInv'
<1> SUFFICES ASSUME IInv, [Next]_vars PROVE IInv'
  OBVIOUS
<1>1. CASE Environment
  BY <1>1, EnvironmentOK
<1>2. CASE Work
  BY <1>2, WorkOK
<1>3. CASE UNCHANGED vars
  BY <1>3, ProcessesOK DEF vars, procs, servers, IInv, TypeOK
<1> QED BY <1>1, <1>2, <1>3 DEF Next

(* So it holds always.                                                     *)
LEMMA Inductive == Spec => []IInv
<1>1. Init => IInv
  BY InitOK
<1>2. IInv /\ [Next]_vars => IInv'
  BY NextOK
<1> QED BY <1>1, <1>2, PTL DEF Spec

(* Every variable keeps its type.                                          *)
THEOREM TypeCorrect == Spec => []TypeOK
<1>1. IInv => TypeOK
  BY DEF IInv
<1> QED BY <1>1, Inductive, PTL

(* No clean-up, rollback or recovery ever removes the active generation,   *)
(* whatever fails and wherever a crash strikes.                            *)
THEOREM ActiveGenerationSafe == Spec => []ActiveGenerationPresent
<1>1. IInv => ActiveGenerationPresent
  BY DEF IInv
<1> QED BY <1>1, Inductive, PTL

(* Two transactions are never open at once.                                *)
THEOREM SingleOpen == Spec => []SingleOpenTransaction
<1>1. IInv => SingleOpenTransaction
  BY DEF IInv, TypeOK, HolderOK, SingleOpenTransaction
<1> QED BY <1>1, Inductive, PTL
=============================================================================
