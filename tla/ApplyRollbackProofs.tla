------------------------ MODULE ApplyRollbackProofs ------------------------
(***************************************************************************)
(* What a rollback of the update transaction restores and what it leaves   *)
(* running, for any number of transactions, stable entries and failures:   *)
(* theorems on top of the inductive invariant of ApplyTransactionProofs.   *)
(***************************************************************************)
EXTENDS ApplyTransactionProofs

-----------------------------------------------------------------------------
(* The inductive invariant, by what it is about.                           *)

(* Phases while the apply waits for its commit; while nothing of the       *)
(* installation is touched; once the candidate's process may be recorded.  *)
WaitPhases     == {"prepared", "waiting-for-exit"}
PrePhases      == WaitPhases \cup EarlyPhases \cup {"generation-ready"}
RecordedPhases == {"candidate-launched", "complete", "rolled-back"} \cup RollPhases

(* Where the holder of the lock stands: nothing is touched yet, the        *)
(* entries are replaced, they are all replaced.                            *)
UntouchedPcs ==
  {"commit", "exit", "child", "participants", "stopped", "stage", "copy",
   "generation", "backup", "intent"}
IntentPcs   == {"entries", "replaced", "ready", "switch"}
ReplacedPcs == {"replaced", "ready", "switch"} \cup AfterSwitchPcs

(* A recovery looks at a journal, ends one that touched nothing, restores, *)
(* ends one that is restored.                                              *)
EarlyPcs    == {"eStop", "eRelaunch", "eService", "eRemove"}
ExaminedPcs == {"rStop", "rDecide"} \cup EarlyPcs
RestorePcs  == {"restore", "priorState", "dropGen", "rolledBack"}
MarkPcs     == {"mark", "rRelaunch", "rService", "rFinal"}
StoppedPcs  == {"rDecide", "rDrop"} \cup RestorePcs \cup MarkPcs

(* Every entry that a launch depends on is that of g.                      *)
Prior(g) == \A x \in Checked : boot[x] = g

(* A process is recorded once it runs, a service after the process and     *)
(* only for a claim.                                                       *)
Recorded(j) ==
  /\ j.pid => j.phase \in RecordedPhases
  /\ j.svc => j.pid /\ j.claim

(* What the disk says of one transaction agrees with the installation.     *)
DurableOK(t) ==
  /\ journal[t].phase \in PrePhases =>
       state = journal[t].prev /\ Prior(journal[t].prev)
  /\ backup[t] # NoBackup => \A x \in Checked : backup[t][x] = journal[t].prev
  /\ journal[t].phase = "none" => backup[t] = NoBackup
  /\ journal[t].phase \notin Absent \cup WaitPhases => t \in commit
  /\ journal[t].phase \in WaitPhases => ~journal[t].cand /\ t \notin gens
  /\ journal[t].phase \in RollPhases /\ ~journal[t].cand => t \notin gens
  /\ journal[t].phase = "rolled-back" =>
       t \notin gens /\ (journal[t].pid => t \notin apps)
  /\ Recorded(journal[t])

AllDurableOK == \A t \in Txn : DurableOK(t)

(* With no transaction open the entries are those of the active generation.*)
ClosedOK == (\A t \in Txn : ~Incomplete(t)) => Prior(state)

(* The holder's copy of the journal, and what it knows of the one on disk. *)
MemoryOK ==
  cur # NoTxn =>
    /\ journal[cur].prev = mem.prev
    /\ Recorded(mem)
    /\ pc \notin {"commit", "return"} \cup ExaminedPcs => cur \in commit
    /\ pc \in UntouchedPcs => mem.phase = journal[cur].phase /\ mem.phase \in PrePhases
    /\ pc = "copy" => mem.phase = "copying"
    /\ pc \in IntentPcs \cup {"undo"} => journal[cur].phase \in IntentPhases
    /\ pc \in IntentPcs \cup {"undo", "switched"} => mem.phase \in IntentPhases
    /\ pc = "launch" => journal[cur].phase = "activated"
    /\ pc \in {"await", "svcLaunch", "svcRecord"} =>
         mem.pid /\ mem.phase = "candidate-launched"
    /\ pc \in {"svcLaunch", "svcRecord"} => mem.claim
    /\ pc \in ExaminedPcs => mem = journal[cur] /\ Incomplete(cur)
    /\ pc \in EarlyPcs => mem.phase \in EarlyPhases \cup WaitPhases
    /\ pc \in {"fStop", "fRoll"} /\ ~cleanupErr => journal[cur].phase = "rolling-back"
    /\ pc \in RestorePcs => Incomplete(cur) /\ journal[cur].phase \notin PrePhases

(* How far the entries and the state are replaced or restored.             *)
EntriesOK ==
  /\ pc \notin {"entries", "undo", "restore"} => idx = 1
  /\ pc = "entries" => \A x \in Targets : x < idx => boot[x] = cur
  /\ pc \in ReplacedPcs => \A x \in Targets : boot[x] = cur
  /\ pc \in AfterSwitchPcs => state = cur
  /\ pc = "restore" => \A x \in Checked : x < idx => boot[x] = mem.prev
  /\ pc \in {"priorState", "dropGen", "rolledBack", "rService", "rFinal"} => Prior(mem.prev)
  /\ pc \in {"dropGen", "rolledBack"} \cup MarkPcs => state = mem.prev

(* The candidate's generation and processes are there, or gone.            *)
CandidateOK ==
  /\ pc \in UntouchedPcs \cup {"fail", "undo", "discard"} /\ ~mem.cand => cur \notin gens
  /\ pc \in {"rolledBack"} \cup MarkPcs => cur \notin gens
  /\ pc \in StoppedPcs \/ (pc = "fRoll" /\ ~cleanupErr) =>
       (mem.pid => cur \notin apps) /\ (mem.svc => service # cur)

PcOK == MemoryOK /\ EntriesOK /\ CandidateOK
JInv == AllDurableOK /\ ClosedOK /\ PcOK

-----------------------------------------------------------------------------
(* What the steps have in common.                                          *)

(* Processes stop, or nothing of what the disk says changes.               *)
LEMMA StillOK ==
  ASSUME JInv, UNCHANGED durable, apps' \subseteq apps
  PROVE  AllDurableOK' /\ ClosedOK'
BY DEF JInv, AllDurableOK, DurableOK, ClosedOK, Prior, Incomplete, durable

(* A step for the transaction under work leaves the others as they were:   *)
(* they are closed, so that only a generation of theirs could disturb them.*)
LEMMA OthersOK ==
  ASSUME IInv, JInv, cur # NoTxn, cur' = cur,
         gens' \subseteq gens \cup {cur}, apps' \subseteq apps \cup {cur, mem.prev},
         \A t \in Txn \ {cur} :
           journal'[t] = journal[t] /\ backup'[t] = backup[t] /\ commit' = commit,
         DurableOK(cur)', ~Incomplete(cur)' => Prior(state)'
  PROVE  AllDurableOK' /\ ClosedOK'
<1>1. cur \in Txn
  BY DEF IInv, TypeOK
<1>2. \A t \in Txn \ {cur} : journal[t].phase \in Terminal \cup Absent
  BY DEF IInv, HolderOK, Incomplete
<1>3. ASSUME NEW t \in Txn \ {cur} PROVE DurableOK(t)'
  <2>1. journal'[t] = journal[t] /\ backup'[t] = backup[t] /\ commit' = commit
    OBVIOUS
  <2>2. DurableOK(t) /\ journal[t].phase \notin PrePhases \cup WaitPhases \cup RollPhases
    BY <1>2, <1>3
       DEF JInv, AllDurableOK, PrePhases, WaitPhases, RollPhases, EarlyPhases,
           Terminal, Absent
  <2>3. t # mem.prev \/ journal[t].phase # "rolled-back"
    BY <2>2 DEF DurableOK, IInv, HolderOK
  <2> QED BY <2>1, <2>2, <2>3 DEF DurableOK, PrePhases, Recorded
<1>4. AllDurableOK'
  BY <1>1, <1>3 DEF AllDurableOK
<1>5. ClosedOK'
  BY <1>1 DEF ClosedOK, Incomplete
<1> QED BY <1>4, <1>5

(* A step that records journal m, with or without an error.                *)
LEMMA WriteOK ==
  ASSUME IInv, JInv, cur # NoTxn, NEW m \in Journals,
         \E d \in {m, journal[cur]} : journal' = [journal EXCEPT ![cur] = d],
         UNCHANGED <<state, gens, boot, backup, commit, cur>>, apps' \subseteq apps,
         m.prev = mem.prev, Recorded(m), cur \in commit,
         m.phase \in LivePhases \ WaitPhases,
         m.phase \in PrePhases => state = mem.prev /\ Prior(mem.prev),
         m.phase \in RollPhases /\ ~m.cand => cur \notin gens,
         m.phase = "rolled-back" => cur \notin gens /\ (m.pid => cur \notin apps),
         m.phase \in Terminal => Prior(state)
  PROVE  /\ AllDurableOK' /\ ClosedOK'
         /\ journal'[cur] \in {m, journal[cur]} /\ journal'[cur].prev = mem.prev
<1>1. cur \in Txn /\ journal \in [Txn -> Journals]
  BY DEF IInv, TypeOK
<1>2. DurableOK(cur) /\ journal[cur].prev = mem.prev
  BY <1>1 DEF JInv, AllDurableOK, PcOK, MemoryOK
<1>3. PICK d \in {m, journal[cur]} : journal' = [journal EXCEPT ![cur] = d]
  OBVIOUS
<1>4. journal'[cur] = d /\ \A t \in Txn \ {cur} : journal'[t] = journal[t]
  BY <1>1, <1>3
<1>5. DurableOK(cur)'
  <2>1. CASE d = m
    BY <1>1, <1>2, <1>4, <2>1, ApplyAssumption
       DEF DurableOK, Prior, LivePhases, Absent, WaitPhases
  <2>2. CASE d = journal[cur]
    BY <1>2, <1>4, <2>2 DEF DurableOK, Prior
  <2> QED BY <2>1, <2>2
<1>6. ~Incomplete(cur)' => Prior(state)'
  <2>1. CASE d = m
    BY <1>4, <2>1 DEF Incomplete, Prior, LivePhases, Absent
  <2>2. CASE d = journal[cur]
    <3>1. ~Incomplete(cur)' <=> ~Incomplete(cur)
      BY <1>4, <2>2 DEF Incomplete
    <3>2. ~Incomplete(cur) => Prior(state)
      BY DEF JInv, ClosedOK, IInv, HolderOK
    <3> QED BY <3>1, <3>2 DEF Prior
  <2> QED BY <2>1, <2>2
<1>7. AllDurableOK' /\ ClosedOK'
  BY <1>4, <1>5, <1>6, OthersOK
<1> QED BY <1>2, <1>4, <1>7

(* A step that only records the next phase of the transaction.             *)
LEMMA PhaseOK ==
  ASSUME IInv, JInv, cur # NoTxn, NEW from, NEW p \in LivePhases \ WaitPhases,
         NEW ok, NEW failed, Advance(from, p, ok, failed), cur \in commit,
         p \in RecordedPhases \/ ~mem.pid,
         p \in PrePhases => state = mem.prev /\ Prior(mem.prev),
         p \in RollPhases /\ ~mem.cand => cur \notin gens,
         p = "rolled-back" => cur \notin gens /\ (mem.pid => cur \notin apps),
         p \in Terminal => Prior(state)
  PROVE  /\ AllDurableOK' /\ ClosedOK'
         /\ mem'.prev = mem.prev /\ mem'.cand = mem.cand /\ mem'.pid = mem.pid
         /\ mem'.svc = mem.svc /\ mem'.claim = mem.claim /\ mem'.phase = p
         /\ Recorded(mem')
         /\ journal'[cur].prev = mem.prev
         /\ \/ pc' = ok /\ journal'[cur].phase = p
            \/ pc' = failed /\ journal'[cur].phase \in {p, journal[cur].phase}
         /\ UNCHANGED <<state, gens, boot, backup, commit, apps, service,
                        by, cur, idx, origin, cleanupErr, todo>>
<1>1. /\ mem' = Enter(p) /\ mem' \in Journals /\ mem'.phase = p
      /\ mem'.prev = mem.prev /\ mem'.cand = mem.cand
  BY JournalTyped, PhasesTyped DEF IInv, Advance, WriteJournal
<1>2. mem'.pid = mem.pid /\ mem'.svc = mem.svc /\ mem'.claim = mem.claim
  BY <1>1 DEF Enter, IInv, TypeOK, Journals
<1>3. Recorded(mem')
  BY <1>1, <1>2 DEF Recorded, JInv, PcOK, MemoryOK
<1>4. /\ \E d \in {mem', journal[cur]} : journal' = [journal EXCEPT ![cur] = d]
      /\ UNCHANGED <<state, gens, boot, backup, commit, apps, service,
                     by, cur, idx, origin, cleanupErr, todo>>
  BY <1>1 DEF Advance, WriteJournal, procs, servers
<1>5. AllDurableOK' /\ ClosedOK' /\ journal'[cur].prev = mem.prev
  BY <1>1, <1>2, <1>3, <1>4, WriteOK
<1>6. \/ pc' = ok /\ journal'[cur].phase = p
      \/ pc' = failed /\ journal'[cur].phase \in {p, journal[cur].phase}
  <2>1. cur \in Txn /\ journal \in [Txn -> Journals]
    BY DEF IInv, TypeOK
  <2> QED BY <1>1, <2>1 DEF Advance, WriteJournal, Goto
<1> QED BY <1>1, <1>2, <1>3, <1>4, <1>5, <1>6

(* A step that records nothing of the transaction: it changes entries or   *)
(* state only while the journal calls for their restoration, and lets the  *)
(* candidate appear only while the journal does not speak of its end.      *)
LEMMA TouchOK ==
  ASSUME IInv, JInv, cur # NoTxn, UNCHANGED <<journal, backup, commit, cur>>,
         gens' \subseteq gens \cup {cur}, apps' \subseteq apps \cup {cur, mem.prev},
         \/ UNCHANGED <<state, boot>>
         \/ Incomplete(cur) /\ journal[cur].phase \notin PrePhases,
         cur \in gens' => \/ cur \in gens
                         \/ journal[cur].phase \notin WaitPhases \cup RollPhases
                                                      \cup {"rolled-back"},
         cur \in apps' => cur \in apps \/ journal[cur].phase # "rolled-back"
  PROVE  AllDurableOK' /\ ClosedOK'
<1>1. cur \in Txn
  BY DEF IInv, TypeOK
<1>2. DurableOK(cur)
  BY <1>1 DEF JInv, AllDurableOK
<1>3. DurableOK(cur)'
  BY <1>2 DEF DurableOK, Prior
<1>4. ~Incomplete(cur)' => Prior(state)'
  <2>1. Incomplete(cur)' <=> Incomplete(cur)
    BY DEF Incomplete
  <2>2. ~Incomplete(cur) => Prior(state)
    BY DEF JInv, ClosedOK, IInv, HolderOK
  <2> QED BY <2>1, <2>2 DEF Prior
<1> QED BY <1>3, <1>4, OthersOK

(* Once the candidate is copied the journal in memory names it.            *)
LEMMA CopiedCandidate ==
  ASSUME IInv, pc \in CopiedPcs
  PROVE  mem.cand /\ cur \in gens
BY DEF IInv, StepsOK

-----------------------------------------------------------------------------
(* ApplyPrepared before it switches install-state.json.                    *)
LEMMA BeforeSwitchKeeps ==
  ASSUME IInv, JInv, cur # NoTxn, BeforeSwitch
  PROVE  JInv'
<1> USE DEF UntouchedPcs, IntentPcs, ReplacedPcs, AfterSwitchPcs, EarlyPcs, ExaminedPcs,
            RestorePcs, MarkPcs, StoppedPcs, At, Goto
<1>1. CASE AwaitCommit \/ ExitTimeout \/ StepError \/ StopParticipants
  <2>1. UNCHANGED <<durable, apps, local>>
    BY <1>1
       DEF AwaitCommit, ExitTimeout, StepError, StopParticipants, procs
  <2>2. AllDurableOK' /\ ClosedOK'
    BY <2>1, StillOK
  <2>3. \/ pc = "commit" /\ pc' \in {"exit", "return"} /\ (pc' = "exit" => cur \in commit)
        \/ pc = "exit" /\ pc' = "return"
        \/ pc \in {"child", "stage", "copy", "launch", "svcLaunch", "participants"}
             /\ pc' = "fail"
        \/ pc = "participants" /\ pc' = "stopped"
    BY <1>1 DEF AwaitCommit, ExitTimeout, StepError, StopParticipants
  <2>4. MemoryOK'
    BY <2>1, <2>3 DEF JInv, PcOK, MemoryOK, durable, local, Recorded, Incomplete
  <2>5. EntriesOK'
    BY <2>1, <2>3 DEF JInv, PcOK, EntriesOK, durable, local
  <2>6. CandidateOK'
    BY <2>1, <2>3, CopiedCandidate DEF CopiedPcs, SavedPcs, JInv, PcOK, CandidateOK, durable, local
  <2> QED BY <2>2, <2>4, <2>5, <2>6 DEF JInv, PcOK
<1>2. CASE AwaitExit \/ StopIntent \/ ParticipantsStopped \/ CopyIntent \/ GenerationReady
  <2>1. PICK from \in {"exit", "child", "stopped", "stage", "generation"},
             p \in {"current-exited", "stopping-participants", "participants-stopped",
                    "copying", "generation-ready"},
             ok \in {"child", "participants", "stage", "copy", "backup"} :
          /\ Advance(from, p, ok, "fail")
          /\ ok = "copy" => p = "copying"
    BY <1>2 DEF AwaitExit, StopIntent, ParticipantsStopped, CopyIntent, GenerationReady
  <2>2. pc = from
    BY <2>1 DEF Advance
  <2>3. cur \in commit /\ ~mem.pid /\ state = mem.prev /\ Prior(mem.prev)
    BY <2>1, <2>2
       DEF JInv, PcOK, MemoryOK, Recorded, AllDurableOK, DurableOK, IInv, TypeOK,
           PrePhases, WaitPhases, EarlyPhases, RecordedPhases, RollPhases
  <2>4. p \in LivePhases \ WaitPhases /\ p \in PrePhases /\ p \notin RollPhases
          /\ p # "rolled-back" /\ p \notin Terminal /\ p \notin Absent
    BY <2>1, PhasesTyped
       DEF WaitPhases, PrePhases, EarlyPhases, RollPhases, Terminal, Absent
  <2>5. /\ AllDurableOK' /\ ClosedOK'
        /\ mem'.prev = mem.prev /\ mem'.cand = mem.cand /\ mem'.pid = mem.pid
        /\ mem'.svc = mem.svc /\ mem'.claim = mem.claim /\ mem'.phase = p
        /\ Recorded(mem')
        /\ journal'[cur].prev = mem.prev
        /\ \/ pc' = ok /\ journal'[cur].phase = p
           \/ pc' = "fail" /\ journal'[cur].phase \in {p, journal[cur].phase}
        /\ UNCHANGED <<state, gens, boot, backup, commit, apps, service,
                       by, cur, idx, origin, cleanupErr, todo>>
    BY <2>1, <2>3, <2>4, PhaseOK
  <2>6. MemoryOK'
    BY <2>1, <2>2, <2>3, <2>4, <2>5 DEF JInv, PcOK, MemoryOK
  <2>7. EntriesOK'
    BY <2>1, <2>2, <2>5 DEF JInv, PcOK, EntriesOK
  <2>8. CandidateOK'
    BY <2>1, <2>2, <2>5 DEF JInv, PcOK, CandidateOK
  <2> QED BY <2>5, <2>6, <2>7, <2>8 DEF JInv, PcOK
<1>3. CASE CreateGeneration
  <2>1. /\ pc = "copy" /\ pc' = "generation" /\ gens' = gens \cup {cur}
        /\ mem'.cand /\ mem'.prev = mem.prev /\ mem'.phase = mem.phase
        /\ mem'.pid = mem.pid /\ mem'.svc = mem.svc /\ mem'.claim = mem.claim
        /\ UNCHANGED <<state, boot, journal, backup, commit, procs, cur, idx,
                       origin, cleanupErr>>
    BY <1>3 DEF CreateGeneration, IInv, TypeOK, Journals
  <2>2. journal[cur].phase = "copying" /\ mem.phase = "copying"
    BY <2>1 DEF JInv, PcOK, MemoryOK
  <2>3. AllDurableOK' /\ ClosedOK'
    BY <2>1, <2>2, TouchOK DEF WaitPhases, RollPhases, procs
  <2>4. MemoryOK'
    BY <2>1, <2>2 DEF JInv, PcOK, MemoryOK, Recorded
  <2>5. EntriesOK'
    BY <2>1 DEF JInv, PcOK, EntriesOK
  <2>6. CandidateOK'
    BY <2>1 DEF CandidateOK
  <2> QED BY <2>3, <2>4, <2>5, <2>6 DEF JInv, PcOK
<1>4. CASE BackupEntries
  <2>1. /\ pc = "backup" /\ pc' \in {"intent", "discard"}
        /\ backup' \in {backup, [backup EXCEPT ![cur] = boot]}
        /\ UNCHANGED <<state, gens, boot, journal, commit, procs, local>>
    BY <1>4 DEF BackupEntries
  <2>2. cur \in Txn /\ cur \in commit /\ mem.cand
    BY <2>1, CopiedCandidate DEF CopiedPcs, SavedPcs, IInv, TypeOK, JInv, PcOK, MemoryOK
  <2>3. DurableOK(cur) /\ journal[cur].phase \in PrePhases /\ journal[cur].prev = mem.prev
    BY <2>1, <2>2 DEF JInv, AllDurableOK, PcOK, MemoryOK
  <2>4. journal[cur].phase # "none"
    BY <2>3 DEF PrePhases, WaitPhases, EarlyPhases
  <2>5. \A t \in Txn \ {cur} : backup'[t] = backup[t]
    BY <2>1, <2>2 DEF IInv, TypeOK
  <2>6. backup'[cur] # NoBackup => \A x \in Checked : backup'[cur][x] = journal[cur].prev
    BY <2>1, <2>2, <2>3 DEF IInv, TypeOK, DurableOK, Prior
  <2>7. DurableOK(cur)'
    BY <2>1, <2>3, <2>4, <2>6 DEF DurableOK, Prior, procs, local
  <2>8. Incomplete(cur)'
    BY <2>1, <2>3
       DEF Incomplete, Terminal, Absent, PrePhases, WaitPhases, EarlyPhases, local
  <2>9. AllDurableOK' /\ ClosedOK'
    BY <2>1, <2>5, <2>7, <2>8, OthersOK DEF local, procs
  <2>10. MemoryOK'
    BY <2>1, <2>2 DEF JInv, PcOK, MemoryOK, Recorded, local
  <2>11. EntriesOK'
    BY <2>1 DEF JInv, PcOK, EntriesOK, local
  <2>12. CandidateOK'
    BY <2>1, <2>2 DEF JInv, PcOK, CandidateOK, local, procs, servers
  <2> QED BY <2>9, <2>10, <2>11, <2>12 DEF JInv, PcOK
<1>5. CASE BootstrapIntent \/ BootstrapReady \/ StateIntent
  <2>1. PICK from \in {"intent", "replaced", "ready"}, p \in IntentPhases,
             ok \in {"entries", "ready", "switch"}, failed \in {"discard", "undo", "fail"} :
          /\ Advance(from, p, ok, failed)
          /\ from = "intent" => ok = "entries" /\ failed = "discard"
          /\ from # "intent" => ok # "entries"
          /\ from = "replaced" => ok = "ready"
    BY <1>5 DEF BootstrapIntent, BootstrapReady, StateIntent, IntentPhases
  <2>2. pc = from
    BY <2>1 DEF Advance
  <2>3. cur \in commit /\ ~mem.pid /\ mem.cand
    BY <2>1, <2>2, CopiedCandidate
       DEF CopiedPcs, SavedPcs, JInv, PcOK, MemoryOK, Recorded,
           PrePhases, WaitPhases, EarlyPhases, RecordedPhases, RollPhases, IntentPhases
  <2>4. p \in LivePhases \ WaitPhases /\ p \notin PrePhases /\ p \notin RollPhases
          /\ p # "rolled-back" /\ p \notin Terminal
    BY <2>1, PhasesTyped
       DEF WaitPhases, PrePhases, EarlyPhases, RollPhases, Terminal, Absent, IntentPhases
  <2>5. /\ AllDurableOK' /\ ClosedOK'
        /\ mem'.prev = mem.prev /\ mem'.cand = mem.cand /\ mem'.pid = mem.pid
        /\ mem'.svc = mem.svc /\ mem'.claim = mem.claim /\ mem'.phase = p
        /\ Recorded(mem')
        /\ journal'[cur].prev = mem.prev
        /\ \/ pc' = ok /\ journal'[cur].phase = p
           \/ pc' = failed /\ journal'[cur].phase \in {p, journal[cur].phase}
        /\ UNCHANGED <<state, gens, boot, backup, commit, apps, service,
                       by, cur, idx, origin, cleanupErr, todo>>
    BY <2>1, <2>3, <2>4, PhaseOK
  <2>6. MemoryOK'
    BY <2>1, <2>2, <2>3, <2>4, <2>5 DEF JInv, PcOK, MemoryOK
  <2>7. EntriesOK'
    <3>1. pc' = "entries" => idx = 1
      BY <2>1, <2>2, <2>5 DEF JInv, PcOK, EntriesOK
    <3>2. \A x \in Targets : ~(x < 1)
      BY DEF Targets
    <3> QED BY <2>1, <2>2, <2>5, <3>1, <3>2 DEF JInv, PcOK, EntriesOK
  <2>8. CandidateOK'
    BY <2>1, <2>2, <2>3, <2>5 DEF JInv, PcOK, CandidateOK
  <2> QED BY <2>5, <2>6, <2>7, <2>8 DEF JInv, PcOK
<1>6. CASE ReplaceEntry
  <2>1. /\ pc = "entries" /\ cur \in Gen /\ idx \in Targets /\ boot \in [Targets -> Gen]
        /\ UNCHANGED <<state, gens, journal, backup, commit, procs, cur, mem, cleanupErr>>
    BY <1>6, CopiedCandidate
       DEF ReplaceEntry, IInv, TypeOK, Gen, CopiedPcs, SavedPcs
  <2>2. \/ /\ boot' = [boot EXCEPT ![idx] = cur]
           /\ \/ idx = Entries /\ pc' = "replaced" /\ idx' = 1
              \/ idx < Entries /\ pc' = "entries" /\ idx' = idx + 1
        \/ pc' = "undo" /\ idx' = 1
    BY <1>6 DEF ReplaceEntry, SetEntry, NextEntry
  <2>3. journal[cur].phase \in IntentPhases
    BY <2>1 DEF JInv, PcOK, MemoryOK
  <2>4. Incomplete(cur) /\ journal[cur].phase \notin PrePhases
    BY <2>3
       DEF IntentPhases, Incomplete, Terminal, Absent, PrePhases, WaitPhases, EarlyPhases
  <2>5. AllDurableOK' /\ ClosedOK'
    BY <2>1, <2>4, TouchOK DEF procs
  <2>6. MemoryOK'
    BY <2>1, <2>2, <2>3 DEF JInv, PcOK, MemoryOK, Recorded
  <2>7. EntriesOK'
    <3>1. pc' \in {"entries", "replaced"} => \A x \in Targets : x <= idx => boot'[x] = cur
      <4>1. \A x \in Targets : x < idx => boot[x] = cur
        BY <2>1 DEF JInv, PcOK, EntriesOK
      <4> QED BY <2>1, <2>2, <4>1, ApplyAssumption DEF Targets
    <3>2. pc' = "entries" => \A x \in Targets : x < idx' => boot'[x] = cur
      BY <2>1, <2>2, <3>1, ApplyAssumption DEF Targets
    <3>3. pc' = "replaced" => \A x \in Targets : boot'[x] = cur
      BY <2>1, <2>2, <3>1, ApplyAssumption DEF Targets
    <3> QED BY <2>1, <2>2, <3>2, <3>3 DEF EntriesOK
  <2>8. CandidateOK'
    BY <2>1, <2>2, CopiedCandidate DEF CopiedPcs, SavedPcs, CandidateOK
  <2> QED BY <2>5, <2>6, <2>7, <2>8 DEF JInv, PcOK
<1>7. CASE UndoEntry
  <2>1. /\ pc = "undo" /\ pc' \in {"undo", "discard", "fail"}
        /\ pc' # "undo" => idx' = 1
        /\ UNCHANGED <<state, gens, journal, backup, commit, procs, cur, mem, cleanupErr>>
    BY <1>7 DEF UndoEntry, NextEntry
  <2>2. journal[cur].phase \in IntentPhases
    BY <2>1 DEF JInv, PcOK, MemoryOK
  <2>3. Incomplete(cur) /\ journal[cur].phase \notin PrePhases
    BY <2>2
       DEF IntentPhases, Incomplete, Terminal, Absent, PrePhases, WaitPhases, EarlyPhases
  <2>4. AllDurableOK' /\ ClosedOK'
    BY <2>1, <2>3, TouchOK DEF procs
  <2>5. MemoryOK'
    BY <2>1, <2>2 DEF JInv, PcOK, MemoryOK, Recorded
  <2>6. EntriesOK'
    BY <2>1 DEF EntriesOK
  <2>7. CandidateOK'
    BY <2>1 DEF JInv, PcOK, CandidateOK
  <2> QED BY <2>4, <2>5, <2>6, <2>7 DEF JInv, PcOK
<1>8. CASE DiscardGeneration
  <2>1. /\ pc = "discard" /\ pc' = "fail" /\ gens' \in {gens, gens \ {cur}}
        /\ UNCHANGED <<state, boot, journal, backup, commit, procs, local>>
    BY <1>8 DEF DiscardGeneration
  <2>2. AllDurableOK' /\ ClosedOK'
    BY <2>1, TouchOK DEF procs, local
  <2>3. MemoryOK'
    BY <2>1 DEF JInv, PcOK, MemoryOK, Recorded, local
  <2>4. EntriesOK'
    BY <2>1 DEF JInv, PcOK, EntriesOK, local
  <2>5. CandidateOK'
    BY <2>1 DEF JInv, PcOK, CandidateOK, local
  <2> QED BY <2>2, <2>3, <2>4, <2>5 DEF JInv, PcOK
<1> QED BY <1>1, <1>2, <1>3, <1>4, <1>5, <1>6, <1>7, <1>8 DEF BeforeSwitch

-----------------------------------------------------------------------------
(* ApplyPrepared from the switch to its result.                            *)
LEMMA FromSwitchKeeps ==
  ASSUME IInv, JInv, cur # NoTxn, FromSwitch
  PROVE  JInv'
<1> USE DEF UntouchedPcs, IntentPcs, ReplacedPcs, AfterSwitchPcs, EarlyPcs, ExaminedPcs,
            RestorePcs, MarkPcs, StoppedPcs, At, Goto
<1>1. CASE SwitchState
  <2>1. /\ pc = "switch" /\ UNCHANGED <<gens, boot, journal, backup, commit, procs, local>>
        /\ \/ state' = cur /\ pc' = "switched"
           \/ state' \in {state, cur} /\ pc' = "undo"
    BY <1>1 DEF SwitchState
  <2>2. mem.phase \in IntentPhases /\ journal[cur].phase \in IntentPhases /\ mem.cand
    BY <2>1, CopiedCandidate DEF CopiedPcs, SavedPcs, JInv, PcOK, MemoryOK
  <2>3. Incomplete(cur) /\ journal[cur].phase \notin PrePhases
    BY <2>2
       DEF IntentPhases, Incomplete, Terminal, Absent, PrePhases, WaitPhases, EarlyPhases
  <2>4. AllDurableOK' /\ ClosedOK'
    BY <2>1, <2>3, TouchOK DEF procs, local
  <2>5. MemoryOK'
    BY <2>1, <2>2 DEF JInv, PcOK, MemoryOK, Recorded, local
  <2>6. EntriesOK'
    BY <2>1 DEF JInv, PcOK, EntriesOK, local
  <2>7. CandidateOK'
    BY <2>1, <2>2 DEF CandidateOK, local
  <2> QED BY <2>4, <2>5, <2>6, <2>7 DEF JInv, PcOK
<1>2. CASE \/ CandidateReady \/ CandidateFails \/ LaunchService \/ WriteReceipt
           \/ ServiceReady \/ ServiceFails
  <2>1. UNCHANGED <<durable, local>> /\ apps' \subseteq apps
    BY <1>2
       DEF CandidateReady, CandidateFails, LaunchService, WriteReceipt, ServiceReady,
           ServiceFails, procs, servers
  <2>2. AllDurableOK' /\ ClosedOK'
    BY <2>1, StillOK
  <2>3. \/ pc = "await" /\ pc' = "svcLaunch" /\ mem.claim
        \/ pc = "svcLaunch" /\ pc' = "svcRecord"
        \/ pc \in {"await", "kill", "svcReceipt", "svcAwait", "svcKill"}
             /\ pc' \in {"complete", "fail", "svcAwait", "svcKill"}
    BY <1>2
       DEF CandidateReady, CandidateFails, LaunchService, WriteReceipt, ServiceReady,
           ServiceFails
  <2>4. MemoryOK'
    BY <2>1, <2>3 DEF JInv, PcOK, MemoryOK, durable, local, Recorded, Incomplete
  <2>5. EntriesOK'
    BY <2>1, <2>3 DEF JInv, PcOK, EntriesOK, durable, local
  <2>6. CandidateOK'
    BY <2>1, <2>3, CopiedCandidate
       DEF CopiedPcs, SavedPcs, JInv, PcOK, CandidateOK, durable, local
  <2> QED BY <2>2, <2>4, <2>5, <2>6 DEF JInv, PcOK
<1>3. CASE Activated \/ Complete
  <2>1. PICK from \in {"switched", "complete"}, p \in {"activated", "complete"},
             ok \in {"launch", "applied"} :
          /\ Advance(from, p, ok, "fail")
          /\ from = "switched" <=> p = "activated"
          /\ ok = "launch" <=> p = "activated"
    BY <1>3 DEF Activated, Complete
  <2>2. pc = from
    BY <2>1 DEF Advance
  <2>3. /\ cur \in commit /\ mem.cand
        /\ p = "activated" => ~mem.pid
        /\ \A x \in Targets : boot[x] = cur
        /\ state = cur
    BY <2>1, <2>2, CopiedCandidate
       DEF CopiedPcs, SavedPcs, JInv, PcOK, MemoryOK, EntriesOK, Recorded,
           IntentPhases, RecordedPhases, RollPhases
  <2>4. /\ p \in LivePhases \ WaitPhases /\ p \notin PrePhases /\ p \notin RollPhases
        /\ p # "rolled-back"
        /\ p = "complete" => p \in RecordedPhases
    BY <2>1, PhasesTyped
       DEF WaitPhases, PrePhases, EarlyPhases, RollPhases, RecordedPhases
  <2>5. Prior(state)
    BY <2>3 DEF Prior, Checked
  <2>6. /\ AllDurableOK' /\ ClosedOK'
        /\ mem'.prev = mem.prev /\ mem'.cand = mem.cand /\ mem'.pid = mem.pid
        /\ mem'.svc = mem.svc /\ mem'.claim = mem.claim /\ mem'.phase = p
        /\ Recorded(mem')
        /\ journal'[cur].prev = mem.prev
        /\ \/ pc' = ok /\ journal'[cur].phase = p
           \/ pc' = "fail" /\ journal'[cur].phase \in {p, journal[cur].phase}
        /\ UNCHANGED <<state, gens, boot, backup, commit, apps, service,
                       by, cur, idx, origin, cleanupErr, todo>>
    BY <2>1, <2>3, <2>4, <2>5, PhaseOK
  <2>7. MemoryOK'
    BY <2>1, <2>2, <2>3, <2>4, <2>6 DEF MemoryOK
  <2>8. EntriesOK'
    BY <2>1, <2>2, <2>6 DEF JInv, PcOK, EntriesOK
  <2>9. CandidateOK'
    BY <2>1, <2>2, <2>3, <2>6 DEF CandidateOK
  <2> QED BY <2>6, <2>7, <2>8, <2>9 DEF JInv, PcOK
<1>4. CASE LaunchCandidate
  <2>1. /\ pc = "launch" /\ pc' \in {"record", "fail"} /\ apps' \subseteq apps \cup {cur}
        /\ UNCHANGED <<durable, servers, local>>
    BY <1>4 DEF LaunchCandidate
  <2>2. journal[cur].phase = "activated"
    BY <2>1 DEF JInv, PcOK, MemoryOK
  <2>3. AllDurableOK' /\ ClosedOK'
    BY <2>1, <2>2, TouchOK DEF durable, local
  <2>4. MemoryOK'
    BY <2>1, <2>2 DEF JInv, PcOK, MemoryOK, Recorded, durable, local
  <2>5. EntriesOK'
    BY <2>1 DEF JInv, PcOK, EntriesOK, durable, local
  <2>6. CandidateOK'
    BY <2>1, CopiedCandidate DEF CopiedPcs, SavedPcs, CandidateOK, durable, local
  <2> QED BY <2>3, <2>4, <2>5, <2>6 DEF JInv, PcOK
<1>5. CASE RecordCandidate \/ RecordService
  <2>1. /\ pc \in {"record", "svcRecord"}
        /\ \E d \in {mem', journal[cur]} : journal' = [journal EXCEPT ![cur] = d]
        /\ mem' \in Journals /\ mem'.prev = mem.prev /\ mem'.cand = mem.cand
        /\ mem'.claim = mem.claim
        /\ UNCHANGED <<state, gens, boot, backup, commit, procs, by, cur, idx,
                       cleanupErr>>
        /\ \/ /\ pc = "record" /\ mem'.phase = "candidate-launched"
              /\ mem'.pid /\ mem'.svc = mem.svc /\ pc' \in {"await", "kill"}
           \/ /\ pc = "svcRecord" /\ mem'.phase = mem.phase
              /\ mem'.svc /\ mem'.pid = mem.pid /\ pc' \in {"svcReceipt", "svcKill"}
    BY <1>5, PhasesTyped
       DEF RecordCandidate, RecordService, WriteJournal, IInv, TypeOK, Journals
  <2>2. /\ cur \in commit /\ mem.cand /\ Recorded(mem)
        /\ pc = "svcRecord" =>
             mem.pid /\ mem.claim /\ mem.phase = "candidate-launched"
    BY <2>1, CopiedCandidate
       DEF CopiedPcs, SavedPcs, JInv, PcOK, MemoryOK, IInv, HolderOK
  <2>3. mem'.phase = "candidate-launched"
    BY <2>1, <2>2
  <2>4. Recorded(mem')
    BY <2>1, <2>2, <2>3 DEF Recorded, RecordedPhases
  <2>5. /\ "candidate-launched" \in LivePhases \ (WaitPhases \cup PrePhases)
        /\ "candidate-launched" \notin RollPhases \cup Terminal
    BY PhasesTyped DEF WaitPhases, PrePhases, EarlyPhases, RollPhases, Terminal
  <2>6. /\ AllDurableOK' /\ ClosedOK' /\ journal'[cur].prev = mem.prev
    BY <2>1, <2>2, <2>3, <2>4, <2>5, WriteOK DEF procs
  <2>7. MemoryOK'
    BY <2>1, <2>2, <2>3, <2>4, <2>6 DEF MemoryOK
  <2>8. EntriesOK'
    BY <2>1 DEF JInv, PcOK, EntriesOK
  <2>9. CandidateOK'
    BY <2>1, <2>2 DEF CandidateOK
  <2> QED BY <2>6, <2>7, <2>8, <2>9 DEF JInv, PcOK
<1>6. CASE ReportApplied
  <2>1. /\ pc = "applied" /\ pc' = "return"
        /\ UNCHANGED <<state, gens, boot, journal, backup, commit, procs, local>>
    BY <1>6 DEF ReportApplied
  <2>2. AllDurableOK' /\ ClosedOK'
    BY <2>1, TouchOK DEF procs, local
  <2>3. PcOK'
    BY <2>1 DEF JInv, PcOK, MemoryOK, EntriesOK, CandidateOK, Recorded, local
  <2> QED BY <2>2, <2>3 DEF JInv
<1> QED BY <1>1, <1>2, <1>3, <1>4, <1>5, <1>6 DEF FromSwitch

-----------------------------------------------------------------------------
(* recoverFailure.                                                         *)
LEMMA RecoverFailureKeeps ==
  ASSUME IInv, JInv, cur # NoTxn, RecoverFailure
  PROVE  JInv'
<1> USE DEF UntouchedPcs, IntentPcs, ReplacedPcs, AfterSwitchPcs, EarlyPcs, ExaminedPcs,
            RestorePcs, MarkPcs, StoppedPcs, At, Goto
<1>1. CASE RollbackIntent
  <2>1. /\ pc = "fail" /\ pc' = "fStop"
        /\ mem' = Enter("rolling-back") /\ mem' \in Journals
        /\ mem'.phase = "rolling-back" /\ mem'.prev = mem.prev /\ mem'.cand = mem.cand
        /\ mem'.pid = mem.pid /\ mem'.svc = mem.svc /\ mem'.claim = mem.claim
        /\ UNCHANGED <<state, gens, boot, backup, commit, procs, cur, idx>>
    BY <1>1, JournalTyped, PhasesTyped
       DEF RollbackIntent, WriteJournal, IInv, TypeOK, Journals, Enter
  <2>2. \E d \in {mem', journal[cur]} : journal' = [journal EXCEPT ![cur] = d]
    BY <1>1, <2>1 DEF RollbackIntent, WriteJournal
  <2>3. ~cleanupErr' => journal'[cur].phase = "rolling-back"
    <3>1. cur \in Txn /\ journal \in [Txn -> Journals] /\ faults \in Nat
      BY ApplyAssumption DEF IInv, TypeOK
    <3>2. CASE faults' = faults
      BY <1>1, <2>1, <3>1, <3>2 DEF RollbackIntent, WriteJournal, Fault
    <3>3. CASE faults' # faults
      <4>1. cleanupErr' = (faults' # faults)
        BY <1>1 DEF RollbackIntent
      <4> QED BY <3>3, <4>1, Zenon
    <3> QED BY <3>2, <3>3
  <2>4. cur \in commit /\ Recorded(mem) /\ (~mem.cand => cur \notin gens)
    BY <2>1 DEF JInv, PcOK, MemoryOK, CandidateOK
  <2>5. /\ "rolling-back" \in LivePhases \ (WaitPhases \cup PrePhases)
        /\ "rolling-back" \in RecordedPhases /\ "rolling-back" \notin Terminal
    BY PhasesTyped
       DEF WaitPhases, PrePhases, EarlyPhases, RollPhases, RecordedPhases, Terminal
  <2>6. Recorded(mem')
    BY <2>1, <2>4, <2>5 DEF Recorded
  <2>7. AllDurableOK' /\ ClosedOK' /\ journal'[cur].prev = mem.prev
    BY <2>1, <2>2, <2>4, <2>5, <2>6, WriteOK DEF procs
  <2>8. MemoryOK'
    BY <2>1, <2>3, <2>4, <2>6, <2>7 DEF MemoryOK
  <2>9. EntriesOK'
    BY <2>1 DEF JInv, PcOK, EntriesOK
  <2>10. CandidateOK'
    BY <2>1 DEF CandidateOK
  <2> QED BY <2>7, <2>8, <2>9, <2>10 DEF JInv, PcOK
<1>2. CASE StopForRollback
  <2>1. /\ pc = "fStop" /\ pc' = "fRoll"
        /\ UNCHANGED <<durable, cur, mem, idx>> /\ apps' \subseteq apps
        /\ cleanupErr' \/ cleanupErr' = cleanupErr
    BY <1>2 DEF StopForRollback
  <2>2. AllDurableOK' /\ ClosedOK'
    BY <2>1, StillOK
  <2>3. MemoryOK'
    BY <2>1 DEF JInv, PcOK, MemoryOK, durable, Recorded
  <2>4. EntriesOK'
    BY <2>1 DEF JInv, PcOK, EntriesOK, durable
  <2>5. CandidateOK'
    <3>1. cur \in Txn /\ cur # NoGen /\ (mem.svc => mem.claim)
      BY ApplyAssumption DEF IInv, TypeOK, JInv, PcOK, MemoryOK, Recorded
    <3>2. ~cleanupErr' => (mem.pid => cur \notin apps') /\ (mem.svc => service' # cur)
      BY <1>2, <3>1 DEF StopForRollback
    <3> QED BY <2>1, <3>2 DEF CandidateOK
  <2> QED BY <2>2, <2>3, <2>4, <2>5 DEF JInv, PcOK
<1>3. CASE ChooseRollback
  <2>1. /\ pc = "fRoll" /\ pc' \in {"fResult", "restore", "fDrop", "fVerify"}
        /\ pc' = "restore" => ~cleanupErr
        /\ UNCHANGED <<durable, procs, cur, mem, cleanupErr>> /\ idx' = 1
    BY <1>3 DEF ChooseRollback
  <2>2. AllDurableOK' /\ ClosedOK'
    BY <2>1, StillOK DEF procs
  <2>3. MemoryOK'
    BY <2>1
       DEF JInv, PcOK, MemoryOK, durable, Recorded, Incomplete, Terminal, Absent,
           PrePhases, WaitPhases, EarlyPhases
  <2>4. EntriesOK'
    <3>1. \A x \in Targets : ~(x < 1)
      BY DEF Targets
    <3> QED BY <2>1, <3>1 DEF EntriesOK, durable, Checked
  <2>5. CandidateOK'
    BY <2>1 DEF JInv, PcOK, CandidateOK, durable, procs, servers
  <2> QED BY <2>2, <2>3, <2>4, <2>5 DEF JInv, PcOK
<1>4. CASE \/ DropUnused \/ VerifyRestored \/ RelaunchPrevious \/ RelaunchPreviousService
           \/ ReportFailure
  <2>1. /\ pc \in {"fDrop", "fVerify", "fRelaunch", "fService", "fResult"}
        /\ pc' \in {"fVerify", "fRelaunch", "fService", "fResult", "return"}
        /\ UNCHANGED <<state, boot, journal, backup, commit, cur, mem, idx>>
        /\ gens' \subseteq gens /\ apps' \subseteq apps \cup {mem.prev}
    BY <1>4
       DEF DropUnused, VerifyRestored, RelaunchPrevious, RelaunchPreviousService,
           ReportFailure, RelaunchPrior, RelaunchService, durable, local, procs
  <2>2. mem.prev # cur
    BY DEF IInv, HolderOK
  <2>3. AllDurableOK' /\ ClosedOK'
    BY <2>1, <2>2, TouchOK
  <2>4. MemoryOK'
    BY <2>1 DEF JInv, PcOK, MemoryOK, Recorded
  <2>5. EntriesOK'
    BY <2>1 DEF JInv, PcOK, EntriesOK
  <2>6. CandidateOK'
    BY <2>1 DEF CandidateOK
  <2> QED BY <2>3, <2>4, <2>5, <2>6 DEF JInv, PcOK
<1> QED BY <1>1, <1>2, <1>3, <1>4 DEF RecoverFailure

-----------------------------------------------------------------------------
(* rollbackJournal, of either caller.                                      *)
LEMMA RollbackJournalKeeps ==
  ASSUME IInv, JInv, cur # NoTxn, RollbackJournal
  PROVE  JInv'
<1> USE DEF UntouchedPcs, IntentPcs, ReplacedPcs, AfterSwitchPcs, EarlyPcs, ExaminedPcs,
            RestorePcs, MarkPcs, StoppedPcs, At, Goto
<1>1. pc \in RestorePcs /\ pc' \in RestorePcs \cup {"return", "fResult", "mark", "fVerify"}
        /\ UNCHANGED <<procs, cur, mem, commit, backup>>
  BY DEF RollbackJournal, RestoreEntry, RestoreState, DropGeneration, RecordRolledBack,
         RollbackError, NextEntry
<1>2. Incomplete(cur) /\ journal[cur].phase \notin PrePhases /\ cur \in commit
        /\ cur \in Txn /\ journal[cur].prev = mem.prev
  BY <1>1 DEF JInv, PcOK, MemoryOK, IInv, TypeOK
<1>3. CASE RestoreEntry
  <2>1. /\ pc = "restore" /\ UNCHANGED <<state, gens, journal>>
        /\ \/ /\ boot' = [boot EXCEPT ![idx] = backup[cur][idx]]
              /\ \/ idx = Entries /\ pc' = "priorState" /\ idx' = 1
                 \/ idx < Entries /\ pc' = "restore" /\ idx' = idx + 1
           \/ pc' \in {"return", "fResult"} /\ idx' = 1
    BY <1>3 DEF RestoreEntry, SetEntry, NextEntry, RollbackError
  <2>2. AllDurableOK' /\ ClosedOK'
    BY <1>1, <1>2, <2>1, TouchOK DEF procs
  <2>3. MemoryOK'
    BY <1>1, <1>2, <2>1 DEF JInv, PcOK, MemoryOK, Recorded, Incomplete
  <2>4. EntriesOK'
    <3>1. \A x \in Checked : backup[cur][x] = mem.prev
      BY <1>2, <2>1 DEF JInv, AllDurableOK, DurableOK, IInv, StepsOK
    <3>2. \A x \in Checked : x < idx => boot[x] = mem.prev
      BY <2>1 DEF JInv, PcOK, EntriesOK
    <3>3. idx \in Targets /\ boot \in [Targets -> Gen] /\ Checked \subseteq Targets
      BY DEF IInv, TypeOK, Checked
    <3>4. pc' \in {"restore", "priorState"}
            => \A x \in Checked : x <= idx => boot'[x] = mem.prev
      <4>1. ASSUME pc' \in {"restore", "priorState"}, NEW x \in Checked, x <= idx
            PROVE  boot'[x] = mem.prev
        <5>1. boot' = [boot EXCEPT ![idx] = backup[cur][idx]]
          BY <2>1, <4>1
        <5>2. CASE x = idx
          BY <3>1, <3>3, <4>1, <5>1, <5>2
        <5>3. CASE x # idx
          <6>1. x < idx
            BY <3>3, <4>1, <5>3, ApplyAssumption DEF Targets
          <6> QED BY <3>2, <3>3, <4>1, <5>1, <5>3, <6>1
        <5> QED BY <5>2, <5>3
      <4> QED BY <4>1
    <3>5. ASSUME pc' = "restore", NEW x \in Checked, x < idx' PROVE boot'[x] = mem.prev
      <4>1. idx' = idx + 1
        BY <2>1, <3>5
      <4>2. x <= idx
        BY <3>3, <3>5, <4>1, ApplyAssumption DEF Targets
      <4> QED BY <3>4, <3>5, <4>2
    <3>6. ASSUME pc' = "priorState", NEW x \in Checked PROVE boot'[x] = mem.prev
      <4>1. idx = Entries
        BY <2>1, <3>6
      <4>2. x <= idx
        BY <3>3, <3>6, <4>1, ApplyAssumption DEF Targets
      <4> QED BY <3>4, <3>6, <4>2
    <3> QED BY <1>1, <2>1, <3>5, <3>6 DEF EntriesOK, Prior
  <2>5. CandidateOK'
    BY <1>1, <2>1 DEF JInv, PcOK, CandidateOK, procs, servers
  <2> QED BY <2>2, <2>3, <2>4, <2>5 DEF JInv, PcOK
<1>4. CASE RestoreState \/ DropGeneration
  <2>1. /\ UNCHANGED <<boot, journal, idx>> /\ gens' \subseteq gens
        /\ \/ /\ pc = "priorState" /\ gens' = gens
              /\ \/ pc' = "dropGen" /\ state' = mem.prev
                 \/ pc' \in {"return", "fResult"}
           \/ /\ pc = "dropGen" /\ state' = state
              /\ \/ pc' = "rolledBack" /\ gens' = gens \ {cur}
                 \/ pc' \in {"return", "fResult"}
    BY <1>4 DEF RestoreState, DropGeneration, RollbackError
  <2>2. AllDurableOK' /\ ClosedOK'
    BY <1>1, <1>2, <2>1, TouchOK DEF procs
  <2>3. MemoryOK'
    BY <1>1, <1>2, <2>1 DEF JInv, PcOK, MemoryOK, Recorded, Incomplete
  <2>4. EntriesOK'
    BY <1>1, <2>1 DEF JInv, PcOK, EntriesOK, Prior
  <2>5. CandidateOK'
    BY <1>1, <2>1 DEF JInv, PcOK, CandidateOK, procs, servers
  <2> QED BY <2>2, <2>3, <2>4, <2>5 DEF JInv, PcOK
<1>5. CASE RecordRolledBack
  <2>1. /\ pc = "rolledBack" /\ pc' \in {"mark", "fVerify", "return", "fResult"}
        /\ UNCHANGED <<state, gens, boot, idx>>
        /\ \E d \in {Enter("rolled-back"), journal[cur]} :
             journal' = [journal EXCEPT ![cur] = d]
    BY <1>5 DEF RecordRolledBack, RollbackError
  <2>2. /\ Enter("rolled-back") \in Journals /\ Enter("rolled-back").phase = "rolled-back"
        /\ Enter("rolled-back").prev = mem.prev /\ Enter("rolled-back").cand = mem.cand
        /\ Enter("rolled-back").pid = mem.pid /\ Enter("rolled-back").svc = mem.svc
        /\ Enter("rolled-back").claim = mem.claim
    BY JournalTyped, PhasesTyped DEF Enter, IInv, TypeOK, Journals
  <2>3. "rolled-back" \in LivePhases \ (WaitPhases \cup PrePhases)
          /\ "rolled-back" \in RecordedPhases /\ "rolled-back" \notin RollPhases
    BY PhasesTyped DEF WaitPhases, PrePhases, EarlyPhases, RollPhases, RecordedPhases
  <2>4. Recorded(mem) /\ cur \notin gens /\ (mem.pid => cur \notin apps)
          /\ Prior(mem.prev) /\ state = mem.prev
    BY <2>1 DEF JInv, PcOK, MemoryOK, EntriesOK, CandidateOK
  <2>5. Recorded(Enter("rolled-back"))
    BY <2>2, <2>3, <2>4 DEF Recorded
  <2>6. AllDurableOK' /\ ClosedOK' /\ journal'[cur].prev = mem.prev
    BY <1>1, <1>2, <2>1, <2>2, <2>3, <2>4, <2>5, WriteOK DEF procs
  <2>7. MemoryOK'
    BY <1>1, <1>2, <2>1, <2>4, <2>6 DEF MemoryOK, Recorded
  <2>8. EntriesOK'
    BY <1>1, <2>1, <2>4 DEF JInv, PcOK, EntriesOK
  <2>9. CandidateOK'
    BY <1>1, <2>1 DEF JInv, PcOK, CandidateOK, procs, servers
  <2> QED BY <2>6, <2>7, <2>8, <2>9 DEF JInv, PcOK
<1> QED BY <1>3, <1>4, <1>5 DEF RollbackJournal

-----------------------------------------------------------------------------
(* RecoverInstall on the transaction it examines.                          *)

(* It looks at the journal, decides, and puts the processes back.          *)
LEMMA RecoverExaminedKeeps ==
  ASSUME IInv, JInv, cur # NoTxn,
         \/ StopRecorded \/ Decide \/ FinishServiceStop \/ RelaunchEarly
         \/ RelaunchEarlyService \/ RelaunchRestored \/ RelaunchRestoredService
         \/ DropCandidate
  PROVE  JInv'
<1> USE DEF UntouchedPcs, IntentPcs, ReplacedPcs, AfterSwitchPcs, EarlyPcs, ExaminedPcs,
            RestorePcs, MarkPcs, StoppedPcs, At, Goto
<1>1. cur \in Txn /\ cur # NoGen /\ mem.prev # cur /\ mem.phase \in LivePhases
  BY ApplyAssumption DEF IInv, TypeOK, HolderOK
<1>2. Recorded(mem) /\ journal[cur].prev = mem.prev /\ DurableOK(cur)
  BY <1>1 DEF JInv, AllDurableOK, PcOK, MemoryOK
<1>3. CASE StopRecorded
  <2>1. /\ pc = "rStop" /\ UNCHANGED <<durable, cur, mem, idx>> /\ apps' \subseteq apps
        /\ pc' \in {"rDecide", "return"}
    BY <1>3 DEF StopRecorded, local
  <2>2. AllDurableOK' /\ ClosedOK'
    BY <2>1, StillOK
  <2>3. mem = journal[cur] /\ Incomplete(cur)
    BY <2>1 DEF JInv, PcOK, MemoryOK
  <2>4. mem.pid => mem.phase \in StopPhases
    BY <1>2, <2>3
       DEF Recorded, RecordedPhases, Incomplete, Terminal, StopPhases, LaunchPhases
  <2>5. MemoryOK'
    BY <1>2, <2>1, <2>3 DEF MemoryOK, durable, Recorded, Incomplete
  <2>6. EntriesOK'
    BY <2>1 DEF JInv, PcOK, EntriesOK, durable
  <2>7. CandidateOK'
    <3>1. pc' = "rDecide" => (mem.pid => cur \notin apps') /\ (mem.svc => service' # cur)
      BY <1>1, <1>2, <1>3, <2>4 DEF StopRecorded, Recorded
    <3> QED BY <2>1, <3>1 DEF CandidateOK
  <2> QED BY <2>2, <2>5, <2>6, <2>7 DEF JInv, PcOK
<1>4. CASE Decide
  <2>1. /\ pc = "rDecide" /\ UNCHANGED <<durable, procs, local>>
        /\ \/ /\ pc' \in EarlyPcs
              /\ mem.phase \in EarlyPhases \cup {"waiting-for-exit"}
           \/ MustRestore /\ pc' = "restore"
           \/ state = mem.prev /\ mem.cand /\ pc' = "rDrop"
           \/ /\ state = mem.prev /\ ~mem.cand /\ mem.phase \in RollPhases
              /\ pc' = "mark"
    BY <1>4 DEF Decide, IsPrior
  <2>2. AllDurableOK' /\ ClosedOK'
    BY <2>1, StillOK DEF procs
  <2>3. mem = journal[cur] /\ Incomplete(cur)
    BY <2>1 DEF JInv, PcOK, MemoryOK
  <2>4. pc' \notin EarlyPcs => journal[cur].phase \notin WaitPhases
    BY <1>1, <1>2, <2>1, <2>3
       DEF DurableOK, MustRestore, IsCandidate, IsPrior, WaitPhases, RollPhases,
           IntentPhases
  <2>5. pc' \notin EarlyPcs => cur \in commit
    BY <1>1, <1>2, <2>3, <2>4 DEF DurableOK, LivePhases
  <2>6. pc' = "restore" => journal[cur].phase \notin PrePhases
    BY <1>1, <1>2, <2>1, <2>3
       DEF DurableOK, MustRestore, IsCandidate, IsPrior, IntentPhases, PrePhases,
           WaitPhases, EarlyPhases
  <2>7. MemoryOK'
    BY <1>2, <2>1, <2>3, <2>5, <2>6
       DEF MemoryOK, durable, local, Recorded, Incomplete, WaitPhases
  <2>8. EntriesOK'
    <3>1. idx = 1 /\ \A x \in Targets : ~(x < 1)
      BY <2>1 DEF JInv, PcOK, EntriesOK, Targets
    <3> QED BY <2>1, <3>1 DEF EntriesOK, durable, local, Checked
  <2>9. CandidateOK'
    <3>1. ~mem.cand /\ mem.phase \in RollPhases => cur \notin gens
      BY <1>2, <2>3 DEF DurableOK
    <3> QED BY <2>1, <3>1
            DEF JInv, PcOK, CandidateOK, durable, local, procs, servers
  <2> QED BY <2>2, <2>7, <2>8, <2>9 DEF JInv, PcOK
<1>5. CASE \/ FinishServiceStop \/ RelaunchEarly \/ RelaunchEarlyService
           \/ RelaunchRestored \/ RelaunchRestoredService \/ DropCandidate
  <2>1. /\ UNCHANGED <<state, boot, journal, backup, commit, cur, mem, idx>>
        /\ gens' \subseteq gens /\ apps' \subseteq apps \cup {mem.prev}
        /\ service' \in {service, NoGen, mem.prev}
        /\ \/ pc \in EarlyPcs /\ pc' \in EarlyPcs \cup {"return"}
           \/ /\ pc = "rRelaunch" /\ pc' \in {"rService", "rFinal"}
              /\ gens' = gens /\ Launchable(mem.prev)
           \/ /\ pc = "rService" /\ pc' = "rFinal" /\ gens' = gens
           \/ pc \in {"rRelaunch", "rService"} /\ pc' = "return"
           \/ pc = "rDrop" /\ pc' = "mark" /\ gens' = gens \ {cur}
           \/ pc = "rDrop" /\ pc' = "return"
    BY <1>5
       DEF FinishServiceStop, RelaunchEarly, RelaunchEarlyService, RelaunchRestored,
           RelaunchRestoredService, DropCandidate, RelaunchPrior, RelaunchService,
           durable, local, procs, servers
  <2>2. AllDurableOK' /\ ClosedOK'
    BY <1>1, <2>1, TouchOK
  <2>3. MemoryOK'
    BY <2>1 DEF JInv, PcOK, MemoryOK, Recorded, Incomplete
  <2>4. EntriesOK'
    <3>1. pc = "rDrop" => state = mem.prev
      BY DEF IInv, StepsOK, RemovalPcs
    <3>2. pc = "rRelaunch" /\ pc' # "return" => Prior(mem.prev)
      BY <2>1 DEF Launchable, Prior
    <3> QED BY <2>1, <3>1, <3>2 DEF JInv, PcOK, EntriesOK, Prior
  <2>5. CandidateOK'
    BY <1>1, <2>1 DEF JInv, PcOK, CandidateOK
  <2> QED BY <2>2, <2>3, <2>4, <2>5 DEF JInv, PcOK
<1> QED BY <1>3, <1>4, <1>5

(* It records that the transaction is being ended, and that it has ended.  *)
LEMMA RecoverRecordsKeeps ==
  ASSUME IInv, JInv, cur # NoTxn, RelaunchIntent \/ RecordRecovered
  PROVE  JInv'
<1> USE DEF UntouchedPcs, IntentPcs, ReplacedPcs, AfterSwitchPcs, EarlyPcs, ExaminedPcs,
            RestorePcs, MarkPcs, StoppedPcs, At, Goto
<1>1. PICK from \in {"mark", "rFinal"}, p \in {"rollback-relaunch", "rolled-back"},
           ok \in {"rRelaunch", "rResult"} :
        /\ Advance(from, p, ok, "return")
        /\ p = "rolled-back" => from = "rFinal" /\ ok = "rResult"
        /\ from = "rFinal" => ok = "rResult"
  BY DEF RelaunchIntent, RecordRecovered
<1>2. pc = from
  BY <1>1 DEF Advance
<1>3. /\ cur \in commit /\ cur \notin gens /\ state = mem.prev /\ (mem.pid => cur \notin apps)
      /\ p = "rolled-back" => Prior(state)
  BY <1>1, <1>2 DEF JInv, PcOK, MemoryOK, EntriesOK, CandidateOK
<1>4. /\ p \in LivePhases \ WaitPhases /\ p \notin PrePhases /\ p \in RecordedPhases
      /\ p \in Terminal => p = "rolled-back"
  BY <1>1, PhasesTyped
     DEF WaitPhases, PrePhases, EarlyPhases, RollPhases, RecordedPhases, Terminal
<1>5. /\ AllDurableOK' /\ ClosedOK'
      /\ mem'.prev = mem.prev /\ mem'.cand = mem.cand /\ mem'.pid = mem.pid
      /\ mem'.svc = mem.svc /\ mem'.claim = mem.claim /\ mem'.phase = p
      /\ Recorded(mem')
      /\ journal'[cur].prev = mem.prev
      /\ \/ pc' = ok /\ journal'[cur].phase = p
         \/ pc' = "return" /\ journal'[cur].phase \in {p, journal[cur].phase}
      /\ UNCHANGED <<state, gens, boot, backup, commit, apps, service,
                     by, cur, idx, origin, cleanupErr, todo>>
  BY <1>1, <1>3, <1>4, PhaseOK
<1>6. MemoryOK'
  BY <1>1, <1>2, <1>3, <1>5 DEF JInv, PcOK, MemoryOK
<1>7. EntriesOK'
  BY <1>1, <1>2, <1>5 DEF JInv, PcOK, EntriesOK
<1>8. CandidateOK'
  BY <1>1, <1>2, <1>5 DEF JInv, PcOK, CandidateOK
<1> QED BY <1>5, <1>6, <1>7, <1>8 DEF JInv, PcOK

(* A step after which no transaction is under work leaves only the disk.   *)
LEMMA NoHolderOK ==
  ASSUME cur' = NoTxn, pc' \in {"idle", "next"}, idx' = 1
  PROVE  PcOK'
BY DEF PcOK, MemoryOK, EntriesOK, CandidateOK, UntouchedPcs, IntentPcs, ReplacedPcs,
       AfterSwitchPcs, EarlyPcs, ExaminedPcs, RestorePcs, MarkPcs, StoppedPcs

(* The directory of a transaction is removed.                              *)
LEMMA RemoveKeeps ==
  ASSUME IInv, JInv, NEW t \in Txn, RemoveDirectory(t),
         UNCHANGED <<state, gens, boot, procs>>,
         journal[t].phase \in PrePhases \/ ~Incomplete(t),
         \A u \in Txn \ {t} : Incomplete(t) => ~Incomplete(u)
  PROVE  AllDurableOK' /\ ClosedOK'
<1>1. CASE UNCHANGED <<journal, backup, commit>>
  BY <1>1 DEF JInv, AllDurableOK, DurableOK, ClosedOK, Incomplete, Prior, procs
<1>2. CASE /\ journal' = [journal EXCEPT ![t] = [NoJournal EXCEPT !.phase = "removed"]]
           /\ backup' = [backup EXCEPT ![t] = NoBackup]
           /\ commit' = commit \ {t}
  <2>1. /\ journal'[t] = [NoJournal EXCEPT !.phase = "removed"] /\ backup'[t] = NoBackup
        /\ \A u \in Txn \ {t} : journal'[u] = journal[u] /\ backup'[u] = backup[u]
    BY <1>2 DEF IInv, TypeOK
  <2>2. DurableOK(t)'
    BY <2>1
       DEF DurableOK, NoJournal, Recorded, PrePhases, WaitPhases, EarlyPhases,
           RollPhases, Absent
  <2>3. ASSUME NEW u \in Txn \ {t} PROVE DurableOK(u)'
    BY <1>2, <2>1 DEF JInv, AllDurableOK, DurableOK, Prior, procs
  <2>4. ASSUME \A u \in Txn : ~Incomplete(u)' PROVE Prior(state)'
    <3>1. \A u \in Txn \ {t} : ~Incomplete(u)
      BY <2>1, <2>4 DEF Incomplete
    <3>2. CASE Incomplete(t)
      BY <3>2 DEF JInv, AllDurableOK, DurableOK, Prior
    <3>3. CASE ~Incomplete(t)
      BY <3>1, <3>3 DEF JInv, ClosedOK, Prior
    <3> QED BY <3>2, <3>3
  <2> QED BY <2>2, <2>3, <2>4 DEF AllDurableOK, ClosedOK
<1> QED BY <1>1, <1>2 DEF RemoveDirectory

(* Every step of RecoverInstall.                                           *)
LEMMA RecoverStepKeeps ==
  ASSUME IInv, JInv, RecoverStep
  PROVE  JInv'
<1>1. CASE \E t \in Txn : SkipJournal(t)
  <2>1. UNCHANGED <<durable, procs, cur, idx>> /\ pc' = "next" /\ pc = "next"
    BY <1>1 DEF SkipJournal, At
  <2>2. cur' = NoTxn /\ idx' = 1
    BY <2>1 DEF IInv, HolderOK, JInv, PcOK, EntriesOK
  <2> QED BY <2>1, <2>2, StillOK, NoHolderOK DEF JInv, procs
<1>2. CASE \E t \in Txn : RemoveFinished(t)
  <2>1. PICK t \in Txn : RemoveFinished(t)
    BY <1>2
  <2>2. /\ pc' = "next" /\ pc = "next" /\ UNCHANGED <<state, gens, boot, procs, cur, idx>>
        /\ RemoveDirectory(t)
        /\ journal[t].phase \in {"prepared", "complete", "rolled-back"}
    BY <2>1 DEF RemoveFinished, At
  <2>3. cur' = NoTxn /\ idx' = 1 /\ \A u \in Txn \ {t} : Incomplete(t) => ~Incomplete(u)
    BY <2>2 DEF IInv, HolderOK, JInv, PcOK, EntriesOK, SingleOpenTransaction
  <2>4. journal[t].phase \in PrePhases \/ ~Incomplete(t)
    BY <2>2 DEF PrePhases, WaitPhases, Incomplete, Terminal
  <2> QED BY <2>2, <2>3, <2>4, RemoveKeeps, NoHolderOK DEF JInv
<1>3. CASE \E t \in Txn : Examine(t)
  <2>1. PICK t \in Txn : Examine(t)
    BY <1>3
  <2>2. /\ pc = "next" /\ pc' = "rStop" /\ cur' = t /\ mem' = journal[t]
        /\ UNCHANGED <<durable, procs, idx>>
        /\ t \in todo /\ journal[t].phase \notin {"complete", "rolled-back"}
    BY <2>1 DEF Examine, At, Goto
  <2>3. Incomplete(t) /\ idx = 1 /\ DurableOK(t)
    BY <2>2
       DEF IInv, TypeOK, HolderOK, JournalsOK, Journals, Incomplete, Terminal, JInv,
           AllDurableOK, PcOK, EntriesOK
  <2>4. AllDurableOK' /\ ClosedOK'
    BY <2>2, StillOK DEF procs
  <2>5. PcOK'
    BY <2>2, <2>3
       DEF PcOK, MemoryOK, EntriesOK, CandidateOK, UntouchedPcs, IntentPcs, ReplacedPcs,
           AfterSwitchPcs, EarlyPcs, ExaminedPcs, RestorePcs, MarkPcs, StoppedPcs,
           DurableOK, durable, Incomplete
  <2> QED BY <2>4, <2>5 DEF JInv
<1>4. CASE RecoverFinish
  <2>1. /\ cur' = NoTxn /\ pc' = "idle" /\ idx' = 1 /\ UNCHANGED durable
        /\ apps' \subseteq apps \cup {state}
    BY <1>4 DEF RecoverFinish, Release, Goto
  <2>2. state \in gens
    BY DEF IInv, ActiveGenerationPresent
  <2>3. AllDurableOK'
    BY <2>1, <2>2 DEF JInv, AllDurableOK, DurableOK, durable, Prior
  <2>4. ClosedOK'
    BY <2>1 DEF JInv, ClosedOK, Incomplete, durable, Prior
  <2> QED BY <2>1, <2>3, <2>4, NoHolderOK DEF JInv
<1>5. CASE RemoveExamined
  <2>1. /\ pc = "eRemove" /\ RemoveDirectory(cur) /\ pc' = "next" /\ cur' = NoTxn
        /\ UNCHANGED <<state, gens, boot, procs, idx>>
    BY <1>5 DEF RemoveExamined, NextDirectory, At, Goto
  <2>2. cur \in Txn /\ cur # NoTxn
    BY <2>1 DEF IInv, TypeOK, HolderOK
  <2>3. idx = 1 /\ journal[cur].phase \in PrePhases
    BY <2>1, <2>2
       DEF JInv, PcOK, EntriesOK, MemoryOK, EarlyPcs, ExaminedPcs, PrePhases
  <2>4. \A u \in Txn \ {cur} : ~Incomplete(u)
    BY <2>2 DEF IInv, HolderOK
  <2> QED BY <2>1, <2>2, <2>3, <2>4, RemoveKeeps, NoHolderOK DEF JInv
<1>6. CASE ReportRecovered
  <2>1. /\ pc = "rResult" /\ pc' = "next" /\ cur' = NoTxn
        /\ UNCHANGED <<state, gens, boot, journal, backup, commit, procs, idx>>
    BY <1>6 DEF ReportRecovered, NextDirectory, At, Goto
  <2>2. AllDurableOK' /\ ClosedOK' /\ idx' = 1
    BY <2>1 DEF JInv, AllDurableOK, DurableOK, ClosedOK, Prior, Incomplete, procs,
       PcOK, EntriesOK
  <2> QED BY <2>1, <2>2, NoHolderOK DEF JInv
<1>7. CASE \/ StopRecorded \/ Decide \/ FinishServiceStop \/ RelaunchEarly
           \/ RelaunchEarlyService \/ RelaunchRestored \/ RelaunchRestoredService
           \/ DropCandidate \/ RelaunchIntent \/ RecordRecovered
  <2>1. pc \notin {"idle", "next"}
    BY <1>7
       DEF StopRecorded, Decide, FinishServiceStop, RelaunchEarly, RelaunchEarlyService,
           RelaunchRestored, RelaunchRestoredService, DropCandidate, RelaunchIntent,
           RecordRecovered, RelaunchPrior, RelaunchService, Advance, At
  <2>2. cur # NoTxn
    BY <2>1 DEF IInv, HolderOK
  <2> QED BY <1>7, <2>2, RecoverExaminedKeeps, RecoverRecordsKeeps
<1> QED BY <1>1, <1>2, <1>3, <1>4, <1>5, <1>6, <1>7 DEF RecoverStep

-----------------------------------------------------------------------------
(* Everything else.                                                        *)

(* Every step of the holder of the lock.                                   *)
LEMMA WorkKeeps ==
  ASSUME IInv, JInv, Work
  PROVE  JInv'
<1>1. CASE ApplyStep \/ RollbackJournal
  <2>1. pc \notin {"idle", "next"}
    BY <1>1
       DEF ApplyStep, BeforeSwitch, FromSwitch, RecoverFailure, RollbackJournal,
           AwaitCommit, ExitTimeout, AwaitExit, StepError, StopIntent,
           StopParticipants, ParticipantsStopped, CopyIntent, CreateGeneration,
           GenerationReady, BackupEntries, BootstrapIntent, ReplaceEntry,
           BootstrapReady, StateIntent, UndoEntry, DiscardGeneration, SwitchState,
           Activated, LaunchCandidate, RecordCandidate, CandidateReady, CandidateFails,
           LaunchService, RecordService, WriteReceipt, ServiceReady, ServiceFails,
           Complete, ReportApplied, RollbackIntent, StopForRollback, ChooseRollback,
           DropUnused, VerifyRestored, RelaunchPrevious, RelaunchPreviousService,
           ReportFailure, RestoreEntry, RestoreState, DropGeneration, RecordRolledBack,
           RelaunchPrior, RelaunchService, Advance, At
  <2>2. cur # NoTxn
    BY <2>1 DEF IInv, HolderOK
  <2> QED BY <1>1, <2>2, BeforeSwitchKeeps, FromSwitchKeeps, RecoverFailureKeeps,
             RollbackJournalKeeps DEF ApplyStep
<1>2. CASE RecoverStep
  BY <1>2, RecoverStepKeeps
<1>3. CASE Return
  <2>1. UNCHANGED <<durable, procs>> /\ cur' = NoTxn /\ pc' = "idle" /\ idx' = 1
    BY <1>3 DEF Return, Release, Goto
  <2> QED BY <2>1, StillOK, NoHolderOK DEF JInv, procs
<1> QED BY <1>1, <1>2, <1>3 DEF Work

(* Processes of the environment start and stop: a service registers only   *)
(* while no one holds the lock.                                            *)
LEMMA ProcessesKeep ==
  ASSUME IInv, JInv, UNCHANGED <<durable, pc, local>>, apps' \subseteq apps,
         service' \in {service, NoGen} \/ pc = "idle"
  PROVE  JInv'
<1>1. AllDurableOK' /\ ClosedOK'
  BY StillOK
<1>2. MemoryOK' /\ EntriesOK'
  BY DEF JInv, PcOK, MemoryOK, EntriesOK, Recorded, Incomplete, Prior, durable, local
<1>3. CandidateOK'
  <2>1. CASE pc \in {"idle", "next"}
    <3>1. UNCHANGED pc
      OBVIOUS
    <3> QED BY <2>1, <3>1
            DEF CandidateOK, UntouchedPcs, RestorePcs, MarkPcs, StoppedPcs
  <2>2. CASE pc \notin {"idle", "next"}
    <3>1. cur \in Txn /\ cur # NoGen
      BY <2>2, ApplyAssumption DEF IInv, TypeOK, HolderOK
    <3> QED BY <2>2, <3>1 DEF JInv, PcOK, CandidateOK, durable, local
  <2> QED BY <2>1, <2>2
<1> QED BY <1>1, <1>2, <1>3 DEF JInv, PcOK

(* A transaction is prepared, committed, taken up.                         *)
LEMMA PrepareApplyKeeps ==
  ASSUME IInv, JInv, NEW t \in Txn, PrepareApply(t)
  PROVE  JInv'
<1> DEFINE m == [NoJournal EXCEPT !.phase = "prepared", !.prev = state,
                                  !.claim = receipt = state /\ service = state]
<1>1. m.phase = "prepared" /\ m.prev = state /\ ~m.cand /\ ~m.pid /\ ~m.svc
  BY DEF m, NoJournal
<1>2. /\ journal' = [journal EXCEPT ![t] = m] /\ pc = "idle" /\ Launchable(state)
      /\ journal[t].phase = "none"
      /\ UNCHANGED <<state, gens, boot, backup, commit, procs, pc, local>>
  BY DEF PrepareApply, At
<1> HIDE DEF m
<1>3. cur = NoTxn /\ idx = 1 /\ t \notin gens /\ DurableOK(t)
  BY <1>2 DEF IInv, HolderOK, JournalsOK, JInv, AllDurableOK, PcOK, EntriesOK
<1>4. journal'[t] = m /\ \A u \in Txn \ {t} : journal'[u] = journal[u]
  BY <1>2 DEF IInv, TypeOK
<1>5. DurableOK(t)'
  BY <1>1, <1>2, <1>3, <1>4
     DEF DurableOK, Recorded, Launchable, Prior, WaitPhases, RollPhases
<1>6. ASSUME NEW u \in Txn \ {t} PROVE DurableOK(u)'
  BY <1>2, <1>4 DEF JInv, AllDurableOK, DurableOK, Prior, procs
<1>7. ClosedOK'
  BY <1>2 DEF Launchable, ClosedOK, Prior
<1>8. PcOK'
  BY <1>2, <1>3, NoHolderOK DEF local
<1> QED BY <1>5, <1>6, <1>7, <1>8 DEF JInv, AllDurableOK

LEMMA CommitKeeps ==
  ASSUME IInv, JInv, NEW t \in Txn, CommitPreparedApply(t)
  PROVE  JInv'
<1>1. /\ commit' = commit \cup {t}
      /\ UNCHANGED <<state, gens, boot, journal, backup, procs, pc, local>>
  BY DEF CommitPreparedApply
<1>2. AllDurableOK' /\ ClosedOK'
  BY <1>1 DEF JInv, AllDurableOK, DurableOK, ClosedOK, Prior, Incomplete, procs
<1>3. PcOK'
  BY <1>1 DEF JInv, PcOK, MemoryOK, EntriesOK, CandidateOK, Recorded, Incomplete, Prior,
     local, procs, servers
<1> QED BY <1>2, <1>3 DEF JInv

LEMMA AcceptApplyKeeps ==
  ASSUME IInv, JInv, NEW t \in Txn, AcceptApply(t)
  PROVE  JInv'
<1>1. /\ mem'.phase = "waiting-for-exit" /\ mem'.prev = journal[t].prev
      /\ mem'.cand = journal[t].cand /\ mem'.pid = journal[t].pid
      /\ mem'.svc = journal[t].svc /\ mem'.claim = journal[t].claim
      /\ cur' = t /\ pc = "idle" /\ journal[t].phase = "prepared"
      /\ \E d \in {journal[t], mem'} :
           journal' = [journal EXCEPT ![t] = d] /\ (pc' = "commit" => d = mem')
      /\ pc' \in {"commit", "return"}
      /\ UNCHANGED <<state, gens, boot, backup, commit, procs, idx>>
  BY DEF AcceptApply, At, Goto, IInv, TypeOK, Journals
<1>2. DurableOK(t) /\ idx = 1 /\ cur = NoTxn
  BY <1>1 DEF JInv, AllDurableOK, PcOK, EntriesOK, IInv, HolderOK
<1>3. /\ journal'[t] \in {journal[t], mem'} /\ (pc' = "commit" => journal'[t] = mem')
      /\ \A u \in Txn \ {t} : journal'[u] = journal[u]
  BY <1>1 DEF IInv, TypeOK
<1>4. DurableOK(t)'
  BY <1>1, <1>2, <1>3
     DEF DurableOK, Recorded, RecordedPhases, RollPhases, PrePhases, WaitPhases, Prior,
         Absent, procs
<1>5. ASSUME NEW u \in Txn \ {t} PROVE DurableOK(u)'
  BY <1>1, <1>3 DEF JInv, AllDurableOK, DurableOK, Prior, procs
<1>6. Incomplete(t)'
  BY <1>1, <1>3 DEF Incomplete, Terminal, Absent
<1>7. MemoryOK'
  BY <1>1, <1>2, <1>3
     DEF MemoryOK, DurableOK, Recorded, RecordedPhases, RollPhases, PrePhases,
         WaitPhases, UntouchedPcs, IntentPcs, EarlyPcs, ExaminedPcs, RestorePcs
<1>8. EntriesOK' /\ CandidateOK'
  BY <1>1, <1>2
     DEF EntriesOK, CandidateOK, DurableOK, WaitPhases, UntouchedPcs, ReplacedPcs,
         AfterSwitchPcs, RestorePcs, MarkPcs, StoppedPcs
<1> QED BY <1>4, <1>5, <1>6, <1>7, <1>8 DEF JInv, AllDurableOK, ClosedOK, PcOK

(* Every step of the environment.                                          *)
LEMMA EnvironmentKeeps ==
  ASSUME IInv, JInv, Environment
  PROVE  JInv'
<1>1. CASE \/ \E g \in Gen : AppExit(g)
           \/ StartService \/ RegisterService \/ RegisterRefused \/ ServiceExit
  <2>1. /\ UNCHANGED <<durable, pc, local>> /\ apps' \subseteq apps
        /\ service' \in {service, NoGen} \/ pc = "idle"
    BY <1>1
       DEF AppExit, StartService, RegisterService, RegisterRefused, ServiceExit,
           servers, At
  <2> QED BY <2>1, ProcessesKeep
<1>2. CASE \E t \in Txn : PrepareApply(t) \/ CommitPreparedApply(t) \/ AcceptApply(t)
  BY <1>2, PrepareApplyKeeps, CommitKeeps, AcceptApplyKeeps
<1>3. CASE RecoverStart \/ Crash
  <2>1. UNCHANGED <<durable, procs>> /\ cur' = NoTxn /\ pc' \in {"idle", "next"} /\ idx' = 1
    BY <1>3 DEF RecoverStart, Crash, Release, At, Goto, IInv, HolderOK, JInv, PcOK,
       EntriesOK
  <2> QED BY <2>1, StillOK, NoHolderOK DEF JInv, procs
<1> QED BY <1>1, <1>2, <1>3 DEF Environment

-----------------------------------------------------------------------------
(* The invariant holds of a fresh installation.                            *)
LEMMA InitKeeps == Init => JInv
<1> SUFFICES ASSUME Init PROVE JInv
  OBVIOUS
<1>1. AllDurableOK
  BY DEF Init, AllDurableOK, DurableOK, NoJournal, Recorded, PrePhases, WaitPhases,
     EarlyPhases, RollPhases, Absent
<1>2. ClosedOK
  BY DEF Init, ClosedOK, Prior, Checked
<1>3. PcOK
  BY DEF Init, Unlocked, PcOK, MemoryOK, EntriesOK, CandidateOK, UntouchedPcs, IntentPcs,
     ReplacedPcs, AfterSwitchPcs, EarlyPcs, ExaminedPcs, RestorePcs, MarkPcs, StoppedPcs
<1> QED BY <1>1, <1>2, <1>3 DEF JInv

(* Every step preserves it, given the invariant of the other proof.        *)
LEMMA NextKeeps == IInv /\ JInv /\ [Next]_vars => JInv'
<1> SUFFICES ASSUME IInv, JInv, [Next]_vars PROVE JInv'
  OBVIOUS
<1>1. CASE Environment
  BY <1>1, EnvironmentKeeps
<1>2. CASE Work
  BY <1>2, WorkKeeps
<1>3. CASE UNCHANGED vars
  BY <1>3, ProcessesKeep DEF vars, procs, servers
<1> QED BY <1>1, <1>2, <1>3 DEF Next

(* So it holds always.                                                     *)
LEMMA AlwaysJInv == Spec => []JInv
<1>1. Init => JInv
  BY InitKeeps
<1>2. IInv /\ JInv /\ [Next]_vars => JInv'
  BY NextKeeps
<1> QED BY <1>1, <1>2, Inductive, PTL DEF Spec

-----------------------------------------------------------------------------
(* No transaction leaves a mixture of generations among the entries that a *)
(* launch depends on, however it ended.                                    *)
THEOREM NoMixtureLeft == Spec => []QuiescentConsistent
<1>1. JInv => QuiescentConsistent
  BY DEF JInv, ClosedOK, Prior, QuiescentConsistent
<1> QED BY <1>1, AlwaysJInv, PTL

(* Whoever restores the entries has a backup of the prior ones to do it.   *)
THEOREM BackupHoldsPrior == Spec => []RestoreHasBackup
<1>1. IInv /\ JInv => RestoreHasBackup
  <2> SUFFICES ASSUME IInv, JInv, pc \in {"restore", "undo"}
               PROVE  backup[cur] # NoBackup /\ \A x \in Checked : backup[cur][x] = mem.prev
    BY DEF RestoreHasBackup
  <2>1. cur # NoTxn /\ cur \in Txn /\ backup[cur] # NoBackup
    BY DEF IInv, TypeOK, HolderOK, StepsOK
  <2>2. journal[cur].prev = mem.prev
    BY <2>1 DEF JInv, PcOK, MemoryOK
  <2> QED BY <2>1, <2>2 DEF JInv, AllDurableOK, DurableOK
<1> QED BY <1>1, Inductive, AlwaysJInv, PTL

(* No recorded candidate outlives the rollback of its transaction.         *)
THEOREM NoCandidateLeft == Spec => []CandidateStopped
<1>1. JInv => CandidateStopped
  BY DEF JInv, AllDurableOK, DurableOK, CandidateStopped
<1> QED BY <1>1, AlwaysJInv, PTL

-----------------------------------------------------------------------------
(* What a step may never do.                                               *)

(* A recorded phase is that of the transaction under work.                 *)
LEMMA WrittenPhase ==
  ASSUME IInv, NEW m, NEW ok, NEW failed, WriteJournal(m, ok, failed),
         NEW t \in Txn, journal'[t].phase # journal[t].phase
  PROVE  t = cur /\ journal'[t] = m
BY DEF WriteJournal, IInv, TypeOK

(* The phase of a step that only records it.                               *)
LEMMA AdvancedPhase ==
  ASSUME IInv, NEW from, NEW p \in Phases, NEW ok, NEW failed, Advance(from, p, ok, failed),
         NEW t \in Txn, journal'[t].phase # journal[t].phase
  PROVE  /\ t = cur /\ journal'[t].phase = p /\ journal'[t].prev = mem.prev
         /\ journal'[t].svc = mem.svc
<1>1. t = cur /\ journal'[t] = Enter(p)
  BY WrittenPhase DEF Advance
<1>2. Enter(p).phase = p /\ Enter(p).prev = mem.prev /\ Enter(p).svc = mem.svc
  BY DEF Enter, IInv, TypeOK, Journals
<1> QED BY <1>1, <1>2

(* Only three steps record the end of a transaction.                       *)
LEMMA WhoEnds ==
  ASSUME IInv, JInv, Next, NEW t \in Txn, journal'[t].phase # journal[t].phase,
         journal'[t].phase \in {"rolled-back", "complete"}
  PROVE  RecordRolledBack \/ RecordRecovered \/ Complete
<1>1. ~Environment
  <2>1. SUFFICES ASSUME Environment PROVE FALSE
    OBVIOUS
  <2>2. CASE \E u \in Txn : PrepareApply(u)
    <3>1. PICK u \in Txn : PrepareApply(u)
      BY <2>2
    <3> DEFINE m == [NoJournal EXCEPT !.phase = "prepared", !.prev = state,
                                      !.claim = receipt = state /\ service = state]
    <3>2. m.phase = "prepared"
      BY DEF NoJournal
    <3>3. journal' = [journal EXCEPT ![u] = m]
      BY <3>1 DEF PrepareApply
    <3> HIDE DEF m
    <3> QED BY <3>2, <3>3 DEF IInv, TypeOK
  <2>4. CASE \E u \in Txn : AcceptApply(u)
    <3>1. PICK u \in Txn : AcceptApply(u)
      BY <2>4
    <3>2. mem'.phase = "waiting-for-exit"
      BY <3>1 DEF AcceptApply, IInv, TypeOK, Journals
    <3>3. \E d \in {journal[u], mem'} : journal' = [journal EXCEPT ![u] = d]
      BY <3>1 DEF AcceptApply
    <3> QED BY <3>2, <3>3 DEF IInv, TypeOK
  <2>3. CASE UNCHANGED journal
    BY <2>3
  <2> QED BY <2>1, <2>2, <2>3, <2>4
          DEF Environment, AppExit, StartService, RegisterService, RegisterRefused,
              ServiceExit, CommitPreparedApply, RecoverStart, Crash, durable
<1>2. CASE ApplyStep
  <2>1. CASE \/ AwaitExit \/ StopIntent \/ ParticipantsStopped \/ CopyIntent
             \/ GenerationReady \/ BootstrapIntent \/ BootstrapReady \/ StateIntent
             \/ Activated
    <3>1. PICK from \in {"exit", "child", "stopped", "stage", "generation", "intent",
                         "replaced", "ready", "switched"},
               p \in LivePhases \ {"rolled-back", "complete"},
               ok \in {"child", "participants", "stage", "copy", "backup", "entries",
                      "ready", "switch", "launch"},
               failed \in {"fail", "discard", "undo"} :
            Advance(from, p, ok, failed)
      BY <2>1, PhasesTyped
         DEF AwaitExit, StopIntent, ParticipantsStopped, CopyIntent, GenerationReady,
             BootstrapIntent, BootstrapReady, StateIntent, Activated
    <3> QED BY <3>1, AdvancedPhase, PhasesTyped
  <2>2. CASE RecordCandidate
    <3>1. WriteJournal([mem EXCEPT !.phase = "candidate-launched", !.pid = TRUE],
                       "await", "kill")
      BY <2>2 DEF RecordCandidate
    <3>2. journal'[t] = [mem EXCEPT !.phase = "candidate-launched", !.pid = TRUE]
      BY <3>1, WrittenPhase
    <3>3. mem \in Journals
      BY DEF IInv, TypeOK
    <3>4. journal'[t].phase = "candidate-launched"
      BY <3>2, <3>3 DEF Journals
    <3> QED BY <3>4
  <2>4. CASE RecordService
    <3>1. WriteJournal([mem EXCEPT !.svc = TRUE], "svcReceipt", "svcKill")
      BY <2>4 DEF RecordService
    <3>2. journal'[t] = [mem EXCEPT !.svc = TRUE]
      BY <3>1, WrittenPhase
    <3>3. mem.phase = "candidate-launched"
      BY <2>4 DEF RecordService, At, JInv, PcOK, MemoryOK, IInv, HolderOK
    <3> QED BY <3>2, <3>3 DEF IInv, TypeOK, Journals
  <2>5. CASE RollbackIntent
    <3>1. WriteJournal(Enter("rolling-back"), "fStop", "fStop")
      BY <2>5 DEF RollbackIntent
    <3>2. journal'[t] = Enter("rolling-back")
      BY <3>1, WrittenPhase
    <3>3. Enter("rolling-back").phase = "rolling-back"
      BY DEF Enter, IInv, TypeOK, Journals
    <3> QED BY <3>2, <3>3
  <2>3. CASE UNCHANGED journal
    BY <2>3
  <2> QED
    BY <1>2, <2>1, <2>2, <2>3, <2>4, <2>5
       DEF ApplyStep, BeforeSwitch, FromSwitch, RecoverFailure, durable,
           AwaitCommit, ExitTimeout, StepError,
           StopParticipants, CreateGeneration,
           BackupEntries, ReplaceEntry,
           UndoEntry, DiscardGeneration, SwitchState,
           LaunchCandidate, CandidateReady, CandidateFails,
           LaunchService, WriteReceipt, ServiceReady, ServiceFails,
           ReportApplied, StopForRollback, ChooseRollback,
           DropUnused, VerifyRestored, RelaunchPrevious, RelaunchPreviousService,
           ReportFailure
<1>3. CASE RollbackJournal
  BY <1>3 DEF RollbackJournal, RestoreEntry, RestoreState, DropGeneration
<1>4. CASE RecoverStep
  <2>1. CASE RemoveExamined \/ \E u \in Txn : RemoveFinished(u)
    <3>1. PICK u : RemoveDirectory(u)
      BY <2>1 DEF RemoveExamined, RemoveFinished
    <3> QED BY <3>1 DEF RemoveDirectory, NoJournal, IInv, TypeOK
  <2>2. CASE RelaunchIntent
    <3>1. Advance("mark", "rollback-relaunch", "rRelaunch", "return")
      BY <2>2 DEF RelaunchIntent
    <3> QED BY <3>1, AdvancedPhase, PhasesTyped
  <2>3. CASE UNCHANGED journal
    BY <2>3
  <2> QED
    BY <1>4, <2>1, <2>2, <2>3
       DEF RecoverStep, SkipJournal, Examine, StopRecorded, Decide, FinishServiceStop,
           RelaunchEarly, RelaunchEarlyService, DropCandidate, RelaunchRestored,
           RelaunchRestoredService, ReportRecovered, RecoverFinish, durable
<1>5. CASE Return
  BY <1>5 DEF Return, durable
<1> QED BY <1>1, <1>2, <1>3, <1>4, <1>5 DEF Next, Work

(* What holds when they do.                                                *)
LEMMA WhenEnded ==
  ASSUME IInv, JInv, Next, NEW t \in Txn, journal'[t].phase # journal[t].phase,
         journal'[t].phase \in {"rolled-back", "complete"}
  PROVE  /\ UNCHANGED <<state, boot, service>>
         /\ journal'[t].phase = "complete" => state = t /\ \A x \in Targets : boot[x] = t
         /\ journal'[t].phase = "rolled-back" =>
              /\ state = journal'[t].prev /\ Prior(journal'[t].prev)
              /\ journal'[t].svc => service # t
<1>1. CASE RecordRolledBack
  <2>1. /\ pc = "rolledBack" /\ UNCHANGED <<state, boot, service>>
        /\ \E d \in {Enter("rolled-back"), journal[cur]} :
             journal' = [journal EXCEPT ![cur] = d]
    BY <1>1 DEF RecordRolledBack, procs, servers, At
  <2>2. t = cur /\ journal'[t] = Enter("rolled-back")
    BY <2>1 DEF IInv, TypeOK
  <2>3. Enter("rolled-back").prev = mem.prev /\ Enter("rolled-back").svc = mem.svc
          /\ Enter("rolled-back").phase = "rolled-back"
    BY DEF Enter, IInv, TypeOK, Journals
  <2> QED BY <2>1, <2>2, <2>3
          DEF JInv, PcOK, EntriesOK, CandidateOK, StoppedPcs, RestorePcs
<1>2. CASE RecordRecovered
  <2>1. Advance("rFinal", "rolled-back", "rResult", "return")
    BY <1>2 DEF RecordRecovered
  <2>2. /\ t = cur /\ journal'[t].phase = "rolled-back" /\ journal'[t].prev = mem.prev
        /\ journal'[t].svc = mem.svc
    BY <2>1, AdvancedPhase, PhasesTyped
  <2>3. pc = "rFinal" /\ UNCHANGED <<state, boot, service>>
    BY <2>1 DEF Advance, At, procs, servers
  <2> QED BY <2>2, <2>3
          DEF JInv, PcOK, EntriesOK, CandidateOK, StoppedPcs, MarkPcs
<1>3. CASE Complete
  <2>1. Advance("complete", "complete", "applied", "fail")
    BY <1>3 DEF Complete
  <2>2. t = cur /\ journal'[t].phase = "complete"
    BY <2>1, AdvancedPhase, PhasesTyped
  <2>3. pc = "complete" /\ UNCHANGED <<state, boot, service>>
    BY <2>1 DEF Advance, At, procs, servers
  <2> QED BY <2>2, <2>3
          DEF JInv, PcOK, EntriesOK, ReplacedPcs, AfterSwitchPcs
<1> QED BY <1>1, <1>2, <1>3, WhoEnds

(* The places where nothing of the installation is about to change.        *)
LEMMA Committed ==
  ASSUME IInv, JInv, Next, ~UNCHANGED <<state, gens, boot>>
  PROVE  cur \in commit
<1>1. Work /\ pc \notin {"idle", "next", "commit", "return"} \cup ExaminedPcs
  BY DEF Next, Environment, Work, AppExit, StartService, RegisterService, RegisterRefused,
         ServiceExit, PrepareApply, CommitPreparedApply, AcceptApply, RecoverStart, Crash,
         ApplyStep, BeforeSwitch, FromSwitch, RecoverFailure, RollbackJournal,
         AwaitCommit, ExitTimeout, AwaitExit, StepError, StopIntent,
         StopParticipants, ParticipantsStopped, CopyIntent, CreateGeneration,
         GenerationReady, BackupEntries, BootstrapIntent, ReplaceEntry,
         BootstrapReady, StateIntent, UndoEntry, DiscardGeneration, SwitchState,
         Activated, LaunchCandidate, RecordCandidate, CandidateReady, CandidateFails,
         LaunchService, RecordService, WriteReceipt, ServiceReady, ServiceFails,
         Complete, ReportApplied, RollbackIntent, StopForRollback, ChooseRollback,
         DropUnused, VerifyRestored, RelaunchPrevious, RelaunchPreviousService,
         ReportFailure, RestoreEntry, RestoreState, DropGeneration, RecordRolledBack,
         RecoverStep, SkipJournal, RemoveFinished, Examine, StopRecorded, Decide,
         FinishServiceStop, RelaunchEarly, RelaunchEarlyService, RemoveExamined,
         DropCandidate, RelaunchIntent, RelaunchRestored, RelaunchRestoredService,
         RecordRecovered, ReportRecovered, RecoverFinish, Return,
         RelaunchPrior, RelaunchService, Advance, At, durable, ExaminedPcs, EarlyPcs
<1> QED BY <1>1 DEF IInv, HolderOK, JInv, PcOK, MemoryOK

(* A step that changes no variable is none of these.                       *)
LEMMA StepOrNot == [Next]_vars => Next \/ UNCHANGED <<journal, state, gens, boot>>
BY DEF vars, durable

(* The candidate's managed service is gone when a rollback is recorded.    *)
THEOREM ServiceGone == Spec => ServiceStopped
<1>1. ASSUME IInv, JInv, [Next]_vars, NEW t \in Txn, journal[t].phase # "rolled-back",
             journal'[t].phase = "rolled-back", journal'[t].svc
      PROVE  service' # t
  BY <1>1, StepOrNot, WhenEnded
<1>2. IInv /\ JInv /\ [Next]_vars =>
        [\A t \in Txn :
           journal[t].phase # "rolled-back" /\ journal'[t].phase = "rolled-back"
             /\ journal'[t].svc => service' # t]_vars
  BY <1>1
<1> QED BY <1>2, Inductive, AlwaysJInv, PTL DEF Spec, ServiceStopped

(* A transaction counts as rolled back only over what it started from.     *)
THEOREM RollbackRestores == Spec => RolledBackRestores
<1>1. ASSUME IInv, JInv, [Next]_vars, NEW t \in Txn, journal[t].phase # "rolled-back",
             journal'[t].phase = "rolled-back"
      PROVE  /\ state' = journal'[t].prev
             /\ \A x \in Checked : boot'[x] = journal'[t].prev
  BY <1>1, StepOrNot, WhenEnded DEF Prior
<1>2. IInv /\ JInv /\ [Next]_vars =>
        [\A t \in Txn :
           journal[t].phase # "rolled-back" /\ journal'[t].phase = "rolled-back"
             => /\ state' = journal'[t].prev
                /\ \A x \in Checked : boot'[x] = journal'[t].prev]_vars
  BY <1>1
<1> QED BY <1>2, Inductive, AlwaysJInv, PTL DEF Spec, RolledBackRestores

(* It counts as complete only over the candidate's state and entries, all  *)
(* of them.                                                                *)
THEOREM CompletionReplaces == Spec => CompleteReplaces
<1>1. ASSUME IInv, JInv, [Next]_vars, NEW t \in Txn, journal[t].phase # "complete",
             journal'[t].phase = "complete"
      PROVE  state' = t /\ \A x \in Targets : boot'[x] = t
  BY <1>1, StepOrNot, WhenEnded
<1>2. IInv /\ JInv /\ [Next]_vars =>
        [\A t \in Txn :
           journal[t].phase # "complete" /\ journal'[t].phase = "complete"
             => state' = t /\ \A x \in Targets : boot'[x] = t]_vars
  BY <1>1
<1> QED BY <1>2, Inductive, AlwaysJInv, PTL DEF Spec, CompleteReplaces

(* Nothing of the installation changes for a transaction that its          *)
(* application has not committed.                                          *)
THEOREM NothingUncommitted == Spec => CommitBeforeChange
<1>1. ASSUME IInv, JInv, [Next]_vars, <<state, gens, boot>>' # <<state, gens, boot>>
      PROVE  \E t \in commit : Incomplete(t) \/ cur = t
  BY <1>1, StepOrNot, Committed
<1>2. IInv /\ JInv /\ [Next]_vars =>
        [<<state, gens, boot>>' # <<state, gens, boot>>
           => \E t \in commit : Incomplete(t) \/ cur = t]_vars
  BY <1>1
<1> QED BY <1>2, Inductive, AlwaysJInv, PTL DEF Spec, CommitBeforeChange

-----------------------------------------------------------------------------
(* The refinement of AtomicInstall.  Its `entries' say something only if   *)
(* a launch depends on at least one entry.                                 *)

(* What the refinement mapping yields, for a holder of the lock and        *)
(* without one.                                                            *)
MappingOK ==
  /\ cur # NoTxn => base = mem.prev /\ mem.prev \in Gen
  /\ cur = NoTxn => \A t \in Txn : Incomplete(t) => base = journal[t].prev
  /\ cur = NoTxn /\ (\A t \in Txn : ~Incomplete(t)) => base = NoGen
  /\ entries \in Gen \cup {"mixed"}
  /\ \A g \in Gen : Prior(g) => entries = g

LEMMA Mapping ==
  ASSUME Auxiliary # Targets
  PROVE  IInv /\ JInv => MappingOK
<1> SUFFICES ASSUME IInv, JInv PROVE MappingOK
  OBVIOUS
<1>1. ASSUME cur # NoTxn PROVE base = mem.prev /\ mem.prev \in Gen
  <2>1. cur \in Txn /\ \A t \in Txn : Open(t) <=> t = cur
    BY <1>1 DEF IInv, TypeOK, HolderOK, Open
  <2>2. (CHOOSE t \in Txn : Open(t)) = cur
    BY <2>1
  <2>3. journal[cur].prev = mem.prev /\ mem.prev \in Gen
    BY <1>1 DEF JInv, PcOK, MemoryOK, IInv, HolderOK, TypeOK
  <2> QED BY <2>1, <2>2, <2>3 DEF base
<1>2. ASSUME cur = NoTxn, NEW t \in Txn, Incomplete(t) PROVE base = journal[t].prev
  <2>1. \A u \in Txn : Open(u) <=> u = t
    BY <1>2, ApplyAssumption DEF IInv, HolderOK, SingleOpenTransaction, Open
  <2>2. (CHOOSE u \in Txn : Open(u)) = t
    BY <2>1
  <2> QED BY <2>1, <2>2 DEF base
<1>3. ASSUME cur = NoTxn, \A t \in Txn : ~Incomplete(t) PROVE base = NoGen
  BY <1>3, ApplyAssumption DEF base, Open
<1>4. entries \in Gen \cup {"mixed"}
  <2>1. CASE Uniform = {}
    BY <2>1 DEF entries
  <2>2. CASE Uniform # {}
    <3>1. (CHOOSE g \in Uniform : TRUE) \in Uniform
      BY <2>2
    <3> QED BY <2>2, <3>1 DEF entries, Uniform
  <2> QED BY <2>1, <2>2
<1>5. ASSUME NEW g \in Gen, Prior(g) PROVE entries = g
  <2>1. PICK x \in Targets : x \in Checked
    BY ApplyAssumption DEF Checked
  <2>2. Uniform = {g}
    BY <1>5, <2>1 DEF Uniform, Prior
  <2>3. (CHOOSE h \in Uniform : TRUE) = g
    BY <2>2
  <2> QED BY <2>2, <2>3 DEF entries
<1> QED BY <1>1, <1>2, <1>3, <1>4, <1>5 DEF MappingOK

(* The mapped entries follow the entries.                                  *)
LEMMA EntriesFollow == boot' = boot => entries' = entries
BY DEF entries, Uniform

(* A step that keeps entries, state and the transaction under work.        *)
LEMMA HeldStutters ==
  ASSUME MappingOK, MappingOK', cur # NoTxn, cur' = cur, mem'.prev = mem.prev,
         UNCHANGED <<state, boot>>
  PROVE  UNCHANGED Atomic!view
BY EntriesFollow DEF MappingOK, Atomic!view

(* The lock is released, or goes on to another transaction: the one left   *)
(* ends, unless its journal is still open.                                 *)
LEMMA ReleaseEnds ==
  ASSUME IInv, JInv', MappingOK, MappingOK', cur # NoTxn, cur' = NoTxn,
         UNCHANGED <<state, boot>>, state \in Gen, journal[cur].prev = mem.prev,
         \A t \in Txn \ {cur} : journal'[t] = journal[t],
         journal'[cur].phase \notin Terminal \cup Absent => journal'[cur] = journal[cur]
  PROVE  Atomic!Next \/ UNCHANGED Atomic!view
<1>1. cur \in Txn /\ entries' = entries
  BY EntriesFollow DEF IInv, TypeOK
<1>2. \A t \in Txn \ {cur} : journal'[t].phase \in Terminal \cup Absent
  BY DEF IInv, HolderOK, Incomplete
<1>3. CASE journal'[cur].phase \notin Terminal \cup Absent
  <2>1. base' = base
    BY <1>1, <1>3 DEF MappingOK, Incomplete
  <2> QED BY <1>1, <2>1 DEF Atomic!view
<1>4. CASE journal'[cur].phase \in Terminal \cup Absent
  <2>1. \A t \in Txn : journal'[t].phase \in Terminal \cup Absent
    BY <1>1, <1>2, <1>4
  <2>2. base' = NoGen
    BY <2>1 DEF MappingOK, Incomplete
  <2>3. entries' = state'
    BY <2>1 DEF MappingOK, JInv, ClosedOK, Incomplete
  <2>4. base # NoGen
    BY ApplyAssumption DEF MappingOK, Gen
  <2>5. Atomic!End
    BY <1>1, <2>2, <2>3, <2>4 DEF Atomic!End
  <2> QED BY <2>5 DEF Atomic!Next
<1> QED BY <1>3, <1>4

(* The steps that change the entries or the active generation.             *)
LEMMA InstallSteps ==
  ASSUME IInv, JInv, MappingOK, MappingOK', cur # NoTxn,
         \/ ReplaceEntry \/ UndoEntry \/ SwitchState \/ RestoreEntry \/ RestoreState
  PROVE  Atomic!Next \/ UNCHANGED Atomic!view
<1>1. cur' = cur /\ mem' = mem /\ base' = base /\ base # NoGen /\ base = mem.prev
        /\ base \in Gen
  BY ApplyAssumption
     DEF ReplaceEntry, UndoEntry, SwitchState, RestoreEntry, RestoreState, local,
         MappingOK, Gen
<1>2. CASE ReplaceEntry \/ UndoEntry \/ RestoreEntry
  <2>1. state' = state
    BY <1>2 DEF ReplaceEntry, UndoEntry, RestoreEntry
  <2>2. Atomic!Replace
    BY <1>1, <2>1 DEF Atomic!Replace, MappingOK
  <2> QED BY <2>2 DEF Atomic!Next
<1>3. CASE SwitchState
  <2>1. pc = "switch" /\ boot' = boot /\ state' \in {state, cur} /\ state = mem.prev
    BY <1>3
       DEF SwitchState, At, IInv, StepsOK, BeforeSwitchPcs
  <2>2. entries = cur /\ cur \in Gen
    BY <2>1
       DEF JInv, PcOK, EntriesOK, ReplacedPcs, MappingOK, Prior, Checked, IInv, TypeOK, Gen
  <2>3. CASE state' = state
    BY <1>1, <2>1, <2>3, EntriesFollow DEF Atomic!view
  <2>4. CASE state' = cur
    <3>1. Atomic!Activate
      BY <1>1, <2>1, <2>2, <2>4, EntriesFollow DEF Atomic!Activate
    <3> QED BY <3>1 DEF Atomic!Next
  <2> QED BY <2>1, <2>3, <2>4
<1>4. CASE RestoreState
  <2>1. pc = "priorState" /\ boot' = boot /\ state' \in {state, mem.prev}
    BY <1>4 DEF RestoreState, At
  <2>2. entries = mem.prev
    BY <1>1, <2>1 DEF JInv, PcOK, EntriesOK, MappingOK
  <2>3. CASE state' = state
    BY <1>1, <2>1, <2>3, EntriesFollow DEF Atomic!view
  <2>4. CASE state' = mem.prev
    <3>1. Atomic!TakeBack
      BY <1>1, <2>1, <2>2, <2>4, EntriesFollow DEF Atomic!TakeBack
    <3> QED BY <3>1 DEF Atomic!Next
  <2> QED BY <2>1, <2>3, <2>4
<1> QED BY <1>2, <1>3, <1>4

(* The steps by which the transaction under work changes.                  *)
LEMMA HolderSteps ==
  ASSUME IInv, JInv, JInv', MappingOK, MappingOK',
         \/ \E t \in Txn : \/ PrepareApply(t) \/ AcceptApply(t) \/ Examine(t)
                         \/ RemoveFinished(t)
         \/ RemoveExamined \/ ReportRecovered \/ Return \/ Crash
  PROVE  Atomic!Next \/ UNCHANGED Atomic!view
<1>1. state \in Gen /\ journal \in [Txn -> Journals]
  BY DEF IInv, TypeOK
<1>2. ASSUME NEW t \in Txn, PrepareApply(t)
      PROVE  Atomic!Next
  <2> DEFINE m == [NoJournal EXCEPT !.phase = "prepared", !.prev = state,
                                    !.claim = receipt = state /\ service = state]
  <2>1. m.phase = "prepared" /\ m.prev = state
    BY DEF NoJournal
  <2>2. /\ journal' = [journal EXCEPT ![t] = m] /\ pc = "idle" /\ cur' = cur
        /\ UNCHANGED <<state, boot>> /\ \A u \in Txn : ~Incomplete(u)
    BY <1>2 DEF PrepareApply, At, RejectIncompleteTransactions, local
  <2> HIDE DEF m
  <2>3. cur = NoTxn
    BY <2>2 DEF IInv, HolderOK
  <2>4. base = NoGen
    BY <2>2, <2>3 DEF MappingOK
  <2>5. journal'[t] = m
    BY <1>1, <2>2
  <2>6. journal'[t].phase \notin Terminal \cup Absent
    BY <2>1, <2>5 DEF Terminal, Absent
  <2>7. base' = state
    BY <2>1, <2>2, <2>3, <2>5, <2>6 DEF MappingOK, Incomplete
  <2>8. Atomic!Begin
    BY <2>2, <2>4, <2>7, EntriesFollow DEF Atomic!Begin
  <2> QED BY <2>8 DEF Atomic!Next
<1>3. ASSUME NEW t \in Txn, AcceptApply(t) \/ Examine(t)
      PROVE  UNCHANGED Atomic!view
  <2>1. cur = NoTxn /\ cur' = t /\ t # NoTxn /\ UNCHANGED <<state, boot>>
          /\ mem'.prev = journal[t].prev
    BY <1>3, ApplyAssumption
       DEF AcceptApply, Examine, At, durable, IInv, TypeOK, HolderOK, Journals
  <2>2. Incomplete(t)
    <3>1. CASE AcceptApply(t)
      BY <3>1 DEF AcceptApply, Incomplete, Terminal, Absent
    <3>2. CASE Examine(t)
      BY <3>2 DEF Examine, Incomplete, Terminal, At, IInv, HolderOK, JournalsOK
    <3> QED BY <1>3, <3>1, <3>2
  <2>3. base = journal[t].prev /\ base' = journal[t].prev
    BY <2>1, <2>2 DEF MappingOK
  <2> QED BY <2>1, <2>3, EntriesFollow DEF Atomic!view
<1>4. ASSUME NEW t \in Txn, RemoveFinished(t)
      PROVE  Atomic!Next \/ UNCHANGED Atomic!view
  <2>1. /\ cur = NoTxn /\ cur' = NoTxn /\ UNCHANGED <<state, boot>>
        /\ RemoveDirectory(t)
        /\ journal[t].phase \in {"prepared", "complete", "rolled-back"}
    BY <1>4 DEF RemoveFinished, At, IInv, HolderOK
  <2>2. entries' = entries
    BY <2>1, EntriesFollow
  <2>3. CASE journal' = journal
    <3>1. base' = base
      BY <2>1, <2>3 DEF MappingOK, Incomplete
    <3> QED BY <2>1, <2>2, <3>1 DEF Atomic!view
  <2>4. CASE journal' = [journal EXCEPT ![t] = [NoJournal EXCEPT !.phase = "removed"]]
    <3>1. /\ journal'[t].phase = "removed"
          /\ \A u \in Txn \ {t} : journal'[u] = journal[u]
      BY <1>1, <2>4 DEF NoJournal
    <3>2. CASE journal[t].phase = "prepared"
      <4>1. journal[t].phase \notin Terminal \cup Absent
        BY <3>2 DEF Terminal, Absent
      <4>2. \A u \in Txn \ {t} : journal[u].phase \in Terminal \cup Absent
        BY <2>1, <4>1 DEF IInv, HolderOK, SingleOpenTransaction, Incomplete
      <4>3. \A u \in Txn : ~Incomplete(u)'
        BY <3>1, <4>2 DEF Incomplete, Absent
      <4>4. base' = NoGen /\ entries' = state'
        BY <1>1, <2>1, <4>3 DEF MappingOK, JInv, ClosedOK
      <4>5. base = state /\ base # NoGen
        BY <1>1, <2>1, <3>2, <4>1, ApplyAssumption
           DEF MappingOK, Incomplete, JInv, AllDurableOK, DurableOK, PrePhases, WaitPhases, Gen
      <4>6. Atomic!End
        BY <2>1, <2>2, <4>4, <4>5 DEF Atomic!End
      <4> QED BY <4>6 DEF Atomic!Next
    <3>3. CASE journal[t].phase \in {"complete", "rolled-back"}
      <4>1. \A u \in Txn : Incomplete(u)' <=> Incomplete(u)
        BY <3>1, <3>3 DEF Incomplete, Terminal, Absent
      <4>2. \A u \in Txn : Incomplete(u) => u # t
        BY <3>3 DEF Incomplete, Terminal
      <4>3. base' = base
        BY <2>1, <3>1, <4>1, <4>2 DEF MappingOK
      <4> QED BY <2>1, <2>2, <4>3 DEF Atomic!view
    <3> QED BY <2>1, <3>2, <3>3
  <2> QED BY <2>1, <2>3, <2>4 DEF RemoveDirectory
<1>5. CASE RemoveExamined \/ ReportRecovered \/ Return \/ Crash
  <2>1. UNCHANGED <<state, boot>> /\ cur' = NoTxn
    BY <1>5
       DEF RemoveExamined, ReportRecovered, NextDirectory, Return, Crash, Release, durable
  <2>2. CASE cur = NoTxn
    <3>1. journal' = journal
      BY <1>5, <2>2
         DEF RemoveExamined, ReportRecovered, Return, Crash, durable, At, IInv, HolderOK
    <3>2. base' = base
      BY <2>1, <2>2, <3>1 DEF MappingOK, Incomplete
    <3> QED BY <2>1, <3>2, EntriesFollow DEF Atomic!view
  <2>3. CASE cur # NoTxn
    <3>1. cur \in Txn /\ journal[cur].prev = mem.prev
      BY <2>3 DEF IInv, TypeOK, JInv, PcOK, MemoryOK
    <3>2. \/ journal' = journal
          \/ journal' = [journal EXCEPT ![cur] = [NoJournal EXCEPT !.phase = "removed"]]
      BY <1>5
         DEF RemoveExamined, RemoveDirectory, ReportRecovered, Return, Crash, durable
    <3>3. /\ \A t \in Txn \ {cur} : journal'[t] = journal[t]
          /\ journal'[cur].phase \notin Terminal \cup Absent => journal'[cur] = journal[cur]
      BY <1>1, <3>1, <3>2 DEF NoJournal, Absent
    <3> QED BY <1>1, <2>1, <2>3, <3>1, <3>3, ReleaseEnds
  <2> QED BY <2>2, <2>3
<1> QED BY <1>2, <1>3, <1>4, <1>5

(* Everything else is invisible.                                           *)
LEMMA FrameStutters ==
  ASSUME MappingOK, MappingOK', UNCHANGED <<state, boot, journal, cur, mem>>
  PROVE  UNCHANGED Atomic!view
<1>1. base' = base
  BY DEF MappingOK, Incomplete
<1> QED BY <1>1, EntriesFollow DEF Atomic!view

LEMMA OtherSteps ==
  ASSUME IInv, MappingOK, MappingOK', cur # NoTxn,
         \/ BeforeSwitch /\ ~ReplaceEntry /\ ~UndoEntry
         \/ FromSwitch /\ ~SwitchState
         \/ RecoverFailure \/ DropGeneration \/ RecordRolledBack
         \/ StopRecorded \/ Decide \/ FinishServiceStop \/ RelaunchEarly
         \/ RelaunchEarlyService \/ DropCandidate \/ RelaunchIntent
         \/ RelaunchRestored \/ RelaunchRestoredService \/ RecordRecovered
  PROVE  UNCHANGED Atomic!view
<1>1. \A p : Enter(p).prev = mem.prev
  BY DEF Enter, IInv, TypeOK, Journals
<1>2. ASSUME NEW from, NEW p, NEW ok, NEW failed, Advance(from, p, ok, failed)
      PROVE  cur' = cur /\ mem'.prev = mem.prev /\ UNCHANGED <<state, boot>>
  BY <1>1, <1>2 DEF Advance, WriteJournal
<1>3. CASE \/ AwaitExit \/ StopIntent \/ ParticipantsStopped \/ CopyIntent
           \/ GenerationReady \/ BootstrapIntent \/ BootstrapReady \/ StateIntent
           \/ Activated \/ Complete \/ RelaunchIntent \/ RecordRecovered
  <2>1. cur' = cur /\ mem'.prev = mem.prev /\ UNCHANGED <<state, boot>>
    BY <1>2, <1>3
       DEF AwaitExit, StopIntent, ParticipantsStopped, CopyIntent, GenerationReady,
           BootstrapIntent, BootstrapReady, StateIntent, Activated, Complete,
           RelaunchIntent, RecordRecovered
  <2> QED BY <2>1, HeldStutters
<1>4. CASE CreateGeneration \/ RecordCandidate \/ RecordService \/ RollbackIntent
  <2>1. cur' = cur /\ mem'.prev = mem.prev /\ UNCHANGED <<state, boot>>
    BY <1>1, <1>4
       DEF CreateGeneration, RecordCandidate, RecordService, RollbackIntent, WriteJournal,
           IInv, TypeOK, Journals
  <2> QED BY <2>1, HeldStutters
<1>5. CASE cur' = cur /\ mem' = mem /\ UNCHANGED <<state, boot>>
  BY <1>5, HeldStutters
<1> QED
  BY <1>3, <1>4, <1>5
     DEF BeforeSwitch, FromSwitch, RecoverFailure, durable, local,
         AwaitCommit, ExitTimeout, StepError, StopParticipants, BackupEntries,
         DiscardGeneration, LaunchCandidate, CandidateReady, CandidateFails,
         LaunchService, WriteReceipt, ServiceReady, ServiceFails, ReportApplied,
         StopForRollback, ChooseRollback, DropUnused, VerifyRestored, RelaunchPrevious,
         RelaunchPreviousService, ReportFailure, DropGeneration, RecordRolledBack,
         StopRecorded, Decide, FinishServiceStop, RelaunchEarly, RelaunchEarlyService,
         DropCandidate, RelaunchRestored, RelaunchRestoredService

(* Every step of the update transaction is a step of the atomic switch, or *)
(* leaves its variables alone.                                             *)
LEMMA NextRefines ==
  ASSUME IInv, JInv, JInv', MappingOK, MappingOK', [Next]_vars
  PROVE  [Atomic!Next]_(Atomic!view)
<1>1. CASE \/ \E g \in Gen : AppExit(g)
           \/ StartService \/ RegisterService \/ RegisterRefused \/ ServiceExit
           \/ \E t \in Txn : CommitPreparedApply(t) \/ SkipJournal(t)
           \/ RecoverStart \/ UNCHANGED vars
  <2>1. UNCHANGED <<state, boot, journal, cur, mem>>
    BY <1>1
       DEF AppExit, StartService, RegisterService, RegisterRefused, ServiceExit,
           CommitPreparedApply, SkipJournal, RecoverStart, durable, local, vars
  <2> QED BY <2>1, FrameStutters
<1>2. CASE RecoverFinish
  <2>1. UNCHANGED <<state, boot, journal, cur>>
    BY <1>2 DEF RecoverFinish, Release, At, IInv, HolderOK, durable
  <2>2. cur = NoTxn
    BY <1>2 DEF RecoverFinish, At, IInv, HolderOK
  <2>3. base' = base
    BY <2>1, <2>2 DEF MappingOK, Incomplete
  <2> QED BY <2>1, <2>3, EntriesFollow DEF Atomic!view
<1>3. CASE \/ \E t \in Txn : \/ PrepareApply(t) \/ AcceptApply(t) \/ Examine(t)
                           \/ RemoveFinished(t)
           \/ RemoveExamined \/ ReportRecovered \/ Return \/ Crash
  BY <1>3, HolderSteps
<1>4. CASE \/ ApplyStep \/ RollbackJournal
           \/ StopRecorded \/ Decide \/ FinishServiceStop \/ RelaunchEarly
           \/ RelaunchEarlyService \/ DropCandidate \/ RelaunchIntent
           \/ RelaunchRestored \/ RelaunchRestoredService \/ RecordRecovered
  <2>1. pc \notin {"idle", "next"}
    BY <1>4
       DEF ApplyStep, BeforeSwitch, FromSwitch, RecoverFailure, RollbackJournal,
           AwaitCommit, ExitTimeout, AwaitExit, StepError, StopIntent,
           StopParticipants, ParticipantsStopped, CopyIntent, CreateGeneration,
           GenerationReady, BackupEntries, BootstrapIntent, ReplaceEntry,
           BootstrapReady, StateIntent, UndoEntry, DiscardGeneration, SwitchState,
           Activated, LaunchCandidate, RecordCandidate, CandidateReady, CandidateFails,
           LaunchService, RecordService, WriteReceipt, ServiceReady, ServiceFails,
           Complete, ReportApplied, RollbackIntent, StopForRollback, ChooseRollback,
           DropUnused, VerifyRestored, RelaunchPrevious, RelaunchPreviousService,
           ReportFailure, RestoreEntry, RestoreState, DropGeneration, RecordRolledBack,
           StopRecorded, Decide, FinishServiceStop, RelaunchEarly, RelaunchEarlyService,
           RelaunchRestored, RelaunchRestoredService, DropCandidate, RelaunchIntent,
           RecordRecovered, RelaunchPrior, RelaunchService, Advance, At
  <2>2. cur # NoTxn
    BY <2>1 DEF IInv, HolderOK
  <2> QED BY <1>4, <2>2, InstallSteps, OtherSteps DEF ApplyStep, RollbackJournal
<1> QED BY <1>1, <1>2, <1>3, <1>4 DEF Next, Environment, Work, RecoverStep

(* The initial states map to initial states.                               *)
LEMMA InitRefines ==
  ASSUME Auxiliary # Targets, Init
  PROVE  Atomic!Init
<1>1. IInv /\ JInv
  BY InitOK, InitKeeps
<1>2. MappingOK
  BY <1>1, Mapping
<1>3. \A t \in Txn : ~Incomplete(t)
  BY DEF Init, NoJournal, Incomplete, Absent
<1>4. base = NoGen /\ entries = Initial
  BY <1>2, <1>3 DEF Init, Unlocked, MappingOK, Prior, Checked, Gen
<1> QED BY <1>4 DEF Init, Atomic!Init

(* The update transaction implements the atomic switch of AtomicInstall,   *)
(* whatever fails and wherever it crashes.                                 *)
THEOREM AtomicSwitch ==
  ASSUME Auxiliary # Targets
  PROVE  Spec => ImplementsAtomicInstall
<1>1. IInv /\ JInv => MappingOK
  BY Mapping
<1>2. Init => Atomic!Init
  BY InitRefines
<1>3. IInv /\ JInv /\ JInv' /\ MappingOK /\ MappingOK' /\ [Next]_vars
        => [Atomic!Next]_(Atomic!view)
  BY NextRefines
<1> QED BY <1>1, <1>2, <1>3, Inductive, AlwaysJInv, PTL
        DEF Spec, ImplementsAtomicInstall, Atomic!Spec
=============================================================================
