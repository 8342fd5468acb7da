--------------------------- MODULE PairedInstalls ---------------------------
(***************************************************************************)
(* A Windows desktop and a WSL server that are updated together: the state *)
(* of the two installations and of what they keep for each other, and the  *)
(* native update of each one, of which ApplyTransaction has the detail.    *)
(***************************************************************************)
EXTENDS Integers, FiniteSets

CONSTANTS
  MaxVersion,  \* releases are numbered 1 .. MaxVersion
  Ids,         \* pairing identifiers (random in the code, so never reused)
  Ops,         \* operation identifiers, likewise
  Home,        \* the end whose user repeats an unfinished command
  MaxFaults    \* bound on crashes, timeouts, failures, and commands elsewhere

End == {"windows", "linux"}
Peer(e) == IF e = "windows" THEN "linux" ELSE "windows"
Version == 1 .. MaxVersion

ASSUME EndsAssumption == Home \in End /\ MaxVersion \in Nat \ {0} /\ MaxFaults \in Nat
ASSUME NamesAssumption == Ids \subseteq Nat \ {0} /\ Ops \subseteq Nat \ {0}

VARIABLES
  latest,    \* the newest release published for both packages
  inst,      \* the active version and its apply status, as `inspect' reports them
  tx,        \* the committed native transaction of an end
  stage,     \* pairing/prepared-update.json
  config,    \* pairing/windows-wsl.json
  progress,  \* pairing/update-progress.json
  pair,      \* the `headroom pair' command of an end
  offers,    \* offers on their way to an end
  co,        \* the `headroom update' coordinator of an end
  calls,     \* prepare and commit requests on their way to an end
  faults

files == <<stage, config, progress>>
pairing == <<config, pair, offers>>
updating == <<stage, progress, co, calls>>
vars == <<latest, inst, tx, files, pair, offers, co, calls, faults>>

(* Which unused name is taken does not matter: the least.                  *)
NoOp == 0
Least(names) == {n \in names : \A other \in names : n <= other}

NoTx == [phase |-> "none", from |-> 0, to |-> 0]
NoStage == [op |-> NoOp, version |-> 0, base |-> 0]
NoConfig == [id |-> NoOp, state |-> "none"]
NoProgress == [phase |-> "none", version |-> 0, peer |-> 0]
Idle == [pc |-> "idle", reconcile |-> FALSE, gen |-> 0, version |-> 0, peer |-> 0,
         probe |-> 0, confirmed |-> FALSE, localOp |-> NoOp, peerOp |-> NoOp]

(* LockPairedUpdate: the pair command and the coordinator hold it from its *)
(* taking to their end, a request handler while it carries the request out.*)
Locked(e) == pair[e] # "idle" \/ co[e].pc \notin {"idle", "locking"}

(* The launcher recovers before it starts the CLI and waits for the lock   *)
(* of the install transaction, which a transaction holds from its switch   *)
(* to its end: no CLI starts from a generation not known to be ready.      *)
Launchable(e) == tx[e].phase # "switched"

(* The active CLI runs updates: a process of another generation may not.   *)
ManagedInstall(e, gen) == inst[e].version = gen

(* The version the installation keeps should the open transaction fail.    *)
Secured(e) == IF tx[e].phase = "switched" THEN tx[e].from ELSE inst[e].version

(* Mutant: whatever reports the version is taken for ready.                *)
VerifyVersion(e, version, probed) == inst[e].version = version

(* The manager of the probed generation reports the requested version:     *)
(* while it was another one, only the recorded outcome shows that it runs. *)
VerifyOK(e, version, probed) ==
  /\ inst[e].version = version
  /\ version # probed => inst[e].status = "applied"
  /\ inst[e].status # "rolled_back"

Fault == faults < MaxFaults /\ faults' = faults + 1

-----------------------------------------------------------------------------
(* Mutant: an older release is staged as well.                             *)
StageableAny(e, version) == inst[e].version # version /\ version <= latest

(* StageVersion: never older than the installation; the same version is    *)
(* current and stages nothing.                                             *)
Stageable(e, version) == inst[e].version < version /\ version <= latest
Current(e, version) == inst[e].version = version

(* PrepareApply and CommitPreparedApply of a stage that was verified for   *)
(* the installation as it still is; there is one transaction at a time.    *)
Applicable(e, s) ==
  /\ s.version > 0 /\ s.base = inst[e].version
  /\ tx[e] = NoTx

OpenTransaction(e, version) ==
  tx' = [tx EXCEPT ![e] = [phase |-> "committed", from |-> inst[e].version, to |-> version]]

(* `headroom update --this-install-only', which goes around the pairing,   *)
(* to the latest release or to the one that the other end is left with.    *)
UpdateLocal(e) ==
  /\ tx[e] = NoTx
  /\ \E version \in {latest, progress[Peer(e)].version} :
       Stageable(e, version) /\ OpenTransaction(e, version)
  /\ IF e = Home THEN Fault ELSE UNCHANGED faults
  /\ UNCHANGED <<latest, inst, files, pair, offers, co, calls>>

(* The install state names the candidate: no outcome is recorded of it.    *)
Switch(e) ==
  /\ tx[e].phase = "committed"
  /\ tx' = [tx EXCEPT ![e].phase = "switched"]
  /\ inst' = [inst EXCEPT ![e] = [version |-> tx[e].to, status |-> "none"]]
  /\ UNCHANGED <<latest, files, pair, offers, co, calls, faults>>

(* The candidate is ready; a crash, or a write whose error is ignored,     *)
(* leaves the completed transaction without its outcome.                   *)
Complete(e) ==
  /\ tx[e].phase = "switched"
  /\ tx' = [tx EXCEPT ![e] = NoTx]
  /\ \/ inst' = [inst EXCEPT ![e].status = "applied"] /\ UNCHANGED faults
     \/ Fault /\ UNCHANGED inst
  /\ UNCHANGED <<latest, files, pair, offers, co, calls>>

(* The apply, or the recovery after its crash, restores the previous one.  *)
RollBack(e) ==
  /\ tx[e].phase # "none" /\ Fault
  /\ tx' = [tx EXCEPT ![e] = NoTx]
  /\ inst' = [inst EXCEPT ![e] = [version |-> tx[e].from, status |-> "rolled_back"]]
  /\ UNCHANGED <<latest, files, pair, offers, co, calls>>

Release ==
  /\ latest < MaxVersion /\ latest' = latest + 1
  /\ UNCHANGED <<inst, tx, files, pair, offers, co, calls, faults>>

NativeStep(e) == Switch(e) \/ Complete(e)
=============================================================================
