---------------------------- MODULE UpdateService ----------------------------
(***************************************************************************)
(* How an update reaches the install transaction: the desktop's update     *)
(* service, which runs one package manager child at a time to inspect,     *)
(* check, stage, repair and prepare the apply; the `headroom update' that  *)
(* asks the desktop for an update and waits for its answer; the paired     *)
(* coordinator that the desktop starts and that calls it back; and the     *)
(* staging directory, from which nothing verified is ever removed.         *)
(***************************************************************************)
EXTENDS Naturals, FiniteSets

CONSTANTS
  MaxVersion,  \* releases are numbered 1 .. MaxVersion
  Stage,       \* numbers for stage directories (random names in the code)
  None,
  MaxFaults    \* bound: failures, cancellations, timeouts, and what others do

ASSUME UpdateAssumption ==
  /\ MaxVersion \in Nat \ {0} /\ MaxFaults \in Nat /\ Stage \subseteq Nat
  /\ None \notin Stage /\ None \notin [version : 1 .. MaxVersion, done : BOOLEAN, old : BOOLEAN]

VARIABLES
  latest,   \* the release that the release service names, 0 for none
  active,   \* the active generation: version, whether a component is missing,
            \* and what became of the latest update
  mine,     \* the desktop runs from the active generation
  stages,   \* what is in the staging directory
  up,       \* the desktop runs
  app,      \* the fields of UpdateService
  tool,     \* its child process: operation, stop asked for, its answer
  asked,    \* m_cliReply: a `headroom update' waits for its answer
  due,      \* the queued call of restartToApply
  paired,   \* pairing/windows-wsl.json: absent, there but not active, or active
  pair,     \* m_pairProcess: the coordinator's process
  reply,    \* the latest answer to a `headroom update'
  commit,   \* the stage the desktop wrote commit.json for, and for whom
  faults

world == <<latest, active, mine, paired>>
vars == <<world, stages, up, app, tool, asked, due, pair, reply, commit, faults>>

Version == 1 .. MaxVersion
Pairings == {"none", "inactive", "active"}
Operation == {"inspect", "check", "stage", "repair", "apply"}

NoTool == [op |-> "none", stop |-> FALSE, got |-> None]
NoReply == [status |-> "none", version |-> 0]
NoCommit == [stage |-> None, cli |-> FALSE]
Fault == faults < MaxFaults /\ faults' = faults + 1

(* A new UpdateService; its constructor inspects the installation.         *)
NewApp(version) ==
  [running |-> version, st |-> "checking", official |-> FALSE, repairable |-> FALSE, cli |-> FALSE,
   suppress |-> FALSE, autoStarted |-> FALSE, autoPending |-> FALSE, autoStage |-> FALSE,
   verified |-> None, isRepair |-> FALSE, seen |-> 0]

Inspect == [op |-> "inspect", stop |-> FALSE, got |-> None]

-----------------------------------------------------------------------------
(* The package manager's side (update.go).                                 *)

Newer(left, right) == left > right
Done(s) == s # None /\ stages[s] # None /\ stages[s].done
Record(version, done) == [version |-> version, done |-> done, old |-> FALSE]

(* Mutant: what is old is removed, verified or not.                        *)
AllOld == {s \in Stage : stages[s] # None /\ (stages[s].old \/ stages[s].done)}

(* CleanupAbandoned: stages that were never completed, after an hour.      *)
Abandoned == {s \in Stage : stages[s] # None /\ stages[s].old /\ ~stages[s].done}
Cleaned == [s \in Stage |-> IF s \in Abandoned THEN None ELSE stages[s]]

(* A new directory: names are interchangeable, the least free one is taken.*)
Free == {s \in Stage : Cleaned[s] = None}
NewStage == {s \in Free : \A t \in Free : s <= t}

(* resolve: what there is to download, if anything.                        *)
Wanted(op) ==
  IF op = "repair"
  THEN IF active.damaged THEN {active.version} ELSE {}
  ELSE IF latest > 0 /\ Newer(latest, active.version) THEN {latest} ELSE {}

Answered(status, version, stage) ==
  [status |-> status, current |-> active.version, version |-> version, stage |-> stage]

(* Check, StageLatest or StageRepair without anything to stage.            *)
NothingWanted ==
  IF latest = 0 THEN Answered("unavailable", 0, None) ELSE Answered("current", latest, None)

Working(op) == up /\ tool.op = op /\ tool.got = None
Gives(got) == tool' = [tool EXCEPT !.got = got]

ToolChecks ==
  /\ Working("check")
  /\ stages' = Cleaned
  /\ Gives(IF Wanted("check") # {} THEN Answered("available", latest, None) ELSE NothingWanted)
  /\ UNCHANGED <<world, up, app, asked, due, pair, reply, commit, faults>>

(* downloadAndStage, StageArchive: the directory is there before what it   *)
(* holds is verified.                                                      *)
ToolDownloads ==
  /\ \/ Working("stage") \/ Working("repair")
  /\ IF Wanted(tool.op) = {}
     THEN /\ tool.op = "stage" /\ Gives(NothingWanted) /\ stages' = Cleaned
     ELSE \E version \in Wanted(tool.op), s \in NewStage :
            /\ stages' = [Cleaned EXCEPT ![s] = Record(version, FALSE)]
            /\ Gives(Answered("staging", version, s))
  /\ UNCHANGED <<world, up, app, asked, due, pair, reply, commit, faults>>

ToolVerifies ==
  /\ up /\ tool.got # None /\ tool.got.status = "staging"
  /\ stages' = [stages EXCEPT ![tool.got.stage].done = TRUE]
  /\ tool' = [tool EXCEPT !.got.status = "staged"]
  /\ UNCHANGED <<world, up, app, asked, due, pair, reply, commit, faults>>

(* PrepareApply with the desktop's stage, and the acknowledgement of the   *)
(* manager that it starts: ApplyTransaction has the detail.                *)
Preparable ==
  Done(app.verified) /\ mine /\ ~Newer(active.version, stages[app.verified].version)

ToolPrepares ==
  /\ Working("apply") /\ Preparable
  /\ Gives(Answered("prepared", stages[app.verified].version, app.verified))
  /\ UNCHANGED <<world, stages, up, app, asked, due, pair, reply, commit, faults>>

ToolInspects ==
  /\ Working("inspect")
  /\ Gives(Answered("inspected", active.version, None))
  /\ UNCHANGED <<world, stages, up, app, asked, due, pair, reply, commit, faults>>

ToolWorks == ToolChecks \/ ToolDownloads \/ ToolVerifies \/ ToolPrepares \/ ToolInspects

-----------------------------------------------------------------------------
(* The service.                                                            *)

Busy == tool.op # "none" \/ pair # "none"

(* run: what is shown, and the child.                                      *)
Showing(op) ==
  CASE op \in {"check", "inspect"} -> "checking" [] op = "apply" -> "applying" [] OTHER -> "downloading"

Run(a, op) ==
  /\ app' = [a EXCEPT !.st = Showing(op)]
  /\ tool' = [op |-> op, stop |-> FALSE, got |-> None]

Rest(a) == app' = a /\ tool' = NoTool

(* finishCLIRequest, if one is waiting.  What is not "accepted" or         *)
(* "current" is a refusal, whatever its reason.                            *)
Answer(asking, status, version) ==
  /\ asked' = FALSE
  /\ reply' = IF ~asking THEN reply
              ELSE IF status \in {"accepted", "current"} THEN [status |-> status, version |-> version]
              ELSE [NoReply EXCEPT !.status = "declined"]

Failed(a) == [a EXCEPT !.autoStage = FALSE, !.verified = None, !.st = "failed"]

(* Mutant: the command that waits is forgotten.                            *)
FailSilently(a, asking) == Rest(Failed(a)) /\ UNCHANGED <<asked, reply>>

(* fail, and the end of a child that was cancelled or timed out.           *)
Fail(a, asking) == Rest(Failed(a)) /\ Answer(asking, "failed", a.seen)

StartAutomaticCheck ==
  /\ up /\ ~app.autoStarted
  /\ LET a == [app EXCEPT !.autoStarted = TRUE] IN
     IF app.suppress THEN app' = a /\ UNCHANGED tool
     ELSE IF tool.op = "none" /\ app.official THEN Run([a EXCEPT !.autoStage = TRUE], "check")
     ELSE app' = [a EXCEPT !.autoPending = TRUE] /\ UNCHANGED tool
  /\ UNCHANGED <<world, stages, up, asked, due, pair, reply, commit, faults>>

(* The buttons: check, download, repair.                                   *)
CheckForUpdates ==
  /\ up /\ app.official /\ ~Busy /\ ~asked
  /\ Run([app EXCEPT !.suppress = FALSE, !.autoStage = FALSE], "check")
  /\ UNCHANGED <<world, stages, up, asked, due, pair, reply, commit, faults>>

StageUpdate ==
  /\ up /\ app.st = "available" /\ ~Busy
  /\ Run(app, "stage")
  /\ UNCHANGED <<world, stages, up, asked, due, pair, reply, commit, faults>>

RepairInstallation ==
  /\ up /\ app.repairable /\ ~Busy /\ ~asked
  /\ Run(app, "repair")
  /\ UNCHANGED <<world, stages, up, asked, due, pair, reply, commit, faults>>

(* Mutant: as if whatever can be repaired were a repair.                   *)
ThroughPairUnlessRepairable == ~asked /\ ~app.repairable /\ paired # "none"

(* An update, not a repair, that the user starts goes through the pair.    *)
ThroughPair == ~asked /\ ~app.isRepair /\ paired # "none"

(* startPairedUpdate: a pair that is not active only shows a message, and  *)
(* one whose command is missing fails; no command waits here.              *)
StartPairedUpdate ==
  IF pair # "none" \/ paired # "active" THEN UNCHANGED <<app, tool, pair>>
  ELSE IF ~app.cli THEN Rest(Failed(app)) /\ UNCHANGED pair
  ELSE pair' = "running" /\ UNCHANGED <<app, tool>>

(* restartToApply, by the button or by the queued call, which may find     *)
(* that there is nothing to do any more.                                   *)
RestartToApply ==
  IF app.st # "staged" \/ app.verified = None \/ tool.op # "none" THEN UNCHANGED <<app, tool, pair>>
  ELSE IF ThroughPair THEN StartPairedUpdate
       ELSE Run(app, "apply") /\ UNCHANGED pair

PressRestart ==
  /\ up /\ app.st = "staged" /\ RestartToApply
  /\ UNCHANGED <<world, stages, up, asked, due, reply, commit, faults>>

QueuedRestart ==
  /\ up /\ due /\ due' = FALSE /\ RestartToApply
  /\ UNCHANGED <<world, stages, up, asked, reply, commit, faults>>

(* Mutant: the version is noted at the check only.                         *)
SeenIfAvailable(a, got) == IF got.status = "available" THEN [a EXCEPT !.seen = got.version] ELSE a

(* m_latestVersion.                                                        *)
Seen(a, got) == [a EXCEPT !.seen = got.version]

(* handleUpdateResult: what the package manager answered must be about     *)
(* this application, and a stage what its record says.                     *)
Recognized(a, got) ==
  /\ a.official /\ got.current = a.running
  /\ got.status = "staged" => Done(got.stage) /\ stages[got.stage].version = got.version

HandleUpdateResult(a, asking, op, got) ==
  LET seen == Seen(a, got)
      shown == [seen EXCEPT !.autoStage = FALSE, !.st = got.status] IN
  IF ~Recognized(a, got) THEN Fail(a, asking) /\ UNCHANGED due
  ELSE IF got.status = "available" /\ a.autoStage
  THEN Run([seen EXCEPT !.autoStage = FALSE], "stage") /\ asked' = asking /\ UNCHANGED <<due, reply>>
  ELSE IF got.status = "staged"
  THEN /\ Rest([shown EXCEPT !.verified = got.stage, !.isRepair = op = "repair"])
       /\ asked' = asking /\ due' = (due \/ asking) /\ UNCHANGED reply
  ELSE /\ Rest(shown)
       /\ Answer(asking, got.status, got.version) /\ UNCHANGED due

(* handleInspection: the generation this application runs from is the      *)
(* active one; a failed update suppresses the automatic check.  The        *)
(* command is there if nothing is missing and it has an entry.             *)
Inspected(cli) ==
  [app EXCEPT !.official = TRUE, !.autoPending = FALSE, !.cli = cli,
              !.suppress = @ \/ active.status = "rolled_back",
              !.repairable = @ \/ active.damaged,
              !.st = IF active.status = "rolled_back" THEN "failed" ELSE "current"]

HandleInspection(got) ==
  /\ IF ~mine \/ got.current # app.running THEN Rest([app EXCEPT !.st = "unavailable"])
     ELSE \E cli \in {FALSE, ~active.damaged} :
            IF app.autoPending /\ ~Inspected(cli).suppress
            THEN Run([Inspected(cli) EXCEPT !.autoStage = TRUE], "check")
            ELSE Rest(Inspected(cli))
  /\ UNCHANGED <<asked, due, reply>>

(* authorizePreparedApply: the application commits to the stage that it    *)
(* had verified, answers, and quits.                                       *)
Authorize(got) ==
  /\ got.stage = app.verified
  /\ commit' = [stage |-> got.stage, cli |-> asked]
  /\ Answer(asked, "accepted", app.seen)
  /\ Rest(app) /\ up' = FALSE /\ due' = FALSE /\ pair' = "none"
  /\ UNCHANGED <<world, stages, faults>>

Answering == up /\ tool.got # None /\ tool.got.status # "staging" /\ ~tool.stop

ToolAnswers ==
  /\ Answering /\ tool.op # "apply"
  /\ IF tool.op = "inspect" THEN HandleInspection(tool.got)
     ELSE HandleUpdateResult(app, asked, tool.op, tool.got)
  /\ UNCHANGED <<world, stages, up, pair, commit, faults>>

ToolPrepared == Answering /\ tool.op = "apply" /\ Authorize(tool.got)

(* What is left of a stage when its download is cut short: a killed child  *)
(* leaves the directory, one that notices the cancellation removes it.     *)
LeftStages ==
  {stages} \cup IF tool.got # None /\ tool.got.stage # None
                THEN {[stages EXCEPT ![tool.got.stage] = None]} ELSE {}

(* cancel, or the timeout: standard input is closed, later the child is    *)
(* killed.  It may have done its work all the same.                        *)
StopTool ==
  /\ up /\ tool.op # "none" /\ ~tool.stop /\ Fault
  /\ tool' = [tool EXCEPT !.stop = TRUE]
  /\ UNCHANGED <<world, stages, up, app, asked, due, pair, reply, commit>>

ToolStopped ==
  /\ up /\ tool.stop
  /\ Fail(app, asked)
  /\ stages' \in IF tool.op = "apply" THEN {stages} ELSE LeftStages
  /\ UNCHANGED <<world, up, due, pair, commit, faults>>

(* The child reports an error, or does not run at all.                     *)
CannotWork ==
  \/ Working("apply") /\ ~Preparable
  \/ Working("repair") /\ Wanted("repair") = {}
  \/ tool.op \in {"stage", "repair"} /\ tool.got = None /\ Wanted(tool.op) # {}
       /\ Free = {}

ToolFails ==
  /\ up /\ tool.op # "none" /\ ~tool.stop
  /\ (CannotWork /\ UNCHANGED faults) \/ Fault
  /\ Fail(app, asked)
  /\ stages' \in IF tool.op = "apply" THEN {stages} ELSE LeftStages
  /\ UNCHANGED <<world, up, due, pair, commit>>

ToolEnds == ToolAnswers \/ ToolPrepared \/ ToolStopped \/ (ToolFails /\ UNCHANGED faults)

-----------------------------------------------------------------------------
(* `headroom update', and the coordinator of a pair.                       *)

(* The command has staged the release itself (or crashes while at it).     *)
CommandStages ==
  /\ \E version \in Wanted("stage") \cup Wanted("repair"), s \in NewStage, done \in BOOLEAN :
       /\ stages' = [Cleaned EXCEPT ![s] = Record(version, done)]
       /\ IF done THEN UNCHANGED faults ELSE Fault
  /\ UNCHANGED <<world, up, app, tool, asked, due, pair, reply, commit>>

(* requestCLIUpdate, with the stage to apply or for the latest release.    *)
(* Anything else is turned down as busy, without a change.                 *)
Accepts == up /\ app.official /\ ~asked /\ tool.op = "none"

Ask(s) ==
  LET a == [app EXCEPT !.suppress = FALSE, !.autoStage = TRUE]
      prepared == [status |-> "staged", current |-> app.running,
                   version |-> stages[s].version, stage |-> s] IN
  IF s = None THEN Run(a, "check") /\ asked' = TRUE /\ reply' = NoReply /\ UNCHANGED due
  ELSE HandleUpdateResult(a, TRUE, "stage", prepared)

CommandAsks ==
  /\ Accepts /\ pair = "none"
  /\ \E s \in Stage \cup {None} :
       /\ s # None => Done(s) /\ ~Newer(active.version, stages[s].version)
       /\ Ask(s)
  /\ UNCHANGED <<world, stages, up, pair, commit, faults>>

(* The coordinator commits its own side last, by the same request.         *)
CoordinatorAsks ==
  /\ Accepts /\ pair = "running"
  /\ \E s \in Stage : Done(s) /\ ~Newer(active.version, stages[s].version) /\ Ask(s)
  /\ pair' = "called"
  /\ UNCHANGED <<world, stages, up, commit, faults>>

(* Its process ends: after the answer, or with an error, or killed.        *)
CoordinatorEnds(success) ==
  /\ up /\ pair # "none" /\ pair' = "none"
  /\ success => \/ pair = "called" /\ ~asked /\ reply.status # "declined"
                \/ pair = "running" /\ ~Newer(latest, active.version)
  /\ app' = IF asked \/ tool.op # "none" THEN app
            ELSE IF success THEN [app EXCEPT !.verified = None, !.st = "current"]
            ELSE [app EXCEPT !.st = "staged"]
  /\ UNCHANGED <<world, stages, up, tool, asked, due, reply, commit, faults>>

-----------------------------------------------------------------------------
(* Around them.                                                            *)

(* The user quits the desktop, or it dies: the command's connection with   *)
(* it, and the children that it had.                                       *)
Quit ==
  /\ up /\ up' = FALSE /\ Fault
  /\ tool' = NoTool /\ pair' = "none" /\ asked' = FALSE /\ due' = FALSE
  /\ UNCHANGED <<world, stages, app, reply, commit>>

(* The active generation is started, by the update's manager or a user.    *)
Relaunch ==
  /\ ~up /\ up' = TRUE /\ mine' = TRUE
  /\ \/ /\ commit # NoCommit
        /\ active' = [version |-> stages[commit.stage].version, damaged |-> FALSE, status |-> "applied"]
        /\ UNCHANGED faults
     \/ commit # NoCommit /\ active' = [active EXCEPT !.status = "rolled_back"] /\ Fault
     \/ commit = NoCommit /\ UNCHANGED <<active, faults>>
  /\ app' = NewApp(active'.version) /\ tool' = Inspect
  /\ commit' = NoCommit /\ reply' = NoReply
  /\ UNCHANGED <<latest, paired, stages, asked, due, pair>>

(* An installer activates another generation, of any version; or an        *)
(* auxiliary component of the active one is lost.                          *)
Reinstall ==
  /\ up /\ Fault /\ mine' = FALSE
  /\ \E version \in Version : active' = [version |-> version, damaged |-> FALSE, status |-> "none"]
  /\ UNCHANGED <<latest, paired, stages, up, app, tool, asked, due, pair, reply, commit>>

Damage ==
  /\ up /\ Fault /\ active' = [active EXCEPT !.damaged = TRUE]
  /\ UNCHANGED <<latest, mine, paired, stages, up, app, tool, asked, due, pair, reply, commit>>

(* A release is published, or withdrawn.                                   *)
Publish ==
  /\ latest' \in 0 .. MaxVersion
  /\ IF Newer(latest', latest) THEN UNCHANGED faults ELSE Fault
  /\ UNCHANGED <<active, mine, paired, stages, up, app, tool, asked, due, pair, reply, commit>>

(* An hour passes over a stage that nobody works on.                       *)
Age(s) ==
  /\ stages[s] # None /\ ~stages[s].done
  /\ tool.got # None => tool.got.stage # s
  /\ stages' = [stages EXCEPT ![s].old = TRUE]
  /\ UNCHANGED <<world, up, app, tool, asked, due, pair, reply, commit, faults>>

Init ==
  /\ latest \in 0 .. MaxVersion /\ paired \in Pairings
  /\ active \in [version : {1}, damaged : BOOLEAN, status : {"none"}]
  /\ mine = TRUE /\ stages = [s \in Stage |-> None]
  /\ up = TRUE /\ app = NewApp(1) /\ tool = Inspect
  /\ asked = FALSE /\ due = FALSE /\ pair = "none"
  /\ reply = NoReply /\ commit = NoCommit /\ faults = 0

Buttons == CheckForUpdates \/ StageUpdate \/ RepairInstallation \/ PressRestart
Commands == CommandStages \/ CommandAsks \/ CoordinatorAsks \/ \E ok \in BOOLEAN : CoordinatorEnds(ok)
Around == Quit \/ Relaunch \/ Reinstall \/ Damage \/ Publish \/ \E s \in Stage : Age(s)

Next ==
  \/ ToolWorks \/ ToolEnds \/ ToolFails \/ StopTool
  \/ StartAutomaticCheck \/ QueuedRestart \/ Buttons \/ Commands \/ Around

(* A child is stopped after two and a half minutes at the latest, and a    *)
(* queued call is made.                                                    *)
Fairness == WF_vars(ToolWorks \/ ToolEnds) /\ WF_vars(QueuedRestart)

Spec == Init /\ [][Next]_vars /\ Fairness

-----------------------------------------------------------------------------
TypeOK ==
  /\ latest \in 0 .. MaxVersion /\ mine \in BOOLEAN /\ paired \in Pairings
  /\ active \in [version : Version, damaged : BOOLEAN, status : {"none", "applied", "rolled_back"}]
  /\ stages \in [Stage -> [version : Version, done : BOOLEAN, old : BOOLEAN] \cup {None}]
  /\ up \in BOOLEAN /\ asked \in BOOLEAN /\ due \in BOOLEAN
  /\ app \in [running : Version, official : BOOLEAN, repairable : BOOLEAN, cli : BOOLEAN,
              suppress : BOOLEAN,
              st : {"unavailable", "checking", "current", "available", "downloading", "staged",
                    "applying", "failed"},
              autoStarted : BOOLEAN, autoPending : BOOLEAN, autoStage : BOOLEAN,
              verified : Stage \cup {None}, isRepair : BOOLEAN, seen : 0 .. MaxVersion]
  /\ tool \in [op : Operation \cup {"none"}, stop : BOOLEAN,
               got : [status : {"inspected", "unavailable", "current", "available", "staging",
                                "staged", "prepared"},
                      current : Version, version : 0 .. MaxVersion, stage : Stage \cup {None}]
                     \cup {None}]
  /\ pair \in {"none", "running", "called"}
  /\ reply \in [status : {"none", "current", "accepted", "declined"}, version : 0 .. MaxVersion]
  /\ commit \in [stage : Stage \cup {None}, cli : BOOLEAN]
  /\ faults \in 0 .. MaxFaults

(* What the desktop holds ready to apply, and what it has committed to, is *)
(* on disk and verified, whichever commands clean up the staging directory *)
(* meanwhile.                                                              *)
StageKept ==
  \A s \in {app.verified, commit.stage} \ {None} : Done(s)

(* A `headroom update' that is told "accepted" or "current" is told the    *)
(* version which then is: that of the committed stage, or one that is not  *)
(* newer than the running one - whatever was checked, cancelled or asked   *)
(* for in between.                                                         *)
ReplyTrue ==
  /\ reply.status = "accepted" => stages[commit.stage].version = reply.version
  /\ reply.status = "current" => ~Newer(reply.version, app.running)

(* A paired desktop by itself does not leave the version it shares: what   *)
(* it commits unasked is a repair of that version (restartToApply).        *)
PairKeepsStep ==
  paired # "none" /\ commit # NoCommit /\ ~commit.cli
    => stages[commit.stage].version = app.running

(* Every accepted `headroom update' is answered: through failures,         *)
(* cancellations, automatic checks, and the calls of the coordinator.      *)
RequestAnswered == asked ~> ~asked
=============================================================================
