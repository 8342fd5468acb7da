------------------------ MODULE UpdateServiceProofs -------------------------
(***************************************************************************)
(* Theorems about the update service, for any number of releases, stage    *)
(* directories and failures.                                               *)
(***************************************************************************)
EXTENDS UpdateService, TLAPS

-----------------------------------------------------------------------------
(* The types, by name.                                                     *)
Actives == [version : Version, damaged : BOOLEAN, status : {"none", "applied", "rolled_back"}]
StageRecords == [version : Version, done : BOOLEAN, old : BOOLEAN]
States ==
  {"unavailable", "checking", "current", "available", "downloading", "staged", "applying",
   "failed"}
Apps ==
  [running : Version, official : BOOLEAN, repairable : BOOLEAN, cli : BOOLEAN, suppress : BOOLEAN,
   st : States, autoStarted : BOOLEAN, autoPending : BOOLEAN, autoStage : BOOLEAN,
   verified : Stage \cup {None}, isRepair : BOOLEAN, seen : 0 .. MaxVersion]
Shown == {"unavailable", "current", "available", "staged"}
Answers ==
  [status : Shown \cup {"inspected", "staging", "prepared"},
   current : Version, version : 0 .. MaxVersion, stage : Stage \cup {None}]
Tools ==
  [op : Operation \cup {"none"}, stop : BOOLEAN, got : Answers \cup {None}]
Replies ==
  [status : {"none", "current", "accepted", "declined"}, version : 0 .. MaxVersion]
Commits == [stage : Stage \cup {None}, cli : BOOLEAN]

LEMMA Types ==
  TypeOK <=>
    /\ latest \in 0 .. MaxVersion /\ mine \in BOOLEAN /\ paired \in Pairings
    /\ active \in Actives /\ stages \in [Stage -> StageRecords \cup {None}]
    /\ up \in BOOLEAN /\ asked \in BOOLEAN /\ due \in BOOLEAN
    /\ app \in Apps /\ tool \in Tools /\ pair \in {"none", "running", "called"}
    /\ reply \in Replies /\ commit \in Commits /\ faults \in 0 .. MaxFaults
<1>1. Shown \cup {"inspected", "staging", "prepared"}
        = {"inspected", "unavailable", "current", "available", "staging", "staged", "prepared"}
  BY DEF Shown
<1> QED BY <1>1 DEF TypeOK, Actives, StageRecords, States, Apps, Answers, Tools, Replies, Commits

-----------------------------------------------------------------------------
(* The inductive invariant: beside the types, a download has its directory *)
(* for itself, and the desktop's child answers what it was asked.          *)
Downloads(op) == op \in {"check", "stage", "repair"}

ToolOK ==
  tool.got # None =>
    /\ tool.op # "none"
    /\ Downloads(tool.op) => tool.got.status \in Shown \cup {"staging"}
    /\ tool.got.status = "staging" =>
         Downloads(tool.op) /\ tool.got.stage \in Stage /\ stages[tool.got.stage] \in StageRecords
    /\ tool.op # "apply" /\ tool.got.stage # None =>
         tool.got.stage \notin {app.verified, commit.stage}
    /\ tool.op = "apply" => tool.got.stage # None

(* ... and what is downloaded is not as old as what a clean-up removes.    *)
DownloadOK ==
  tool.got # None /\ tool.got.status = "staging" => ~stages[tool.got.stage].old

(* What is committed to is a stage.                                        *)
CommitOK == commit.stage = None => commit = NoCommit

IInv == TypeOK /\ ToolOK /\ DownloadOK /\ CommitOK /\ StageKept
-----------------------------------------------------------------------------
(* What the operations of the service are built from.                      *)
LEMMA Now ==
  ASSUME IInv
  PROVE  /\ latest \in 0 .. MaxVersion /\ active \in Actives /\ app \in Apps /\ tool \in Tools
         /\ reply \in Replies /\ commit \in Commits /\ stages \in [Stage -> StageRecords \cup {None}]
         /\ asked \in BOOLEAN /\ due \in BOOLEAN /\ up \in BOOLEAN
         /\ pair \in {"none", "running", "called"}
         /\ MaxVersion \in Nat \ {0} /\ 0 \in 0 .. MaxVersion /\ Version \subseteq 0 .. MaxVersion
BY Types, UpdateAssumption DEF IInv, Version

LEMMA RunTypes ==
  ASSUME NEW a \in Apps, NEW op \in Operation, Run(a, op)
  PROVE  app' \in Apps /\ app'.verified = a.verified /\ tool' \in Tools /\ tool'.got = None
<1>1. Showing(op) \in States
  BY DEF Showing, States
<1> QED BY <1>1 DEF Run, Apps, Tools

LEMMA RestTypes ==
  ASSUME NEW a \in Apps, Rest(a)
  PROVE  app' = a /\ app' \in Apps /\ tool' \in Tools /\ tool'.got = None
BY DEF Rest, Tools, NoTool

LEMMA AnswerTypes ==
  ASSUME IInv, NEW asking \in BOOLEAN, NEW status, NEW v \in 0 .. MaxVersion,
         Answer(asking, status, v)
  PROVE  asked' \in BOOLEAN /\ reply' \in Replies
<1>1. asked' = FALSE
  BY DEF Answer
<1>2. CASE ~asking
  BY <1>1, <1>2, Now DEF Answer
<1>3. CASE asking /\ status \in {"accepted", "current"}
  BY <1>1, <1>3 DEF Answer, Replies
<1>4. CASE asking /\ status \notin {"accepted", "current"}
  BY <1>1, <1>4, Now DEF Answer, Replies, NoReply
<1> QED BY <1>2, <1>3, <1>4

LEMMA FailTypes ==
  ASSUME IInv, NEW a \in Apps, NEW asking \in BOOLEAN, Fail(a, asking)
  PROVE  /\ app' \in Apps /\ app'.verified = None /\ tool' \in Tools /\ tool'.got = None
         /\ asked' \in BOOLEAN /\ reply' \in Replies
<1>1. Failed(a) \in Apps /\ Failed(a).verified = None
  BY DEF Failed, Apps, States
<1>2. a.seen \in 0 .. MaxVersion
  BY DEF Apps
<1> QED BY <1>1, <1>2, RestTypes, AnswerTypes DEF Fail

(* An answer, whoever asked and whatever it was about.                     *)
LEMMA ResultTypes ==
  ASSUME IInv, NEW a \in Apps, NEW asking \in BOOLEAN, NEW op, NEW got \in Answers,
         got.status \in Shown, HandleUpdateResult(a, asking, op, got)
  PROVE  /\ app' \in Apps /\ app'.verified \in {None, a.verified, got.stage}
         /\ app'.verified = got.stage /\ app'.verified # a.verified /\ app'.verified # None
              => Done(got.stage)
         /\ tool' \in Tools /\ tool'.got = None
         /\ asked' \in BOOLEAN /\ due' \in BOOLEAN /\ reply' \in Replies
<1> DEFINE seen == Seen(a, got)
           shown == [seen EXCEPT !.autoStage = FALSE, !.st = got.status]
<1>1. /\ got.version \in 0 .. MaxVersion /\ got.stage \in Stage \cup {None}
      /\ got.status \in States
  BY DEF Answers, Shown, States
<1>2. seen \in Apps /\ seen.verified = a.verified
  BY <1>1 DEF Seen, Apps
<1>3. shown \in Apps /\ shown.verified = a.verified
  BY <1>1, <1>2 DEF Apps
<1>4. CASE ~Recognized(a, got)
  BY <1>4, FailTypes, Now DEF HandleUpdateResult
<1>5. CASE Recognized(a, got) /\ got.status = "available" /\ a.autoStage
  <2>1. [seen EXCEPT !.autoStage = FALSE] \in Apps
        /\ [seen EXCEPT !.autoStage = FALSE].verified = a.verified
    BY <1>2 DEF Apps
  <2>2. Run([seen EXCEPT !.autoStage = FALSE], "stage") /\ asked' = asking /\ UNCHANGED <<due, reply>>
    BY <1>5 DEF HandleUpdateResult
  <2> QED BY <2>1, <2>2, RunTypes, Now DEF Operation
<1>6. CASE Recognized(a, got) /\ got.status = "staged"
  <2> DEFINE next == [shown EXCEPT !.verified = got.stage, !.isRepair = op = "repair"]
  <2>1. next \in Apps /\ next.verified = got.stage
    <3> DEFINE repair == op = "repair"
    <3>1. repair \in BOOLEAN
      OBVIOUS
    <3>2. next = [shown EXCEPT !.verified = got.stage, !.isRepair = repair]
      OBVIOUS
    <3> HIDE DEF repair, next, shown
    <3> QED BY <1>1, <1>3, <3>1, <3>2 DEF Apps
  <2>2. Rest(next) /\ asked' = asking /\ due' = (due \/ asking) /\ UNCHANGED reply
    BY <1>6 DEF HandleUpdateResult
  <2>3. Done(got.stage)
    BY <1>6 DEF Recognized
  <2> QED BY <2>1, <2>2, <2>3, RestTypes, Now
<1>7. CASE Recognized(a, got) /\ got.status # "staged" /\ ~(got.status = "available" /\ a.autoStage)
  <2>1. Rest(shown) /\ Answer(asking, got.status, got.version) /\ UNCHANGED due
    BY <1>7 DEF HandleUpdateResult
  <2> QED BY <1>1, <1>3, <2>1, RestTypes, AnswerTypes, Now
<1> QED BY <1>4, <1>5, <1>6, <1>7

-----------------------------------------------------------------------------
(* The steps of the service.                                               *)
LEMMA TypesNext ==
  ASSUME /\ latest' \in 0 .. MaxVersion /\ mine' \in BOOLEAN /\ paired' \in Pairings
         /\ active' \in Actives /\ stages' \in [Stage -> StageRecords \cup {None}]
         /\ up' \in BOOLEAN /\ asked' \in BOOLEAN /\ due' \in BOOLEAN
         /\ app' \in Apps /\ tool' \in Tools /\ pair' \in {"none", "running", "called"}
         /\ reply' \in Replies /\ commit' \in Commits /\ faults' \in 0 .. MaxFaults
  PROVE  TypeOK'
<1>1. Shown \cup {"inspected", "staging", "prepared"}
        = {"inspected", "unavailable", "current", "available", "staging", "staged", "prepared"}
  BY DEF Shown
<1> QED BY <1>1 DEF TypeOK, Actives, StageRecords, States, Apps, Answers, Tools, Replies, Commits

LEMMA NoneIsNoRecord == None \notin StageRecords
BY UpdateAssumption DEF StageRecords, Version

LEMMA Rooms ==
  ASSUME IInv, UNCHANGED world
  PROVE  /\ latest' \in 0 .. MaxVersion /\ mine' \in BOOLEAN /\ paired' \in Pairings
         /\ active' \in Actives
BY Types DEF IInv, world

(* Whatever the service does with the stages left alone: it waits for no   *)
(* answer, or for the one it waited for, and holds what is verified.       *)
LEMMA ServiceOK ==
  ASSUME IInv, UNCHANGED <<world, stages, commit>>,
         up' \in BOOLEAN, asked' \in BOOLEAN, due' \in BOOLEAN, reply' \in Replies,
         pair' \in {"none", "running", "called"}, faults' \in 0 .. MaxFaults,
         app' \in Apps, tool' \in Tools,
         tool'.got = None \/ (tool' = tool /\ app'.verified \in {app.verified, None}),
         app'.verified \in {app.verified, None} \/ Done(app'.verified)
  PROVE  IInv'
<1>1. TypeOK'
  BY Now, Rooms, TypesNext
<1>2. ToolOK'
  <2>1. CASE tool'.got = None
    BY <2>1 DEF ToolOK
  <2>2. CASE tool' = tool /\ app'.verified \in {app.verified, None}
    <3>1. tool.got # None /\ tool.op # "apply" /\ tool.got.stage # None
            => tool.got.stage \notin {app'.verified, commit.stage}
      BY <2>2 DEF IInv, ToolOK
    <3> QED BY <2>2, <3>1 DEF IInv, ToolOK
  <2> QED BY <2>1, <2>2
<1>3. DownloadOK'
  BY DEF IInv, DownloadOK
<1>4. StageKept'
  <2>1. \A s : Done(s)' <=> Done(s)
    BY DEF Done
  <2>2. \A s \in {app'.verified, commit.stage} \ {None} : Done(s)
    BY DEF IInv, StageKept
  <2> QED BY <2>1, <2>2 DEF StageKept
<1>5. CommitOK'
  BY DEF IInv, CommitOK, NoCommit
<1> QED BY <1>1, <1>2, <1>3, <1>4, <1>5 DEF IInv

(* A fault, or none.                                                       *)
LEMMA FaultTypes ==
  ASSUME IInv, UNCHANGED faults \/ Fault
  PROVE  faults' \in 0 .. MaxFaults
<1>1. faults \in 0 .. MaxFaults /\ MaxFaults \in Nat
  BY Types, UpdateAssumption DEF IInv
<1> QED BY <1>1 DEF Fault

LEMMA StartsOK == ASSUME IInv, StartAutomaticCheck PROVE IInv'
<1> DEFINE a == [app EXCEPT !.autoStarted = TRUE]
<1>1. a \in Apps /\ a.verified = app.verified
  BY Now DEF Apps
<1>2. [a EXCEPT !.autoStage = TRUE] \in Apps /\ [a EXCEPT !.autoStage = TRUE].verified = app.verified
  BY <1>1 DEF Apps
<1>3. [a EXCEPT !.autoPending = TRUE] \in Apps /\ [a EXCEPT !.autoPending = TRUE].verified = app.verified
  BY <1>1 DEF Apps
<1>4. \/ app' = a /\ tool' = tool
      \/ Run([a EXCEPT !.autoStage = TRUE], "check")
      \/ app' = [a EXCEPT !.autoPending = TRUE] /\ tool' = tool
  BY DEF StartAutomaticCheck
<1>5. /\ app' \in Apps /\ tool' \in Tools /\ app'.verified = app.verified
      /\ tool' = tool \/ tool'.got = None
  BY <1>1, <1>2, <1>3, <1>4, RunTypes, Now DEF Operation
<1>6. UNCHANGED <<world, stages, up, asked, due, pair, reply, commit, faults>>
  BY DEF StartAutomaticCheck
<1> QED BY <1>5, <1>6, FaultTypes, Now, ServiceOK

LEMMA ButtonsOK == ASSUME IInv, CheckForUpdates \/ StageUpdate \/ RepairInstallation PROVE IInv'
<1> DEFINE a == [app EXCEPT !.suppress = FALSE, !.autoStage = FALSE]
<1>1. a \in Apps /\ a.verified = app.verified
  BY Now DEF Apps
<1>2. Run(a, "check") \/ Run(app, "stage") \/ Run(app, "repair")
  BY DEF CheckForUpdates, StageUpdate, RepairInstallation
<1>3. app' \in Apps /\ tool' \in Tools /\ app'.verified = app.verified /\ tool'.got = None
  BY <1>1, <1>2, RunTypes, Now DEF Operation
<1>4. UNCHANGED <<world, stages, up, asked, due, pair, reply, commit, faults>>
  BY DEF CheckForUpdates, StageUpdate, RepairInstallation
<1> QED BY <1>3, <1>4, FaultTypes, Now, ServiceOK

LEMMA RestartOK ==
  ASSUME IInv, up' = up, due' \in BOOLEAN, RestartToApply,
         UNCHANGED <<world, stages, asked, reply, commit, faults>>
  PROVE  IInv'
<1>1. /\ UNCHANGED <<app, tool>> \/ Run(app, "apply") \/ Rest(Failed(app))
      /\ pair' \in {pair, "running"}
  BY DEF RestartToApply, StartPairedUpdate
<1>2. Failed(app) \in Apps /\ Failed(app).verified = None
  BY Now DEF Failed, Apps, States
<1>3. /\ app' \in Apps /\ tool' \in Tools /\ app'.verified \in {app.verified, None}
      /\ tool' = tool \/ tool'.got = None
  BY <1>1, <1>2, RunTypes, RestTypes, Now DEF Operation
<1> QED BY <1>1, <1>3, FaultTypes, Now, ServiceOK

LEMMA RestartsOK == ASSUME IInv, PressRestart \/ QueuedRestart PROVE IInv'
<1>1. /\ up' = up /\ due' \in {due, FALSE} /\ RestartToApply
      /\ UNCHANGED <<world, stages, asked, reply, commit, faults>>
  BY DEF PressRestart, QueuedRestart
<1> QED BY <1>1, RestartOK, Now

(* The answer of the child, to the service or to a command.                *)
LEMMA ResultOK ==
  ASSUME IInv, NEW a \in Apps, a.verified = app.verified, NEW asking \in BOOLEAN, NEW op,
         NEW got \in Answers, got.status \in Shown, HandleUpdateResult(a, asking, op, got),
         UNCHANGED <<world, stages, up, commit, faults>>, pair' \in {"none", "running", "called"}
  PROVE  IInv'
<1>1. /\ app' \in Apps /\ app'.verified \in {None, a.verified, got.stage}
      /\ app'.verified = got.stage /\ app'.verified # a.verified /\ app'.verified # None
           => Done(got.stage)
      /\ tool' \in Tools /\ tool'.got = None
      /\ asked' \in BOOLEAN /\ due' \in BOOLEAN /\ reply' \in Replies
  BY ResultTypes
<1>2. app'.verified \in {app.verified, None} \/ Done(app'.verified)
  BY <1>1
<1> QED BY <1>1, <1>2, FaultTypes, Now, ServiceOK

LEMMA InspectedTypes ==
  ASSUME IInv, NEW cli \in BOOLEAN
  PROVE  /\ Inspected(cli) \in Apps /\ Inspected(cli).verified = app.verified
         /\ Inspected(cli).isRepair = app.isRepair /\ Inspected(cli).running = app.running
         /\ Inspected(cli).st # "staged"
<1> DEFINE suppress == app.suppress \/ active.status = "rolled_back"
           repairable == app.repairable \/ active.damaged
           st == IF active.status = "rolled_back" THEN "failed" ELSE "current"
<1>1. Inspected(cli) = [app EXCEPT !.official = TRUE, !.autoPending = FALSE, !.cli = cli,
                                   !.suppress = suppress, !.repairable = repairable, !.st = st]
  BY DEF Inspected
<1>2. st \in States \ {"staged"} /\ suppress \in BOOLEAN /\ repairable \in BOOLEAN
  BY DEF States
<1> HIDE DEF suppress, repairable, st
<1> QED BY <1>1, <1>2, Now DEF Apps

(* What the inspection leaves the service in.                              *)
LEMMA InspectionShows ==
  ASSUME IInv, NEW got, HandleInspection(got)
  PROVE  /\ app' \in Apps /\ app'.verified = app.verified /\ app'.isRepair = app.isRepair
         /\ app'.running = app.running /\ app'.st # "staged"
         /\ tool' \in Tools /\ tool'.got = None /\ tool'.op # "apply"
<1> DEFINE c == [app EXCEPT !.st = "unavailable"]
<1>1. CASE ~mine \/ got.current # app.running
  <2>1. Rest(c)
    BY <1>1 DEF HandleInspection
  <2>2. /\ c \in Apps /\ c.verified = app.verified /\ c.isRepair = app.isRepair
        /\ c.running = app.running /\ c.st # "staged"
    BY Now DEF Apps, States
  <2> HIDE DEF c
  <2> QED BY <2>1, <2>2, RestTypes DEF Rest, NoTool
<1>2. CASE ~(~mine \/ got.current # app.running)
  <2>1. PICK cli \in BOOLEAN : \/ Run([Inspected(cli) EXCEPT !.autoStage = TRUE], "check")
                              \/ Rest(Inspected(cli))
    BY <1>2, Now DEF HandleInspection, Actives
  <2> DEFINE a == Inspected(cli)
             b == [a EXCEPT !.autoStage = TRUE]
  <2>2. /\ a \in Apps /\ a.verified = app.verified /\ a.isRepair = app.isRepair
        /\ a.running = app.running /\ a.st # "staged"
    BY InspectedTypes
  <2>3. Run(b, "check") \/ Rest(a)
    BY <2>1
  <2> HIDE DEF a
  <2>4. /\ b \in Apps /\ b.verified = app.verified /\ b.isRepair = app.isRepair
        /\ b.running = app.running
    BY <2>2 DEF Apps
  <2> HIDE DEF b
  <2>5. CASE Run(b, "check")
    <3>1. app' = [b EXCEPT !.st = "checking"] /\ tool'.op = "check"
      BY <2>5 DEF Run, Showing
    <3>2. /\ app'.isRepair = b.isRepair /\ app'.running = b.running /\ app'.st # "staged"
      BY <2>4, <3>1 DEF Apps
    <3> QED BY <2>4, <2>5, <3>1, <3>2, RunTypes DEF Operation
  <2>6. CASE Rest(a)
    BY <2>2, <2>6, RestTypes DEF Rest, NoTool
  <2> QED BY <2>3, <2>5, <2>6
<1> QED BY <1>1, <1>2

LEMMA AnswersOK == ASSUME IInv, ToolAnswers PROVE IInv'
<1>1. UNCHANGED <<world, stages, up, pair, commit, faults>>
  BY DEF ToolAnswers
<1>2. CASE tool.op = "inspect"
  <2>1. HandleInspection(tool.got)
    BY <1>2 DEF ToolAnswers
  <2>2. app' \in Apps /\ app'.verified = app.verified /\ tool' \in Tools /\ tool'.got = None
    BY <2>1, InspectionShows
  <2>3. UNCHANGED <<asked, due, reply>>
    BY <2>1 DEF HandleInspection
  <2> QED BY <1>1, <2>2, <2>3, FaultTypes, Now, ServiceOK
<1>3. CASE tool.op # "inspect"
  <2>1. HandleUpdateResult(app, asked, tool.op, tool.got) /\ tool.got # None
        /\ tool.got.status # "staging" /\ tool.op # "apply"
    BY <1>3 DEF ToolAnswers, Answering
  <2>2. tool.op \in Operation \cup {"none"} /\ tool.got \in Answers
    BY <2>1, Now DEF Tools
  <2>3. Downloads(tool.op)
    BY <1>3, <2>1, <2>2 DEF IInv, ToolOK, Downloads, Operation
  <2>4. tool.got.status \in Shown
    BY <2>1, <2>3 DEF IInv, ToolOK
  <2> QED BY <1>1, <2>1, <2>2, <2>4, ResultOK, Now
<1> QED BY <1>2, <1>3

LEMMA AskOK ==
  ASSUME IInv, NEW s \in Stage \cup {None}, s # None => Done(s), Ask(s),
         UNCHANGED <<world, stages, up, commit, faults>>, pair' \in {"none", "running", "called"}
  PROVE  IInv'
<1> DEFINE a == [app EXCEPT !.suppress = FALSE, !.autoStage = TRUE]
           prepared == [status |-> "staged", current |-> app.running,
                        version |-> stages[s].version, stage |-> s]
<1>1. a \in Apps /\ a.verified = app.verified
  BY Now DEF Apps
<1>2. CASE s = None
  <2>1. Run(a, "check") /\ asked' = TRUE /\ reply' = NoReply /\ UNCHANGED due
    BY <1>2 DEF Ask
  <2>2. app' \in Apps /\ app'.verified = app.verified /\ tool' \in Tools /\ tool'.got = None
    BY <1>1, <2>1, RunTypes DEF Operation
  <2>3. reply' \in Replies /\ asked' \in BOOLEAN /\ due' \in BOOLEAN
    BY <2>1, Now DEF Replies, NoReply
  <2> QED BY <2>2, <2>3, FaultTypes, Now, ServiceOK
<1>3. CASE s # None
  <2>1. HandleUpdateResult(a, TRUE, "stage", prepared)
    BY <1>3 DEF Ask
  <2>2. s \in Stage /\ stages[s] \in StageRecords
    BY <1>3, Now DEF Done
  <2>3. stages[s].version \in 0 .. MaxVersion /\ app.running \in Version
    BY <2>2, Now DEF StageRecords, Apps
  <2>4. prepared \in Answers /\ prepared.status \in Shown
    BY <2>2, <2>3 DEF Answers, Shown
  <2> HIDE DEF prepared, a
  <2> QED BY <1>1, <2>1, <2>4, ResultOK DEF prepared, a
<1> QED BY <1>2, <1>3

LEMMA AsksOK == ASSUME IInv, CommandAsks \/ CoordinatorAsks PROVE IInv'
<1>1. PICK s \in Stage \cup {None} : (s # None => Done(s)) /\ Ask(s)
  BY DEF CommandAsks, CoordinatorAsks
<1>2. UNCHANGED <<world, stages, up, commit, faults>> /\ pair' \in {pair, "called"}
  BY DEF CommandAsks, CoordinatorAsks
<1> QED BY <1>1, <1>2, AskOK, Now

LEMMA CoordinatorEndsOK ==
  ASSUME IInv, NEW ok \in BOOLEAN, CoordinatorEnds(ok)
  PROVE  IInv'
<1> DEFINE a == [app EXCEPT !.verified = None, !.st = "current"]
           b == [app EXCEPT !.st = "staged"]
<1>1. a \in Apps /\ a.verified = None
  BY Now DEF Apps, States
<1>2. b \in Apps /\ b.verified = app.verified
  BY Now DEF Apps, States
<1>3. app' \in {app, a, b} /\ pair' = "none"
      /\ UNCHANGED <<world, stages, up, tool, asked, due, reply, commit, faults>>
  BY DEF CoordinatorEnds
<1>4. app' \in Apps /\ app'.verified \in {app.verified, None}
  BY <1>1, <1>2, <1>3, Now
<1> QED BY <1>3, <1>4, FaultTypes, Now, ServiceOK

LEMMA StopOK == ASSUME IInv, StopTool PROVE IInv'
<1>1. tool' = [tool EXCEPT !.stop = TRUE] /\ Fault
      /\ UNCHANGED <<world, stages, up, app, asked, due, pair, reply, commit>>
  BY DEF StopTool
<1>2. tool' \in Tools /\ tool'.got = tool.got /\ tool'.op = tool.op
  BY <1>1, Now DEF Tools
<1>3. TypeOK'
  BY <1>1, <1>2, FaultTypes, Now, Rooms, TypesNext
<1>4. ToolOK' /\ DownloadOK'
  BY <1>1, <1>2 DEF IInv, ToolOK, DownloadOK
<1>5. StageKept' /\ CommitOK'
  BY <1>1 DEF IInv, StageKept, CommitOK, NoCommit, Done
<1> QED BY <1>3, <1>4, <1>5 DEF IInv

-----------------------------------------------------------------------------
(* The steps that touch the staging directory, or its names.               *)
LEMMA StagesOK ==
  ASSUME IInv, UNCHANGED <<world, commit>>,
         stages' \in [Stage -> StageRecords \cup {None}],
         up' \in BOOLEAN, asked' \in BOOLEAN, due' \in BOOLEAN, reply' \in Replies,
         pair' \in {"none", "running", "called"}, faults' \in 0 .. MaxFaults,
         app' \in Apps, tool' \in Tools, ToolOK', DownloadOK',
         \A s \in {app'.verified, commit.stage} \ {None} : Done(s)'
  PROVE  IInv'
<1>1. TypeOK'
  BY Now, Rooms, TypesNext
<1>2. CommitOK'
  BY DEF IInv, CommitOK, NoCommit
<1>3. StageKept'
  BY DEF StageKept
<1> QED BY <1>1, <1>2, <1>3 DEF IInv

(* A clean-up leaves what is done as it is.                                *)
LEMMA CleanedOK ==
  ASSUME IInv
  PROVE  /\ Cleaned \in [Stage -> StageRecords \cup {None}]
         /\ \A s \in Stage : Done(s) => Cleaned[s] = stages[s]
<1>1. \A s \in Stage : Cleaned[s] \in StageRecords \cup {None}
  BY Now DEF Cleaned
<1>2. \A s \in Stage : Done(s) => Cleaned[s] = stages[s]
  BY DEF Cleaned, Abandoned, Done
<1> QED BY <1>1, <1>2 DEF Cleaned

LEMMA KeptNow ==
  ASSUME IInv, NEW s \in {app.verified, commit.stage} \ {None}
  PROVE  s \in Stage /\ Done(s) /\ stages[s] \in StageRecords
<1>1. s \in Stage /\ Done(s)
  BY Now DEF IInv, StageKept, Apps, Commits
<1> QED BY <1>1, Now DEF Done

LEMMA LeftOK ==
  ASSUME IInv, stages' \in IF tool.op = "apply" THEN {stages} ELSE LeftStages
  PROVE  /\ stages' \in [Stage -> StageRecords \cup {None}]
         /\ \A s \in {app.verified, commit.stage} \ {None} : Done(s)'
<1>1. CASE stages' = stages
  BY <1>1, Now, KeptNow DEF Done
<1>2. CASE /\ stages' = [stages EXCEPT ![tool.got.stage] = None]
           /\ tool.op # "apply" /\ tool.got # None /\ tool.got.stage # None
  <2>1. stages' \in [Stage -> StageRecords \cup {None}]
    BY <1>2, Now
  <2>2. tool.got.stage \notin {app.verified, commit.stage}
    BY <1>2 DEF IInv, ToolOK
  <2>3. ASSUME NEW s \in {app.verified, commit.stage} \ {None}
        PROVE  Done(s)'
    <3>1. s \in Stage /\ Done(s) /\ stages'[s] = stages[s]
      BY <1>2, <2>2, KeptNow, Now
    <3> QED BY <3>1 DEF Done
  <2> QED BY <2>1, <2>3
<1> QED BY <1>1, <1>2 DEF LeftStages

LEMMA FailsOK == ASSUME IInv, ToolStopped \/ ToolFails PROVE IInv'
<1>1. /\ Fail(app, asked) /\ UNCHANGED <<world, up, due, pair, commit>>
      /\ UNCHANGED faults \/ Fault
      /\ stages' \in IF tool.op = "apply" THEN {stages} ELSE LeftStages
  BY DEF ToolStopped, ToolFails
<1>2. /\ app' \in Apps /\ app'.verified = None /\ tool' \in Tools /\ tool'.got = None
      /\ asked' \in BOOLEAN /\ reply' \in Replies
  BY <1>1, FailTypes, Now
<1>3. ToolOK' /\ DownloadOK'
  BY <1>2 DEF ToolOK, DownloadOK
<1>4. \A s \in {app'.verified, commit.stage} \ {None} : Done(s)'
  BY <1>1, <1>2, LeftOK
<1> QED BY <1>1, <1>2, <1>3, <1>4, LeftOK, FaultTypes, Now, StagesOK

(* Answers of the tool that name no stage.                                 *)
LEMMA NothingTypes ==
  ASSUME IInv
  PROVE  \A got \in {Answered("available", latest, None), NothingWanted} :
           got \in Answers /\ got.status \in Shown /\ got.stage = None
BY Now DEF Answered, NothingWanted, Answers, Shown, Actives

(* The tool has an answer that is not about a stage that others use.       *)
LEMMA GivesOK ==
  ASSUME IInv, NEW got \in Answers, Gives(got), stages' \in [Stage -> StageRecords \cup {None}],
         tool.op # "none", Downloads(tool.op), got.status \in Shown \cup {"staging"},
         got.stage # None => got.stage \notin {app.verified, commit.stage},
         got.status = "staging" =>
           got.stage \in Stage /\ stages'[got.stage] \in StageRecords /\ ~stages'[got.stage].old,
         \A s \in {app.verified, commit.stage} \ {None} : stages'[s] = stages[s],
         UNCHANGED <<world, up, app, asked, due, pair, reply, commit, faults>>
  PROVE  IInv'
<1>1. tool' = [tool EXCEPT !.got = got] /\ tool' \in Tools /\ tool'.got = got /\ tool'.op = tool.op
  BY Now DEF Gives, Tools
<1>2. ToolOK'
  BY <1>1 DEF ToolOK, Downloads
<1>3. DownloadOK'
  BY <1>1 DEF DownloadOK
<1>4. \A s \in {app'.verified, commit.stage} \ {None} : Done(s)'
  BY KeptNow DEF Done
<1> QED BY <1>1, <1>2, <1>3, <1>4, FaultTypes, Now, StagesOK

LEMMA ToolChecksOK == ASSUME IInv, ToolChecks PROVE IInv'
<1>1. PICK got \in {Answered("available", latest, None), NothingWanted} : Gives(got)
  BY DEF ToolChecks
<1>2. got \in Answers /\ got.status \in Shown /\ got.stage = None
  BY <1>1, NothingTypes
<1>3. got.status # "staging"
  BY <1>2 DEF Shown
<1>4. /\ tool.op = "check" /\ stages' = Cleaned
      /\ UNCHANGED <<world, up, app, asked, due, pair, reply, commit, faults>>
  BY DEF ToolChecks, Working
<1>5. \A s \in {app.verified, commit.stage} \ {None} : stages'[s] = stages[s]
  BY <1>4, CleanedOK, KeptNow
<1> QED BY <1>1, <1>2, <1>3, <1>4, <1>5, CleanedOK, GivesOK DEF Downloads

LEMMA ToolDownloadsOK == ASSUME IInv, ToolDownloads PROVE IInv'
<1>1. /\ Downloads(tool.op) /\ tool.op # "none"
      /\ UNCHANGED <<world, up, app, asked, due, pair, reply, commit, faults>>
  BY DEF ToolDownloads, Working, Downloads
<1>2. CASE Gives(NothingWanted) /\ stages' = Cleaned
  <2>1. NothingWanted \in Answers /\ NothingWanted.status \in Shown /\ NothingWanted.stage = None
    BY NothingTypes
  <2>2. NothingWanted.status # "staging"
    BY <2>1 DEF Shown
  <2>3. \A s \in {app.verified, commit.stage} \ {None} : stages'[s] = stages[s]
    BY <1>2, CleanedOK, KeptNow
  <2> HIDE DEF NothingWanted
  <2> QED BY <1>1, <1>2, <2>1, <2>2, <2>3, CleanedOK, GivesOK
<1>3. ASSUME NEW version \in Wanted(tool.op), NEW s \in Stage, Cleaned[s] = None,
             stages' = [Cleaned EXCEPT ![s] = Record(version, FALSE)],
             Gives(Answered("staging", version, s))
      PROVE  IInv'
  <2> DEFINE got == Answered("staging", version, s)
  <2>1. version \in Version
    BY Now DEF Wanted, Actives, Version
  <2>2. got \in Answers /\ got.status = "staging" /\ got.stage = s
    BY <2>1, Now DEF Answered, Answers, Actives
  <2>3. Record(version, FALSE) \in StageRecords /\ ~Record(version, FALSE).old
    BY <2>1 DEF Record, StageRecords
  <2>4. /\ stages' \in [Stage -> StageRecords \cup {None}] /\ stages'[s] = Record(version, FALSE)
        /\ \A t \in Stage \ {s} : stages'[t] = Cleaned[t]
    BY <1>3, <2>3, CleanedOK
  <2>5. ASSUME NEW t \in {app.verified, commit.stage} \ {None}
        PROVE  t # s /\ stages'[t] = stages[t]
    BY <1>3, <2>4, CleanedOK, KeptNow DEF Done
  <2>6. s # None => s \notin {app.verified, commit.stage}
    BY <2>5
  <2> HIDE DEF got
  <2>7. Gives(got)
    BY <1>3 DEF got
  <2> QED BY <1>1, <2>2, <2>3, <2>4, <2>5, <2>6, <2>7, GivesOK
<1> QED BY <1>2, <1>3 DEF ToolDownloads, NewStage, Free

LEMMA ToolVerifiesOK == ASSUME IInv, ToolVerifies PROVE IInv'
<1> DEFINE s == tool.got.stage
           got == [tool.got EXCEPT !.status = "staged"]
<1>1. /\ tool.got # None /\ tool.got.status = "staging"
      /\ stages' = [stages EXCEPT ![s].done = TRUE]
      /\ tool' = [tool EXCEPT !.got.status = "staged"]
      /\ UNCHANGED <<world, up, app, asked, due, pair, reply, commit, faults>>
  BY DEF ToolVerifies
<1>2. Downloads(tool.op) /\ tool.op # "none" /\ s \in Stage /\ stages[s] \in StageRecords
  BY <1>1 DEF IInv, ToolOK
<1>3. s \notin {app.verified, commit.stage} \ {None}
  BY <1>1, <1>2 DEF IInv, ToolOK, Downloads
<1>4. tool.got \in Answers
  BY <1>1, Now DEF Tools
<1>5. got \in Answers /\ got.status = "staged" /\ got.stage = s
  BY <1>4 DEF Answers, Shown
<1>6. tool' = [tool EXCEPT !.got = got]
  BY <1>1, Now DEF Tools
<1>7. [stages[s] EXCEPT !.done = TRUE] \in StageRecords
  BY <1>2 DEF StageRecords
<1>8. stages' = [stages EXCEPT ![s] = [stages[s] EXCEPT !.done = TRUE]]
  BY <1>1
<1> HIDE DEF s, got
<1>9. stages' \in [Stage -> StageRecords \cup {None}]
  BY <1>2, <1>7, <1>8, Now
<1>10. \A t \in {app.verified, commit.stage} \ {None} : stages'[t] = stages[t]
  BY <1>2, <1>3, <1>8, KeptNow, Now
<1> QED BY <1>1, <1>2, <1>3, <1>5, <1>6, <1>9, <1>10, Types, UpdateAssumption, GivesOK DEF Gives, Shown

LEMMA ToolPreparesOK == ASSUME IInv, ToolPrepares PROVE IInv'
<1> DEFINE s == app.verified
           got == Answered("prepared", stages[s].version, s)
<1>1. /\ tool.op = "apply" /\ Done(s) /\ Gives(got)
      /\ UNCHANGED <<world, stages, up, app, asked, due, pair, reply, commit, faults>>
  BY DEF ToolPrepares, Working, Preparable
<1>2. s \in Stage /\ stages[s] \in StageRecords
  BY <1>1, Now DEF Done, Apps
<1>3. got \in Answers /\ got.status = "prepared" /\ got.stage = s
  BY <1>2, Now DEF Answered, Answers, Actives, StageRecords
<1> HIDE DEF s, got
<1>4. tool' \in Tools /\ tool'.got = got /\ tool'.op = "apply"
  BY <1>1, <1>3, Now DEF Gives, Tools
<1>5. ToolOK' /\ DownloadOK'
  BY <1>2, <1>3, <1>4, UpdateAssumption DEF ToolOK, DownloadOK, Downloads
<1>6. \A t \in {app'.verified, commit.stage} \ {None} : Done(t)'
  BY <1>1, KeptNow DEF Done
<1> QED BY <1>1, <1>4, <1>5, <1>6, FaultTypes, Now, StagesOK

LEMMA ToolInspectsOK == ASSUME IInv, ToolInspects PROVE IInv'
<1> DEFINE got == Answered("inspected", active.version, None)
<1>1. /\ tool.op = "inspect" /\ Gives(got)
      /\ UNCHANGED <<world, stages, up, app, asked, due, pair, reply, commit, faults>>
  BY DEF ToolInspects, Working
<1>2. got \in Answers /\ got.status = "inspected" /\ got.stage = None
  BY Now DEF Answered, Answers, Actives
<1> HIDE DEF got
<1>3. tool' \in Tools /\ tool'.got = got /\ tool'.op = "inspect"
  BY <1>1, <1>2, Now DEF Gives, Tools
<1>4. ToolOK' /\ DownloadOK'
  BY <1>2, <1>3 DEF ToolOK, DownloadOK, Downloads
<1>5. \A t \in {app'.verified, commit.stage} \ {None} : Done(t)'
  BY <1>1, KeptNow DEF Done
<1> QED BY <1>1, <1>3, <1>4, <1>5, FaultTypes, Now, StagesOK

LEMMA PreparedOK == ASSUME IInv, ToolPrepared PROVE IInv'
<1>1. /\ tool.op = "apply" /\ tool.got # None /\ tool.got.stage = app.verified
      /\ commit' = [stage |-> tool.got.stage, cli |-> asked]
      /\ Answer(asked, "accepted", app.seen) /\ Rest(app)
      /\ up' = FALSE /\ due' = FALSE /\ pair' = "none"
      /\ UNCHANGED <<world, stages, faults>>
  BY DEF ToolPrepared, Answering, Authorize
<1>2. tool.got.stage \in Stage
  BY <1>1, Now DEF IInv, ToolOK, Apps
<1>3. commit' \in Commits /\ commit'.stage = app.verified /\ commit'.stage # None
  BY <1>1, <1>2, Now, UpdateAssumption DEF Commits
<1>4. app.seen \in 0 .. MaxVersion
  BY Now DEF Apps
<1>5. app' = app /\ tool' \in Tools /\ tool'.got = None /\ asked' \in BOOLEAN /\ reply' \in Replies
  BY <1>1, <1>4, RestTypes, AnswerTypes, Now
<1>6. TypeOK'
  BY <1>1, <1>3, <1>5, FaultTypes, Rooms, Now, TypesNext
<1>7. ToolOK' /\ DownloadOK' /\ CommitOK'
  BY <1>3, <1>5 DEF ToolOK, DownloadOK, CommitOK
<1>8. StageKept'
  BY <1>1, <1>3, <1>5, KeptNow DEF StageKept, Done
<1> QED BY <1>6, <1>7, <1>8 DEF IInv

LEMMA CommandStagesOK == ASSUME IInv, CommandStages PROVE IInv'
<1>1. PICK version \in Wanted("stage") \cup Wanted("repair"), s \in Stage, done \in BOOLEAN :
        /\ Cleaned[s] = None
        /\ stages' = [Cleaned EXCEPT ![s] = Record(version, done)]
        /\ UNCHANGED faults \/ Fault
  BY DEF CommandStages, NewStage, Free
<1>2. UNCHANGED <<world, up, app, tool, asked, due, pair, reply, commit>>
  BY DEF CommandStages
<1>3. version \in Version
  BY Now DEF Wanted, Actives, Version
<1>4. Record(version, done) \in StageRecords /\ ~Record(version, done).old
  BY <1>3 DEF Record, StageRecords
<1>5. /\ stages' \in [Stage -> StageRecords \cup {None}] /\ stages'[s] = Record(version, done)
      /\ \A t \in Stage \ {s} : stages'[t] = Cleaned[t]
  BY <1>1, <1>4, CleanedOK
<1>6. ASSUME NEW t \in {app.verified, commit.stage} \ {None}
      PROVE  Done(t)'
  <2>1. t # s /\ stages'[t] = stages[t] /\ t \in Stage
    BY <1>1, <1>5, CleanedOK, KeptNow DEF Done
  <2> QED BY <2>1, KeptNow DEF Done
<1>7. ASSUME tool.got # None, tool.got.status = "staging"
      PROVE  stages'[tool.got.stage] \in StageRecords /\ ~stages'[tool.got.stage].old
  <2> DEFINE t == tool.got.stage
  <2>1. t \in Stage /\ stages[t] \in StageRecords /\ ~stages[t].old
    BY <1>7 DEF IInv, ToolOK, DownloadOK
  <2>2. Cleaned[t] = stages[t] /\ Cleaned[t] # None
    BY <2>1, Now, NoneIsNoRecord DEF Cleaned, Abandoned
  <2>3. t # s
    BY <1>1, <2>2
  <2> QED BY <1>5, <2>1, <2>2, <2>3
<1>8. ToolOK' /\ DownloadOK'
  BY <1>2, <1>7 DEF IInv, ToolOK, DownloadOK
<1> QED BY <1>1, <1>2, <1>5, <1>6, <1>8, FaultTypes, Now, StagesOK

LEMMA AgeOK == ASSUME IInv, NEW s \in Stage, Age(s) PROVE IInv'
<1>1. /\ stages[s] # None /\ ~stages[s].done /\ (tool.got # None => tool.got.stage # s)
      /\ stages' = [stages EXCEPT ![s] = [stages[s] EXCEPT !.old = TRUE]]
      /\ UNCHANGED <<world, up, app, tool, asked, due, pair, reply, commit, faults>>
  BY DEF Age
<1>2. [stages[s] EXCEPT !.old = TRUE] \in StageRecords
  BY <1>1, Now DEF StageRecords
<1>3. stages' \in [Stage -> StageRecords \cup {None}] /\ \A t \in Stage \ {s} : stages'[t] = stages[t]
  BY <1>1, <1>2, Now
<1>4. ToolOK'
  BY <1>1, <1>3 DEF IInv, ToolOK
<1>5. DownloadOK'
  BY <1>1, <1>3 DEF IInv, ToolOK, DownloadOK
<1>6. ASSUME NEW t \in {app.verified, commit.stage} \ {None}
      PROVE  Done(t)'
  <2>1. t # s /\ t \in Stage /\ Done(t)
    BY <1>1, KeptNow DEF Done
  <2> QED BY <1>3, <2>1 DEF Done
<1> QED BY <1>1, <1>3, <1>4, <1>5, <1>6, FaultTypes, Now, StagesOK

LEMMA QuitOK == ASSUME IInv, Quit PROVE IInv'
<1>1. tool' = NoTool /\ NoTool \in Tools /\ NoTool.got = None
  BY DEF Quit, NoTool, Tools
<1>2. /\ up' = FALSE /\ Fault /\ pair' = "none" /\ asked' = FALSE /\ due' = FALSE
      /\ UNCHANGED <<world, stages, app, reply, commit>>
  BY DEF Quit
<1> QED BY <1>1, <1>2, FaultTypes, Now, ServiceOK

LEMMA NewAppTypes ==
  ASSUME NEW version \in Version, MaxVersion \in Nat
  PROVE  NewApp(version) \in Apps /\ NewApp(version).verified = None
BY DEF NewApp, Apps, States

LEMMA RelaunchOK == ASSUME IInv, Relaunch PROVE IInv'
<1>1. /\ up' = TRUE /\ mine' = TRUE /\ app' = NewApp(active'.version) /\ tool' = Inspect
      /\ commit' = NoCommit /\ reply' = NoReply /\ UNCHANGED <<latest, paired, stages, asked, due, pair>>
      /\ UNCHANGED faults \/ Fault
  BY DEF Relaunch
<1>2. active' \in Actives
  <2>1. CASE commit # NoCommit /\ active' = [version |-> stages[commit.stage].version,
                                             damaged |-> FALSE, status |-> "applied"]
    <3>1. commit.stage \in {app.verified, commit.stage} \ {None}
      BY <2>1 DEF IInv, CommitOK
    <3>2. stages[commit.stage] \in StageRecords
      BY <3>1, KeptNow
    <3> QED BY <2>1, <3>2 DEF Actives, StageRecords
  <2>2. CASE active' = [active EXCEPT !.status = "rolled_back"]
    BY <2>2, Now DEF Actives
  <2>3. CASE active' = active
    BY <2>3, Now
  <2> QED BY <2>1, <2>2, <2>3 DEF Relaunch
<1>3. app' \in Apps /\ app'.verified = None
  BY <1>1, <1>2, NewAppTypes, Now DEF Actives
<1>4. tool' \in Tools /\ tool'.got = None
  BY <1>1 DEF Inspect, Tools, Operation
<1>5. commit' \in Commits /\ commit'.stage = None /\ reply' \in Replies
  BY <1>1, Now DEF NoCommit, NoReply, Commits, Replies
<1>6. latest' \in 0 .. MaxVersion /\ mine' \in BOOLEAN /\ paired' \in Pairings
  BY <1>1, Types DEF IInv
<1>7. TypeOK'
  BY <1>1, <1>2, <1>3, <1>4, <1>5, <1>6, FaultTypes, Now, TypesNext
<1>8. ToolOK' /\ DownloadOK' /\ CommitOK' /\ StageKept'
  BY <1>1, <1>3, <1>4, <1>5 DEF ToolOK, DownloadOK, CommitOK, StageKept
<1> QED BY <1>7, <1>8 DEF IInv

LEMMA WorldOK ==
  ASSUME IInv, Reinstall \/ Damage \/ Publish
  PROVE  IInv'
<1>1. UNCHANGED <<stages, up, app, tool, asked, due, pair, reply, commit, paired>>
      /\ (UNCHANGED faults \/ Fault) /\ mine' \in {mine, FALSE}
  BY DEF Reinstall, Damage, Publish
<1>2. mine' \in BOOLEAN /\ paired' \in Pairings
  BY <1>1, Types DEF IInv
<1>3. active' \in Actives
  <2>1. CASE Reinstall
    BY <2>1 DEF Reinstall, Actives
  <2>2. CASE Damage
    BY <2>2, Now DEF Damage, Actives
  <2>3. CASE Publish
    BY <2>3, Now DEF Publish
  <2> QED BY <2>1, <2>2, <2>3
<1>4. latest' \in 0 .. MaxVersion
  BY Now DEF Reinstall, Damage, Publish
<1>5. TypeOK'
  BY <1>1, <1>2, <1>3, <1>4, FaultTypes, Now, TypesNext
<1>6. ToolOK' /\ DownloadOK' /\ CommitOK' /\ StageKept'
  BY <1>1 DEF IInv, ToolOK, DownloadOK, CommitOK, NoCommit, StageKept, Done
<1> QED BY <1>5, <1>6 DEF IInv

-----------------------------------------------------------------------------
LEMMA InitOK == Init => IInv
<1> SUFFICES ASSUME Init PROVE IInv
  OBVIOUS
<1>1. app \in Apps /\ app.verified = None
  BY NewAppTypes, UpdateAssumption DEF Init, Version
<1>2. tool \in Tools /\ tool.got = None
  BY DEF Init, Inspect, Tools, Operation
<1>3. reply \in Replies /\ commit \in Commits /\ commit.stage = None
  BY UpdateAssumption DEF Init, NoReply, NoCommit, Replies, Commits
<1>4. active \in Actives /\ stages \in [Stage -> StageRecords \cup {None}]
  BY UpdateAssumption DEF Init, Actives, Version
<1>5. TypeOK
  <2>1. /\ latest \in 0 .. MaxVersion /\ mine \in BOOLEAN /\ paired \in Pairings
        /\ up \in BOOLEAN /\ asked \in BOOLEAN /\ due \in BOOLEAN
        /\ pair \in {"none", "running", "called"}
    BY DEF Init
  <2>2. faults \in 0 .. MaxFaults
    BY UpdateAssumption DEF Init
  <2> QED BY <1>1, <1>2, <1>3, <1>4, <2>1, <2>2, Types
<1>6. ToolOK /\ DownloadOK /\ CommitOK /\ StageKept
  BY <1>1, <1>2, <1>3 DEF Init, ToolOK, DownloadOK, CommitOK, StageKept
<1> QED BY <1>5, <1>6 DEF IInv

LEMMA NextOK == ASSUME IInv, [Next]_vars PROVE IInv'
<1>1. CASE ToolWorks
  BY <1>1, ToolChecksOK, ToolDownloadsOK, ToolVerifiesOK, ToolPreparesOK, ToolInspectsOK DEF ToolWorks
<1>2. CASE ToolEnds \/ ToolFails \/ StopTool
  BY <1>2, AnswersOK, PreparedOK, FailsOK, StopOK DEF ToolEnds
<1>3. CASE StartAutomaticCheck \/ QueuedRestart \/ Buttons
  BY <1>3, StartsOK, RestartsOK, ButtonsOK DEF Buttons
<1>4. CASE Commands
  BY <1>4, CommandStagesOK, AsksOK, CoordinatorEndsOK DEF Commands
<1>5. CASE Around
  BY <1>5, QuitOK, RelaunchOK, WorldOK, AgeOK DEF Around
<1>6. CASE UNCHANGED vars
  <2>1. UNCHANGED <<world, stages, up, app, tool, asked, due, pair, reply, commit, faults>>
    BY <1>6 DEF vars
  <2> QED BY <2>1, FaultTypes, Now, ServiceOK
<1> QED BY <1>1, <1>2, <1>3, <1>4, <1>5, <1>6 DEF Next

LEMMA Inductive == Spec => []IInv
<1>1. IInv /\ [Next]_vars => IInv'
  BY NextOK
<1> QED BY <1>1, InitOK, PTL DEF Spec

-----------------------------------------------------------------------------
(* Every variable of the update service stays within its type, through any *)
(* sequence of commands, failures, restarts and releases.                  *)
THEOREM TypeCorrect == Spec => []TypeOK
<1>1. IInv => TypeOK
  BY DEF IInv
<1> QED BY <1>1, Inductive, PTL

(* The stage that the desktop holds ready and the one it has committed to  *)
(* (updateservice.cpp: m_verifiedStage, authorizePreparedApply) are on     *)
(* disk and verified, whoever cleans up the staging directory meanwhile    *)
(* (update.go: CleanupAbandoned).                                          *)
THEOREM StagesKept == Spec => []StageKept
<1>1. IInv => StageKept
  BY DEF IInv
<1> QED BY <1>1, Inductive, PTL

-----------------------------------------------------------------------------
(* What a `headroom update' is told, and what a paired desktop commits.    *)

(* A commit is the last thing the application does, and an acceptance is   *)
(* given with it.                                                          *)
CommitLast ==
  /\ commit # NoCommit => ~up
  /\ reply.status = "accepted" => commit # NoCommit

(* While a command waits for the apply, the version that was noted is that *)
(* of the stage.                                                           *)
HeldVersion ==
  asked /\ (app.st = "staged" \/ tool.op = "apply") /\ app.verified # None
    => stages[app.verified].version = app.seen

(* A child that finds nothing newer, or repairs, speaks of the version it  *)
(* found active.                                                           *)
AnswerFits ==
  tool.got # None =>
    /\ tool.got.status = "current" => ~Newer(tool.got.version, tool.got.current)
    /\ tool.op = "repair" /\ tool.got.status \in {"staging", "staged"}
         => tool.got.version = tool.got.current

(* The apply of a paired desktop for which nobody asked is of a repair, ... *)
UnaskedRepairs == paired # "none" /\ tool.op = "apply" /\ ~asked => app.isRepair

(* ... and a repair is of the running version.                             *)
RepairVersion ==
  app.isRepair /\ app.verified # None => stages[app.verified].version = app.running

AInv ==
  /\ CommitLast /\ HeldVersion /\ AnswerFits /\ UnaskedRepairs /\ RepairVersion
  /\ ReplyTrue /\ PairKeepsStep

(* What is held and what is committed to keep their versions.              *)
Held == {app.verified, commit.stage} \ {None}
VersionsKept == \A s \in Held : stages'[s].version = stages[s].version

(* A step that commits nothing: what it has to keep of the parts.          *)
LEMMA CarryOK ==
  ASSUME IInv, AInv, commit' = commit, paired' = paired, up' = up \/ up' = FALSE,
         app'.running = app.running, VersionsKept,
         \/ reply' = reply
         \/ /\ up /\ reply'.status # "accepted"
            /\ reply'.status = "current" => ~Newer(reply'.version, app.running),
         \/ app'.verified = None
         \/ app'.verified = app.verified /\ app'.isRepair = app.isRepair
         \/ app'.isRepair => stages'[app'.verified].version = app.running,
         HeldVersion', AnswerFits', UnaskedRepairs'
  PROVE  AInv'
<1>1. CommitLast'
  BY DEF AInv, CommitLast, NoCommit
<1>2. RepairVersion'
  BY DEF AInv, RepairVersion, VersionsKept, Held
<1>3. commit # NoCommit => commit.stage # None /\ stages'[commit.stage].version = stages[commit.stage].version
  BY DEF IInv, CommitOK, VersionsKept, Held
<1>4. ReplyTrue'
  <2>1. CASE reply' = reply
    BY <2>1, <1>3 DEF AInv, CommitLast, ReplyTrue
  <2>2. CASE reply'.status # "accepted" /\ (reply'.status = "current" => ~Newer(reply'.version, app.running))
    BY <2>2 DEF ReplyTrue, Newer
  <2> QED BY <2>1, <2>2
<1>5. PairKeepsStep'
  BY <1>3 DEF AInv, PairKeepsStep, NoCommit
<1> QED BY <1>1, <1>2, <1>4, <1>5 DEF AInv

LEMMA SameStages == ASSUME IInv, stages' = stages PROVE VersionsKept
BY DEF VersionsKept

(* A step after which no child has answered, and that leaves what is held  *)
(* as it was, with no apply begun.                                         *)
LEMMA IdleOK ==
  ASSUME IInv, AInv, commit' = commit, paired' = paired, up' = up \/ up' = FALSE,
         app'.running = app.running, VersionsKept, reply' = reply,
         app'.verified = app.verified /\ app'.isRepair = app.isRepair,
         tool'.got = None, tool'.op # "apply", ~asked' \/ app'.st # "staged"
  PROVE  AInv'
<1>1. HeldVersion' /\ AnswerFits' /\ UnaskedRepairs'
  BY DEF HeldVersion, AnswerFits, UnaskedRepairs
<1> QED BY <1>1, CarryOK

LEMMA RunShows ==
  ASSUME NEW a \in Apps, NEW op \in Operation, Run(a, op)
  PROVE  /\ app'.verified = a.verified /\ app'.isRepair = a.isRepair /\ app'.running = a.running
         /\ app'.seen = a.seen /\ tool'.got = None /\ tool'.op = op /\ app'.st # "staged"
<1>1. Showing(op) # "staged"
  BY DEF Showing, Operation
<1> QED BY <1>1 DEF Run, Apps

LEMMA StartsAnswer == ASSUME IInv, AInv, StartAutomaticCheck PROVE AInv'
<1> DEFINE a == [app EXCEPT !.autoStarted = TRUE]
           b == [a EXCEPT !.autoStage = TRUE]
           c == [a EXCEPT !.autoPending = TRUE]
<1>1. UNCHANGED <<world, stages, up, asked, due, pair, reply, commit, faults>>
  BY DEF StartAutomaticCheck
<1>2. a \in Apps /\ b \in Apps /\ c \in Apps
  BY Now DEF Apps
<1>3. \A d \in {a, b, c} : /\ d.verified = app.verified /\ d.isRepair = app.isRepair
                           /\ d.running = app.running /\ d.seen = app.seen /\ d.st = app.st
  BY Now DEF Apps
<1>4. (app' \in {a, c} /\ tool' = tool) \/ Run(b, "check")
  BY DEF StartAutomaticCheck
<1> HIDE DEF a, b, c
<1>5. CASE Run(b, "check")
  <2>1. /\ app'.verified = app.verified /\ app'.isRepair = app.isRepair /\ app'.running = app.running
        /\ tool'.got = None /\ tool'.op = "check" /\ app'.st # "staged"
    BY <1>2, <1>3, <1>5, RunShows DEF Operation
  <2> QED BY <1>1, <2>1, SameStages, IdleOK DEF world
<1>6. CASE app' \in {a, c} /\ tool' = tool
  <2>1. HeldVersion' /\ AnswerFits' /\ UnaskedRepairs'
    BY <1>1, <1>3, <1>6 DEF AInv, HeldVersion, AnswerFits, UnaskedRepairs, world
  <2> QED BY <1>1, <1>3, <1>6, <2>1, SameStages, CarryOK DEF world
<1> QED BY <1>4, <1>5, <1>6

LEMMA ButtonsAnswer ==
  ASSUME IInv, AInv, CheckForUpdates \/ StageUpdate \/ RepairInstallation
  PROVE  AInv'
<1> DEFINE a == [app EXCEPT !.suppress = FALSE, !.autoStage = FALSE]
<1>1. UNCHANGED <<world, stages, up, asked, due, pair, reply, commit, faults>>
  BY DEF CheckForUpdates, StageUpdate, RepairInstallation
<1>2. a \in Apps /\ a.verified = app.verified /\ a.isRepair = app.isRepair /\ a.running = app.running
  BY Now DEF Apps
<1>3. Run(a, "check") \/ Run(app, "stage") \/ Run(app, "repair")
  BY DEF CheckForUpdates, StageUpdate, RepairInstallation
<1> HIDE DEF a
<1>4. /\ app'.verified = app.verified /\ app'.isRepair = app.isRepair /\ app'.running = app.running
      /\ tool'.got = None /\ tool'.op # "apply" /\ app'.st # "staged"
  BY <1>2, <1>3, RunShows, Now DEF Operation
<1> QED BY <1>1, <1>4, SameStages, IdleOK DEF world

LEMMA RestartsAnswer == ASSUME IInv, AInv, PressRestart \/ QueuedRestart PROVE AInv'
<1>1. RestartToApply /\ UNCHANGED <<world, stages, up, asked, reply, commit, faults>>
  BY DEF PressRestart, QueuedRestart
<1>2. CASE UNCHANGED <<app, tool>>
  <2>1. HeldVersion' /\ AnswerFits' /\ UnaskedRepairs'
    BY <1>1, <1>2 DEF AInv, HeldVersion, AnswerFits, UnaskedRepairs, world
  <2> QED BY <1>1, <1>2, <2>1, SameStages, CarryOK DEF world
<1>3. CASE Run(app, "apply") /\ app.st = "staged" /\ ~ThroughPair
  <2>1. /\ app'.verified = app.verified /\ app'.isRepair = app.isRepair /\ app'.running = app.running
        /\ app'.seen = app.seen /\ tool'.got = None
    BY <1>3, RunShows, Now DEF Operation
  <2>2. HeldVersion'
    BY <1>1, <1>3, <2>1 DEF AInv, HeldVersion
  <2>3. UnaskedRepairs'
    BY <1>1, <1>3, <2>1 DEF UnaskedRepairs, ThroughPair, world
  <2>4. AnswerFits'
    BY <2>1 DEF AnswerFits
  <2> QED BY <1>1, <2>1, <2>2, <2>3, <2>4, SameStages, CarryOK DEF world
<1>4. CASE Rest(Failed(app))
  <2>1. /\ app'.verified = None /\ app'.running = app.running
        /\ tool'.got = None /\ tool'.op = "none" /\ app'.st # "staged"
    BY <1>4, Now DEF Rest, Failed, Apps, NoTool
  <2>2. HeldVersion' /\ AnswerFits' /\ UnaskedRepairs'
    BY <2>1 DEF HeldVersion, AnswerFits, UnaskedRepairs
  <2> QED BY <1>1, <2>1, <2>2, SameStages, CarryOK DEF world
<1> QED BY <1>1, <1>2, <1>3, <1>4 DEF RestartToApply, StartPairedUpdate

(* The end of a child, of whatever it was.                                 *)
LEMMA FailShows ==
  ASSUME NEW a \in Apps, NEW asking \in BOOLEAN, Fail(a, asking)
  PROVE  /\ app'.verified = None /\ app'.running = a.running
         /\ tool'.got = None /\ tool'.op = "none" /\ asked' = FALSE
         /\ reply' = reply \/ (asking /\ reply'.status = "declined")
<1>1. app' = Failed(a) /\ tool' = NoTool /\ Answer(asking, "failed", a.seen)
  BY DEF Fail, Rest
<1>2. app'.verified = None /\ app'.running = a.running
  BY <1>1 DEF Failed, Apps
<1>3. asked' = FALSE /\ (reply' = reply \/ (asking /\ reply'.status = "declined"))
  BY <1>1 DEF Answer, NoReply
<1> QED BY <1>1, <1>2, <1>3 DEF NoTool

(* A step that fails.                                                      *)
LEMMA FailCarries ==
  ASSUME IInv, AInv, up, NEW a \in Apps, a.running = app.running, NEW asking \in BOOLEAN,
         Fail(a, asking), commit' = commit, paired' = paired, up' = up, VersionsKept
  PROVE  AInv'
<1>1. /\ app'.verified = None /\ app'.running = app.running
      /\ tool'.got = None /\ tool'.op = "none" /\ asked' = FALSE
      /\ reply' = reply \/ reply'.status = "declined"
  BY FailShows
<1>2. HeldVersion' /\ AnswerFits' /\ UnaskedRepairs'
  BY <1>1 DEF HeldVersion, AnswerFits, UnaskedRepairs
<1> QED BY <1>1, <1>2, CarryOK

LEMMA LeftKeeps ==
  ASSUME IInv, stages' \in IF tool.op = "apply" THEN {stages} ELSE LeftStages
  PROVE  VersionsKept
<1>1. CASE stages' = stages
  BY <1>1, SameStages
<1>2. CASE /\ stages' = [stages EXCEPT ![tool.got.stage] = None]
           /\ tool.op # "apply" /\ tool.got # None /\ tool.got.stage # None
  <2>1. tool.got.stage \notin {app.verified, commit.stage}
    BY <1>2 DEF IInv, ToolOK
  <2>2. \A s \in Held : stages'[s] = stages[s]
    BY <1>2, <2>1, KeptNow, Now DEF Held
  <2> QED BY <2>2 DEF VersionsKept
<1> QED BY <1>1, <1>2 DEF LeftStages

LEMMA FailsAnswer == ASSUME IInv, AInv, ToolStopped \/ ToolFails PROVE AInv'
<1>1. /\ Fail(app, asked) /\ UNCHANGED <<world, up, due, pair, commit>> /\ up
      /\ stages' \in IF tool.op = "apply" THEN {stages} ELSE LeftStages
  BY DEF ToolStopped, ToolFails
<1> QED BY <1>1, LeftKeeps, FailCarries, Now DEF world

(* What the service makes of an answer that fits.                          *)
LEMMA ResultAnswer ==
  ASSUME IInv, AInv, up, NEW a \in Apps, a.verified = app.verified, a.isRepair = app.isRepair,
         a.running = app.running, NEW asking \in BOOLEAN, NEW op \in Operation,
         NEW got \in Answers, got.status \in Shown, HandleUpdateResult(a, asking, op, got),
         got.status = "current" => ~Newer(got.version, got.current),
         op = "repair" /\ got.status = "staged" => got.version = got.current,
         UNCHANGED <<world, stages, up, commit, faults>>
  PROVE  AInv'
<1> DEFINE seen == Seen(a, got)
           shown == [seen EXCEPT !.autoStage = FALSE, !.st = got.status]
<1>1. /\ got.version \in 0 .. MaxVersion /\ got.stage \in Stage \cup {None}
      /\ got.status \in States
  BY DEF Answers, Shown, States
<1>2. /\ seen \in Apps /\ seen.verified = a.verified /\ seen.isRepair = a.isRepair
      /\ seen.running = a.running /\ seen.seen = got.version
  BY <1>1 DEF Seen, Apps
<1>3. /\ shown \in Apps /\ shown.verified = a.verified /\ shown.isRepair = a.isRepair
      /\ shown.running = a.running /\ shown.seen = got.version
  BY <1>1, <1>2 DEF Apps
<1>4. CASE ~Recognized(a, got)
  <2>1. Fail(a, asking)
    BY <1>4 DEF HandleUpdateResult
  <2> QED BY <2>1, SameStages, FailCarries DEF world
<1>5. CASE Recognized(a, got) /\ got.status = "available" /\ a.autoStage
  <2> DEFINE b == [seen EXCEPT !.autoStage = FALSE]
  <2>1. b \in Apps /\ b.verified = a.verified /\ b.isRepair = a.isRepair /\ b.running = a.running
    BY <1>2 DEF Apps
  <2>2. Run(b, "stage") /\ asked' = asking /\ UNCHANGED <<due, reply>>
    BY <1>5 DEF HandleUpdateResult
  <2> HIDE DEF b
  <2>3. /\ app'.verified = app.verified /\ app'.isRepair = app.isRepair /\ app'.running = app.running
        /\ tool'.got = None /\ tool'.op = "stage" /\ app'.st # "staged"
    BY <2>1, <2>2, RunShows DEF Operation
  <2> QED BY <2>2, <2>3, SameStages, IdleOK DEF world
<1>6. CASE Recognized(a, got) /\ got.status = "staged"
  <2> DEFINE repair == op = "repair"
             next == [shown EXCEPT !.verified = got.stage, !.isRepair = repair]
  <2>1. Rest(next) /\ asked' = asking /\ UNCHANGED reply
    BY <1>6 DEF HandleUpdateResult
  <2>2. /\ next.verified = got.stage /\ next.isRepair = repair /\ next.running = app.running
        /\ next.seen = got.version
    <3> HIDE DEF repair, shown
    <3> QED BY <1>1, <1>3 DEF Apps
  <2>3. stages[got.stage].version = got.version /\ got.current = app.running
    BY <1>6 DEF Recognized
  <2> HIDE DEF next
  <2>4. app' = next /\ tool' = NoTool
    BY <2>1 DEF Rest
  <2>5. HeldVersion' /\ AnswerFits' /\ UnaskedRepairs'
    BY <2>2, <2>3, <2>4 DEF HeldVersion, AnswerFits, UnaskedRepairs, NoTool
  <2>6. app'.isRepair => stages'[app'.verified].version = app.running
    BY <1>6, <2>2, <2>3, <2>4
  <2> QED BY <2>1, <2>2, <2>4, <2>5, <2>6, SameStages, CarryOK DEF world
<1>7. CASE Recognized(a, got) /\ got.status # "staged" /\ ~(got.status = "available" /\ a.autoStage)
  <2>1. Rest(shown) /\ Answer(asking, got.status, got.version)
    BY <1>7 DEF HandleUpdateResult
  <2>2. app' = shown /\ tool' = NoTool /\ asked' = FALSE
    BY <2>1 DEF Rest, Answer
  <2> HIDE DEF shown
  <2>3. HeldVersion' /\ AnswerFits' /\ UnaskedRepairs'
    BY <2>2 DEF HeldVersion, AnswerFits, UnaskedRepairs, NoTool
  <2>4. \/ reply' = reply
        \/ /\ reply'.status # "accepted"
           /\ reply'.status = "current" => ~Newer(reply'.version, app.running)
    <3>1. got.status # "accepted" /\ got.current = app.running
      BY <1>7 DEF Shown, Recognized
    <3> QED BY <2>1, <3>1 DEF Answer, NoReply
  <2> QED BY <1>3, <2>2, <2>3, <2>4, SameStages, CarryOK DEF world
<1> QED BY <1>4, <1>5, <1>6, <1>7

LEMMA InspectionAnswer ==
  ASSUME IInv, AInv, NEW got, HandleInspection(got),
         UNCHANGED <<world, stages, up, pair, commit, faults>>
  PROVE  AInv'
<1>5. /\ app'.verified = app.verified /\ app'.isRepair = app.isRepair /\ app'.running = app.running
      /\ app'.st # "staged" /\ tool'.got = None /\ tool'.op # "apply"
  BY InspectionShows
<1>6. reply' = reply
  BY DEF HandleInspection
<1> QED BY <1>5, <1>6, SameStages, IdleOK DEF world

LEMMA AnswersAnswer == ASSUME IInv, AInv, ToolAnswers PROVE AInv'
<1>1. UNCHANGED <<world, stages, up, pair, commit, faults>> /\ up
  BY DEF ToolAnswers, Answering
<1>2. CASE tool.op = "inspect"
  BY <1>1, <1>2, InspectionAnswer DEF ToolAnswers
<1>3. CASE tool.op # "inspect"
  <2>1. HandleUpdateResult(app, asked, tool.op, tool.got) /\ tool.got # None
        /\ tool.got.status # "staging" /\ tool.op # "apply"
    BY <1>3 DEF ToolAnswers, Answering
  <2>2. tool.op \in Operation /\ tool.got \in Answers
    BY <2>1, Now DEF Tools, IInv, ToolOK
  <2>3. Downloads(tool.op)
    BY <1>3, <2>1, <2>2 DEF Downloads, Operation
  <2>4. tool.got.status \in Shown
    BY <2>1, <2>3 DEF IInv, ToolOK
  <2>5. /\ tool.got.status = "current" => ~Newer(tool.got.version, tool.got.current)
        /\ tool.op = "repair" /\ tool.got.status = "staged" => tool.got.version = tool.got.current
    BY <2>1 DEF AInv, AnswerFits
  <2> QED BY <1>1, <2>1, <2>2, <2>4, <2>5, ResultAnswer, Now
<1> QED BY <1>2, <1>3

LEMMA PreparedAnswer == ASSUME IInv, AInv, ToolPrepared PROVE AInv'
<1>1. /\ tool.op = "apply" /\ tool.got # None /\ tool.got.stage = app.verified
      /\ commit' = [stage |-> tool.got.stage, cli |-> asked]
      /\ Answer(asked, "accepted", app.seen) /\ Rest(app) /\ up /\ up' = FALSE
      /\ UNCHANGED <<world, stages, faults>>
  BY DEF ToolPrepared, Answering, Authorize
<1>2. app.verified # None
  BY <1>1 DEF IInv, ToolOK
<1>3. /\ commit' # NoCommit /\ commit'.stage = app.verified /\ commit'.cli = asked
      /\ app' = app /\ tool' = NoTool /\ asked' = FALSE
  BY <1>1, <1>2 DEF NoCommit, Rest, Answer
<1>4. commit = NoCommit /\ reply.status # "accepted"
  BY <1>1 DEF AInv, CommitLast
<1>5. CommitLast'
  BY <1>1, <1>3 DEF CommitLast
<1>6. HeldVersion' /\ AnswerFits' /\ UnaskedRepairs' /\ RepairVersion'
  BY <1>1, <1>3 DEF AInv, HeldVersion, AnswerFits, UnaskedRepairs, RepairVersion, NoTool
<1>7. ReplyTrue'
  <2>1. CASE asked
    <3>1. reply' = [status |-> "accepted", version |-> app.seen]
      BY <1>1, <2>1 DEF Answer
    <3>2. stages[app.verified].version = app.seen
      BY <1>1, <1>2, <2>1 DEF AInv, HeldVersion
    <3> QED BY <1>1, <1>3, <3>1, <3>2 DEF ReplyTrue
  <2>2. CASE ~asked
    BY <1>1, <1>3, <1>4, <2>2 DEF Answer, AInv, ReplyTrue, Newer
  <2> QED BY <2>1, <2>2
<1>8. PairKeepsStep'
  BY <1>1, <1>2, <1>3 DEF AInv, UnaskedRepairs, RepairVersion, PairKeepsStep, world
<1> QED BY <1>5, <1>6, <1>7, <1>8 DEF AInv

LEMMA AskAnswer ==
  ASSUME IInv, AInv, up, NEW s \in Stage \cup {None}, s # None => Done(s), Ask(s),
         UNCHANGED <<world, stages, up, commit, faults>>
  PROVE  AInv'
<1> DEFINE a == [app EXCEPT !.suppress = FALSE, !.autoStage = TRUE]
           prepared == [status |-> "staged", current |-> app.running,
                        version |-> stages[s].version, stage |-> s]
<1>1. a \in Apps /\ a.verified = app.verified /\ a.isRepair = app.isRepair /\ a.running = app.running
  BY Now DEF Apps
<1>2. CASE s = None
  <2>1. Run(a, "check") /\ reply' = NoReply
    BY <1>2 DEF Ask
  <2> HIDE DEF a
  <2>2. /\ app'.verified = app.verified /\ app'.isRepair = app.isRepair /\ app'.running = app.running
        /\ tool'.got = None /\ tool'.op = "check" /\ app'.st # "staged"
    BY <1>1, <2>1, RunShows DEF Operation
  <2>3. HeldVersion' /\ AnswerFits' /\ UnaskedRepairs'
    BY <2>2 DEF HeldVersion, AnswerFits, UnaskedRepairs
  <2> QED BY <2>1, <2>2, <2>3, SameStages, CarryOK DEF world, NoReply
<1>3. CASE s # None
  <2>1. HandleUpdateResult(a, TRUE, "stage", prepared)
    BY <1>3 DEF Ask
  <2>2. s \in Stage /\ stages[s] \in StageRecords
    BY <1>3, Now DEF Done
  <2>3. stages[s].version \in 0 .. MaxVersion /\ app.running \in Version
    BY <2>2, Now DEF StageRecords, Apps
  <2>4. prepared \in Answers /\ prepared.status \in Shown /\ prepared.status = "staged"
    BY <2>2, <2>3 DEF Answers, Shown
  <2> HIDE DEF prepared, a
  <2> QED BY <1>1, <2>1, <2>4, ResultAnswer DEF Operation
<1> QED BY <1>2, <1>3

LEMMA AsksAnswer == ASSUME IInv, AInv, CommandAsks \/ CoordinatorAsks PROVE AInv'
<1>1. PICK s \in Stage \cup {None} : (s # None => Done(s)) /\ Ask(s)
  BY DEF CommandAsks, CoordinatorAsks
<1>2. UNCHANGED <<world, stages, up, commit, faults>> /\ up
  BY DEF CommandAsks, CoordinatorAsks, Accepts
<1> QED BY <1>1, <1>2, AskAnswer

LEMMA CoordinatorEndsAnswer ==
  ASSUME IInv, AInv, NEW ok \in BOOLEAN, CoordinatorEnds(ok)
  PROVE  AInv'
<1> DEFINE a == [app EXCEPT !.verified = None, !.st = "current"]
           b == [app EXCEPT !.st = "staged"]
<1>1. /\ app' = app \/ (app' \in {a, b} /\ ~asked /\ tool.op = "none")
      /\ UNCHANGED <<world, stages, up, tool, asked, due, reply, commit, faults>>
  BY DEF CoordinatorEnds
<1>2. a.verified = None /\ a.running = app.running
  BY Now DEF Apps
<1>3. b.verified = app.verified /\ b.isRepair = app.isRepair /\ b.running = app.running
  BY Now DEF Apps
<1> HIDE DEF a, b
<1>4. HeldVersion' /\ AnswerFits' /\ UnaskedRepairs'
  BY <1>1 DEF AInv, HeldVersion, AnswerFits, UnaskedRepairs, world
<1> QED BY <1>1, <1>2, <1>3, <1>4, SameStages, CarryOK DEF world

(* A child that does its work leaves the service alone.                    *)
LEMMA WorkAnswer ==
  ASSUME IInv, AInv, NEW got, tool.op # "none", Gives(got),
         got.status = "current" => ~Newer(got.version, got.current),
         tool.op = "repair" /\ got.status \in {"staging", "staged"} => got.version = got.current,
         VersionsKept, UNCHANGED <<world, up, app, asked, due, pair, reply, commit, faults>>
  PROVE  AInv'
<1>1. tool'.got = got /\ tool'.op = tool.op
  BY Now DEF Gives, Tools
<1>2. app.verified # None => app.verified \in Held
  BY DEF Held
<1>3. HeldVersion'
  BY <1>1, <1>2 DEF AInv, HeldVersion, VersionsKept
<1>4. AnswerFits' /\ UnaskedRepairs'
  BY <1>1 DEF AInv, AnswerFits, UnaskedRepairs, Newer, world
<1> QED BY <1>3, <1>4, CarryOK DEF world

LEMMA CleanedKeeps ==
  ASSUME IInv, NEW s, NEW record,
         Cleaned[s] = None, stages' = Cleaned \/ stages' = [Cleaned EXCEPT ![s] = record]
  PROVE  VersionsKept
<1>1. ASSUME NEW t \in Held
      PROVE  stages'[t] = stages[t]
  <2>1. t \in Stage /\ Cleaned[t] = stages[t] /\ Cleaned[t] # None
    BY CleanedOK, KeptNow DEF Held, Done
  <2> QED BY <2>1, CleanedOK
<1> QED BY <1>1 DEF VersionsKept

LEMMA OnlyCleanedKeeps == ASSUME IInv, stages' = Cleaned PROVE VersionsKept
<1>1. \A t \in Held : Cleaned[t] = stages[t]
  BY CleanedOK, KeptNow DEF Held
<1> QED BY <1>1 DEF VersionsKept

LEMMA NothingFits ==
  ASSUME IInv, NEW op \in {"check", "stage"}, Wanted(op) = {}
  PROVE  /\ NothingWanted.status \in {"unavailable", "current"}
         /\ NothingWanted.status = "current" => ~Newer(NothingWanted.version, NothingWanted.current)
<1>1. ~(latest > 0 /\ Newer(latest, active.version))
  BY DEF Wanted
<1>2. latest # 0 => latest > 0
  BY Now
<1> QED BY <1>1, <1>2 DEF NothingWanted, Answered

LEMMA ChecksAnswer == ASSUME IInv, AInv, ToolChecks PROVE AInv'
<1> DEFINE got == IF Wanted("check") # {} THEN Answered("available", latest, None) ELSE NothingWanted
<1>1. /\ tool.op = "check" /\ stages' = Cleaned /\ Gives(got)
      /\ UNCHANGED <<world, up, app, asked, due, pair, reply, commit, faults>>
  BY DEF ToolChecks, Working
<1>2. got.status = "current" => ~Newer(got.version, got.current)
  BY NothingFits DEF Answered
<1> HIDE DEF got
<1> QED BY <1>1, <1>2, OnlyCleanedKeeps, WorkAnswer

LEMMA DownloadsAnswer == ASSUME IInv, AInv, ToolDownloads PROVE AInv'
<1>1. /\ tool.op \in {"stage", "repair"}
      /\ UNCHANGED <<world, up, app, asked, due, pair, reply, commit, faults>>
  BY DEF ToolDownloads, Working
<1>2. CASE tool.op = "stage" /\ Wanted(tool.op) = {} /\ Gives(NothingWanted) /\ stages' = Cleaned
  <2>1. /\ NothingWanted.status = "current" => ~Newer(NothingWanted.version, NothingWanted.current)
    BY <1>2, NothingFits
  <2> HIDE DEF NothingWanted
  <2> QED BY <1>1, <1>2, <2>1, OnlyCleanedKeeps, WorkAnswer
<1>3. ASSUME NEW version \in Wanted(tool.op), NEW s \in Stage, Cleaned[s] = None,
             stages' = [Cleaned EXCEPT ![s] = Record(version, FALSE)],
             Gives(Answered("staging", version, s))
      PROVE  AInv'
  <2> DEFINE got == Answered("staging", version, s)
  <2>1. got.status = "staging" /\ (tool.op = "repair" => got.version = got.current)
    BY <1>3 DEF Answered, Wanted
  <2>2. VersionsKept
    BY <1>3, CleanedKeeps
  <2>3. Gives(got)
    BY <1>3
  <2> HIDE DEF got
  <2> QED BY <1>1, <2>1, <2>2, <2>3, WorkAnswer
<1> QED BY <1>2, <1>3 DEF ToolDownloads, NewStage, Free

LEMMA VerifiesAnswer == ASSUME IInv, AInv, ToolVerifies PROVE AInv'
<1> DEFINE s == tool.got.stage
           got == [tool.got EXCEPT !.status = "staged"]
<1>1. /\ tool.got # None /\ tool.got.status = "staging"
      /\ stages' = [stages EXCEPT ![s].done = TRUE]
      /\ tool' = [tool EXCEPT !.got.status = "staged"]
      /\ UNCHANGED <<world, up, app, asked, due, pair, reply, commit, faults>>
  BY DEF ToolVerifies
<1>2. tool.op # "none" /\ Downloads(tool.op) /\ s \in Stage /\ tool.got \in Answers
  BY <1>1, Now DEF IInv, ToolOK, Tools
<1>3. tool' = [tool EXCEPT !.got = got]
  BY <1>1, Now DEF Tools
<1>4. /\ got.status = "staged" /\ got.version = tool.got.version
      /\ got.current = tool.got.current
  BY <1>2 DEF Answers
<1>5. tool.op = "repair" => got.version = got.current
  BY <1>1, <1>4 DEF AInv, AnswerFits
<1>6. s \notin Held
  BY <1>1, <1>2 DEF IInv, ToolOK, Downloads, Held
<1>7. VersionsKept
  BY <1>1, <1>6, KeptNow, Now DEF VersionsKept, Held
<1> HIDE DEF got, s
<1> QED BY <1>1, <1>2, <1>3, <1>4, <1>5, <1>7, WorkAnswer DEF Gives

LEMMA PreparesAnswer == ASSUME IInv, AInv, ToolPrepares \/ ToolInspects PROVE AInv'
<1>1. PICK got : /\ Gives(got) /\ got.status \in {"prepared", "inspected"}
  BY DEF ToolPrepares, ToolInspects, Answered
<1>2. /\ tool.op \in {"apply", "inspect"}
      /\ UNCHANGED <<world, stages, up, app, asked, due, pair, reply, commit, faults>>
  BY DEF ToolPrepares, ToolInspects, Working
<1> QED BY <1>1, <1>2, SameStages, WorkAnswer

LEMMA StopAnswer == ASSUME IInv, AInv, StopTool PROVE AInv'
<1>1. tool'.got = tool.got /\ tool'.op = tool.op
      /\ UNCHANGED <<world, stages, up, app, asked, due, pair, reply, commit>>
  BY Now DEF StopTool, Tools
<1>2. HeldVersion' /\ AnswerFits' /\ UnaskedRepairs'
  BY <1>1 DEF AInv, HeldVersion, AnswerFits, UnaskedRepairs, world
<1> QED BY <1>1, <1>2, SameStages, CarryOK DEF world

(* A step of others, beside the service.                                   *)
LEMMA BesideAnswer ==
  ASSUME IInv, AInv, VersionsKept, UNCHANGED <<paired, up, app, tool, asked, reply, commit>>
  PROVE  AInv'
<1>1. app.verified # None => app.verified \in Held
  BY DEF Held
<1>2. HeldVersion' /\ AnswerFits' /\ UnaskedRepairs'
  BY <1>1 DEF AInv, HeldVersion, AnswerFits, UnaskedRepairs, VersionsKept
<1> QED BY <1>2, CarryOK

LEMMA CommandStagesAnswer == ASSUME IInv, AInv, CommandStages PROVE AInv'
<1>1. PICK s \in NewStage : \E record : stages' = [Cleaned EXCEPT ![s] = record]
  BY DEF CommandStages
<1>2. UNCHANGED <<world, up, app, tool, asked, due, pair, reply, commit>> /\ Cleaned[s] = None
  BY DEF CommandStages, NewStage, Free
<1>3. VersionsKept
  BY <1>1, <1>2, CleanedKeeps
<1> QED BY <1>2, <1>3, BesideAnswer DEF world

LEMMA AgeAnswer == ASSUME IInv, AInv, NEW s \in Stage, Age(s) PROVE AInv'
<1>1. /\ ~stages[s].done /\ stages' = [stages EXCEPT ![s].old = TRUE]
      /\ UNCHANGED <<world, up, app, tool, asked, due, pair, reply, commit, faults>>
  BY DEF Age
<1>2. VersionsKept
  <2>1. ASSUME NEW t \in Held
        PROVE  stages'[t] = stages[t]
    <3>1. t \in Stage /\ Done(t)
      BY KeptNow DEF Held
    <3> QED BY <1>1, <3>1, Now DEF Done
  <2> QED BY <2>1 DEF VersionsKept
<1> QED BY <1>1, <1>2, BesideAnswer DEF world

LEMMA QuitAnswer == ASSUME IInv, AInv, Quit PROVE AInv'
<1>1. /\ up' = FALSE /\ tool' = NoTool /\ asked' = FALSE
      /\ UNCHANGED <<world, stages, app, reply, commit>>
  BY DEF Quit
<1> QED BY <1>1, SameStages, IdleOK DEF NoTool, world

LEMMA RelaunchAnswer == ASSUME IInv, AInv, Relaunch PROVE AInv'
<1>1. /\ app' = NewApp(active'.version) /\ tool' = Inspect
      /\ commit' = NoCommit /\ reply' = NoReply
  BY DEF Relaunch
<1> QED BY <1>1 DEF AInv, CommitLast, HeldVersion, AnswerFits, UnaskedRepairs, RepairVersion,
                    ReplyTrue, PairKeepsStep, NoReply, NewApp, Inspect

LEMMA WorldAnswer == ASSUME IInv, AInv, Reinstall \/ Damage \/ Publish PROVE AInv'
<1>1. UNCHANGED <<stages, up, app, tool, asked, reply, commit, paired>>
  BY DEF Reinstall, Damage, Publish
<1> QED BY <1>1, SameStages, BesideAnswer

LEMMA AnswerInit == Init => AInv
BY DEF Init, AInv, CommitLast, HeldVersion, AnswerFits, UnaskedRepairs, RepairVersion, ReplyTrue,
       PairKeepsStep, NoReply, NewApp, Inspect

LEMMA AnswerNext == ASSUME IInv, AInv, [Next]_vars PROVE AInv'
<1>1. CASE ToolWorks
  BY <1>1, ChecksAnswer, DownloadsAnswer, VerifiesAnswer, PreparesAnswer DEF ToolWorks
<1>2. CASE ToolEnds \/ ToolFails \/ StopTool
  BY <1>2, AnswersAnswer, PreparedAnswer, FailsAnswer, StopAnswer DEF ToolEnds
<1>3. CASE StartAutomaticCheck \/ QueuedRestart \/ Buttons
  BY <1>3, StartsAnswer, RestartsAnswer, ButtonsAnswer DEF Buttons
<1>4. CASE Commands
  BY <1>4, CommandStagesAnswer, AsksAnswer, CoordinatorEndsAnswer DEF Commands
<1>5. CASE Around
  BY <1>5, QuitAnswer, RelaunchAnswer, WorldAnswer, AgeAnswer DEF Around
<1>6. CASE UNCHANGED vars
  <2>1. UNCHANGED <<world, stages, up, app, tool, asked, due, pair, reply, commit, faults>>
    BY <1>6 DEF vars
  <2> QED BY <2>1, SameStages, BesideAnswer DEF world
<1> QED BY <1>1, <1>2, <1>3, <1>4, <1>5, <1>6 DEF Next

LEMMA AnswerInductive == Spec => []AInv
<1>1. IInv /\ AInv /\ [Next]_vars => AInv'
  BY AnswerNext
<1> QED BY <1>1, AnswerInit, Inductive, PTL DEF Spec

(* What a `headroom update' is told is so (updateservice.cpp:              *)
(* finishCLIRequest): accepted, the committed stage has the version that   *)
(* was named; current, the running version is no older than that.          *)
THEOREM RepliesTrue == Spec => []ReplyTrue
<1>1. AInv => ReplyTrue
  BY DEF AInv
<1> QED BY <1>1, AnswerInductive, PTL

(* A paired desktop that nobody asked commits nothing but a repair of the  *)
(* version it runs (updateservice.cpp: restartToApply).                    *)
THEOREM PairKept == Spec => []PairKeepsStep
<1>1. AInv => PairKeepsStep
  BY DEF AInv
<1> QED BY <1>1, AnswerInductive, PTL

=============================================================================
