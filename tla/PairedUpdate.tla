---------------------------- MODULE PairedUpdate ----------------------------
(***************************************************************************)
(* `headroom update' of a pair: the coordinator at one end stages the same *)
(* release at both, has its peer apply it, and commits its own only once   *)
(* the peer was verified.  Either end may run one, the installations are   *)
(* updated around it, and a request may be handled after its coordinator   *)
(* gave up.                                                                *)
(***************************************************************************)
EXTENDS PairHandshake

Unfinished(e) == progress[e].phase \in {"prepared", "peer_committing", "peer_applied"}

UsedOps == {stage[e].op : e \in End} \cup {co[e].localOp : e \in End}
             \cup {co[e].peerOp : e \in End} \cup {c.op : c \in calls}

NewOps == Least(Ops \ UsedOps)

Paired(e, id) == config[e].state = "active" /\ config[e].id = id

Step(e, record) == co' = [co EXCEPT ![e] = record]

Save(e, phase, version, probe) ==
  progress' = [progress EXCEPT ![e] = [phase |-> phase, version |-> version, peer |-> probe]]

(* Mutant: a reconciliation insists on the peer that was probed, too.      *)
ConfirmsAlways(e, reconcile) == progress[e].phase \in {"peer_committing", "peer_applied"}

(* An unfinished run past its peer's commit must be verified through the   *)
(* manager that it probed then, which is why the peer's version is kept.   *)
Confirms(e, reconcile) ==
  ~reconcile /\ progress[e].phase \in {"peer_committing", "peer_applied"}

(* The command reads the record of the pair before it takes the lock; a    *)
(* `pair' command that holds the lock may be changing that record.  To     *)
(* reconcile what is not unfinished only fails.                            *)
Start(e, reconcile) ==
  /\ co[e].pc = "idle" /\ Paired(e, config[e].id) /\ Launchable(e)
  /\ reconcile => Unfinished(e)
  /\ Step(e, [Idle EXCEPT !.pc = "locking", !.reconcile = reconcile, !.gen = inst[e].version])
  /\ IF e = Home THEN UNCHANGED faults ELSE Fault
  /\ UNCHANGED <<latest, inst, tx, files, pair, offers, calls>>

CanLock(e) == ~Locked(e) /\ ManagedInstall(e, co[e].gen)

(* With the lock it reads what an earlier run left behind.                 *)
Lock(e) ==
  /\ co[e].pc = "locking" /\ CanLock(e)
  /\ LET confirmed == Confirms(e, co[e].reconcile) IN
     Step(e, [co[e] EXCEPT !.pc = IF confirmed THEN "confirm" ELSE "inspect",
                           !.version = IF Unfinished(e) THEN progress[e].version ELSE 0,
                           !.probe = IF confirmed THEN progress[e].peer ELSE 0,
                           !.confirmed = confirmed])
  /\ UNCHANGED <<latest, inst, tx, files, pair, offers, calls, faults>>

CanConfirm(e) == VerifyOK(Peer(e), co[e].version, co[e].probe)

Confirm(e) ==
  /\ co[e].pc = "confirm" /\ CanConfirm(e)
  /\ Step(e, [co[e] EXCEPT !.pc = "choose", !.peer = co[e].version])
  /\ UNCHANGED <<latest, inst, tx, files, pair, offers, calls, faults>>

CanInspect(e) == Paired(Peer(e), config[e].id) /\ Launchable(Peer(e))

InspectPeer(e) ==
  /\ co[e].pc = "inspect" /\ CanInspect(e)
  /\ Step(e, [co[e] EXCEPT !.pc = "choose", !.peer = inst[Peer(e)].version,
                           !.probe = inst[Peer(e)].version])
  /\ UNCHANGED <<latest, inst, tx, files, pair, offers, calls, faults>>

(* The exact unfinished release, or else the latest one; nothing is        *)
(* downgraded, and a reconciliation does not fall behind the release that  *)
(* it replaces.                                                            *)
Target(e) == IF co[e].version # 0 /\ ~co[e].reconcile THEN co[e].version ELSE latest

CanChoose(e) ==
  /\ co[e].reconcile => /\ ManagedInstall(e, co[e].gen)
                        /\ VerifyOK(Peer(e), co[e].peer, co[e].probe)
  /\ Target(e) >= co[e].gen /\ Target(e) >= co[e].peer
  /\ co[e].reconcile => Target(e) >= co[e].version

UpToDate(e) == co[e].gen = Target(e) /\ co[e].peer = Target(e)

Choose(e) ==
  /\ co[e].pc = "choose" /\ CanChoose(e) /\ ~UpToDate(e)
  /\ Step(e, [co[e] EXCEPT !.pc = "prepareLocal", !.version = Target(e),
                           !.reconcile = FALSE])
  /\ UNCHANGED <<latest, inst, tx, files, pair, offers, calls, faults>>

CanFinish(e) == ManagedInstall(e, Target(e)) /\ VerifyOK(Peer(e), Target(e), co[e].probe)

FinishUpToDate(e) ==
  /\ co[e].pc = "choose" /\ CanChoose(e) /\ UpToDate(e) /\ CanFinish(e)
  /\ Save(e, "complete", Target(e), co[e].probe)
  /\ Step(e, Idle)
  /\ UNCHANGED <<latest, inst, tx, stage, config, pair, offers, calls, faults>>

(* Stages, or finds current what it already was at the inspection.         *)
CanPrepare(e, version, seen) ==
  IF Current(e, version) THEN seen = version ELSE Stageable(e, version)

PrepareLocal(e) ==
  /\ co[e].pc = "prepareLocal" /\ CanPrepare(e, co[e].version, co[e].gen)
  /\ LET next == IF co[e].confirmed THEN "prepared" ELSE "preparePeer" IN
     IF Current(e, co[e].version)
     THEN Step(e, [co[e] EXCEPT !.pc = next]) /\ UNCHANGED stage
     ELSE \E op \in NewOps :
            /\ stage' = [stage EXCEPT ![e] = [op |-> op, version |-> co[e].version,
                                              base |-> inst[e].version]]
            /\ Step(e, [co[e] EXCEPT !.pc = next, !.localOp = op])
  /\ UNCHANGED <<latest, inst, tx, config, progress, pair, offers, calls, faults>>

Request(e, cmd, op) ==
  [to |-> Peer(e), cmd |-> cmd, version |-> co[e].version, op |-> op,
   gen |-> inst[Peer(e)].version, paired |-> Paired(Peer(e), config[e].id)]

(* Starts the peer's CLI, which names the operation it prepares.           *)
PreparePeer(e) ==
  /\ co[e].pc = "preparePeer" /\ Launchable(Peer(e))
  /\ \E op \in NewOps :
       /\ calls' = calls \cup {Request(e, "prepare", op)}
       /\ Step(e, [co[e] EXCEPT !.pc = "preparing", !.peerOp = op])
  /\ UNCHANGED <<latest, inst, tx, files, pair, offers, faults>>

(* What a handler finds of its generation and its record of the pair: it   *)
(* looks before it takes the lock, when its process starts or later on.    *)
Looks(c) ==
  {c.paired, Paired(c.to, config[Peer(c.to)].id) /\ ManagedInstall(c.to, c.gen)}

(* It serves an active pair, from the active generation, and only while no *)
(* command of its own end holds the pairing lock.                          *)
Serves(c, known) == known /\ ~Locked(c.to)

(* The reply counts if the coordinator of that request still waits for it, *)
(* and if `current' is what it saw when it inspected the peer.             *)
Reply(c, accepted) ==
  LET e == Peer(c.to) IN
  IF co[e].pc # "preparing" \/ co[e].peerOp # c.op THEN UNCHANGED co
  ELSE IF ~accepted THEN Step(e, Idle)
  ELSE Step(e, [co[e] EXCEPT !.pc = "prepared", !.peer = 0,
                             !.peerOp = IF Current(c.to, c.version) THEN NoOp ELSE c.op])

HandlePrepare(c) ==
  /\ c \in calls /\ c.cmd = "prepare"
  /\ calls' = calls \ {c}
  /\ \E known \in Looks(c) :
       /\ Reply(c, Serves(c, known) /\ CanPrepare(c.to, c.version, co[Peer(c.to)].peer))
       /\ stage' = IF Serves(c, known) /\ Stageable(c.to, c.version)
                   THEN [stage EXCEPT ![c.to] = [op |-> c.op, version |-> c.version,
                                                 base |-> inst[c.to].version]]
                   ELSE stage
  /\ UNCHANGED <<latest, inst, tx, config, progress, pair, offers, faults>>

(* Only when both are staged is the target recorded.                       *)
SavePrepared(e) ==
  /\ co[e].pc = "prepared"
  /\ Save(e, "prepared", co[e].version, co[e].probe)
  /\ LET current == co[e].confirmed \/ co[e].peerOp = NoOp IN
     Step(e, [co[e] EXCEPT !.pc = IF current THEN "verify" ELSE "committing"])
  /\ UNCHANGED <<latest, inst, tx, stage, config, pair, offers, calls, faults>>

SaveCommitting(e) ==
  /\ co[e].pc = "committing"
  /\ Save(e, "peer_committing", co[e].version, co[e].probe)
  /\ Step(e, [co[e] EXCEPT !.pc = "commitPeer"])
  /\ UNCHANGED <<latest, inst, tx, stage, config, pair, offers, calls, faults>>

(* Mutant: the reply is taken for the outcome.                             *)
CommitPeerTrusted(e) ==
  /\ co[e].pc = "commitPeer" /\ Launchable(Peer(e))
  /\ calls' = calls \cup {Request(e, "commit", co[e].peerOp)}
  /\ Step(e, [co[e] EXCEPT !.pc = "local"])
  /\ UNCHANGED <<latest, inst, tx, files, pair, offers, faults>>

(* Whatever the reply, or without one, the peer is asked what became of it.*)
CommitPeer(e) ==
  /\ co[e].pc = "commitPeer" /\ Launchable(Peer(e))
  /\ calls' = calls \cup {Request(e, "commit", co[e].peerOp)}
  /\ Step(e, [co[e] EXCEPT !.pc = "verify"])
  /\ UNCHANGED <<latest, inst, tx, files, pair, offers, faults>>

(* Applies the operation that was prepared last, if it is this one; the    *)
(* process must still be of the active generation.                         *)
CanCommit(e, op, version, gen) ==
  /\ stage[e].op = op /\ op # NoOp /\ stage[e].version = version
  /\ ManagedInstall(e, gen) /\ Applicable(e, stage[e])

HandleCommit(c) ==
  /\ c \in calls /\ c.cmd = "commit"
  /\ calls' = calls \ {c}
  /\ \E known \in Looks(c) :
       IF Serves(c, known) /\ CanCommit(c.to, c.op, c.version, c.gen)
       THEN OpenTransaction(c.to, c.version) ELSE UNCHANGED tx
  /\ UNCHANGED <<latest, inst, files, pair, offers, co, faults>>

(* A request that never reaches the peer, or whose apply fails at once.    *)
CallLost(c) ==
  /\ c \in calls /\ Fault
  /\ calls' = calls \ {c}
  /\ UNCHANGED <<latest, inst, tx, files, pair, offers, co>>

VerifyPeer(e) ==
  /\ co[e].pc = "verify" /\ CanConfirm(e)
  /\ Save(e, "peer_applied", co[e].version, co[e].probe)
  /\ Step(e, [co[e] EXCEPT !.pc = "local"])
  /\ UNCHANGED <<latest, inst, tx, stage, config, pair, offers, calls, faults>>

(* The coordinator belongs to the generation that its own transaction      *)
(* replaces, so it exits and leaves the last record to the next run.       *)
CanCommitLocal(e) ==
  co[e].localOp # NoOp /\ CanCommit(e, co[e].localOp, co[e].version, co[e].gen)

CommitLocal(e) ==
  /\ co[e].pc = "local" /\ CanCommitLocal(e)
  /\ OpenTransaction(e, co[e].version)
  /\ Step(e, Idle)
  /\ UNCHANGED <<latest, inst, files, pair, offers, calls, faults>>

CanFinishCurrent(e) == co[e].localOp = NoOp /\ ManagedInstall(e, co[e].version)

FinishCurrent(e) ==
  /\ co[e].pc = "local" /\ CanFinishCurrent(e)
  /\ Save(e, "complete", co[e].version, co[e].probe)
  /\ Step(e, Idle)
  /\ UNCHANGED <<latest, inst, tx, stage, config, pair, offers, calls, faults>>

(* The error returns.  A wait for the peer's version ends after a while if *)
(* nothing is under way there.                                             *)
Hopeless(e) ==
  \/ co[e].pc = "locking" /\ ~CanLock(e)
  \/ co[e].pc \in {"confirm", "verify"} /\ ~CanConfirm(e) /\ tx[Peer(e)] = NoTx
       /\ \A c \in calls : c.to # Peer(e)
  \/ co[e].pc = "inspect" /\ ~Paired(Peer(e), config[e].id)
  \/ co[e].pc = "choose" /\ ~(CanChoose(e) /\ (UpToDate(e) => CanFinish(e)))
  \/ co[e].pc = "prepareLocal" /\ ~CanPrepare(e, co[e].version, co[e].gen)
  \/ co[e].pc = "preparing" /\ \A c \in calls : c.op # co[e].peerOp
  \/ co[e].pc = "local" /\ ~CanCommitLocal(e) /\ ~CanFinishCurrent(e)

GiveUp(e) ==
  /\ Hopeless(e)
  /\ Step(e, Idle)
  /\ UNCHANGED <<latest, inst, tx, files, pair, offers, calls, faults>>

(* The coordinator dies, or a call times out although the peer is at work. *)
Abort(e) ==
  /\ co[e].pc # "idle" /\ Fault
  /\ Step(e, Idle)
  /\ UNCHANGED <<latest, inst, tx, files, pair, offers, calls>>

Coordinate(e) ==
  \/ Lock(e) \/ Confirm(e) \/ InspectPeer(e) \/ Choose(e) \/ FinishUpToDate(e)
  \/ PrepareLocal(e) \/ PreparePeer(e) \/ SavePrepared(e) \/ SaveCommitting(e)
  \/ CommitPeer(e) \/ VerifyPeer(e) \/ CommitLocal(e) \/ FinishCurrent(e)
  \/ GiveUp(e)

Handle == \E c \in calls : HandlePrepare(c) \/ HandleCommit(c)

Init ==
  /\ latest = 1
  /\ inst = [e \in End |-> [version |-> 1, status |-> "none"]]
  /\ tx = [e \in End |-> NoTx]
  /\ stage = [e \in End |-> NoStage]
  /\ config = [e \in End |-> NoConfig]
  /\ progress = [e \in End |-> NoProgress]
  /\ pair = [e \in End |-> "idle"] /\ offers = [e \in End |-> NoOffer]
  /\ co = [e \in End |-> Idle] /\ calls = {}
  /\ faults = 0

Next ==
  \/ Release \/ Handle \/ \E c \in calls : CallLost(c)
  \/ \E e \in End :
       \/ NativeStep(e) \/ RollBack(e) \/ UpdateLocal(e)
       \/ Handshake(e)
       \/ \E reconcile \in BOOLEAN : Start(e, reconcile)
       \/ Coordinate(e) \/ Abort(e)

(* Native transactions, handlers and coordinators end: their waits are     *)
(* bounded.  The user at Home runs `headroom update' and `--reconcile'     *)
(* again, pairs again if that was cut off, or updates the peer around the  *)
(* pair.  That asks for more than the messages do: the one of a run that   *)
(* cannot verify its peer names `--reconcile' for a side that has advanced *)
(* past the release, but a peer without a recorded outcome needs it, too.  *)
Fairness ==
  /\ \A e \in End : /\ WF_vars(NativeStep(e)) /\ WF_vars(Coordinate(e))
                   /\ WF_vars(OfferHandler(e)) /\ WF_vars(PairAnswered(e))
                   /\ SF_vars(config[e].state = "pending" /\ PairStart(e))
  /\ WF_vars(Handle)
  /\ \A reconcile \in BOOLEAN : SF_vars(Start(Home, reconcile))
  /\ SF_vars(UpdateLocal(Peer(Home)))

Spec == Init /\ [][Next]_vars /\ Fairness

-----------------------------------------------------------------------------
Numbers == 0 .. MaxVersion
OpsOrNone == Ops \cup {NoOp}
IdsOrNone == Ids \cup {NoOp}

Coordinators ==
  [pc : {"idle", "locking", "confirm", "inspect", "choose", "prepareLocal", "preparePeer", "preparing",
         "prepared", "committing", "commitPeer", "verify", "local"},
   reconcile : BOOLEAN, gen : Numbers, version : Numbers, peer : Numbers, probe : Numbers,
   confirmed : BOOLEAN, localOp : OpsOrNone, peerOp : OpsOrNone]

Requests ==
  [to : End, cmd : {"prepare", "commit"}, version : Numbers, op : OpsOrNone, gen : Numbers,
   paired : BOOLEAN]

(* The types; and the pairing lock has one holder.                         *)
TypeOK ==
  /\ latest \in Version
  /\ inst \in [End -> [version : Version, status : {"none", "applied", "rolled_back"}]]
  /\ tx \in [End -> [phase : {"none", "committed", "switched"}, from : Numbers, to : Numbers]]
  /\ stage \in [End -> [op : OpsOrNone, version : Numbers, base : Numbers]]
  /\ config \in [End -> [id : IdsOrNone, state : {"none", "pending", "active"}]]
  /\ progress \in [End -> [phase : {"none", "prepared", "peer_committing", "peer_applied", "complete"},
                           version : Numbers, peer : Numbers]]
  /\ pair \in [End -> {"idle", "offering"}]
  /\ offers \in [End -> [id : IdsOrNone,
                         step : {"none", "sent", "checked", "accepted", "rejected"}]]
  /\ co \in [End -> Coordinators] /\ calls \subseteq Requests
  /\ faults \in 0 .. MaxFaults
  /\ \A e \in End : pair[e] = "idle" \/ co[e].pc \in {"idle", "locking"}

(* A coordinator commits its own update only when its peer keeps at least  *)
(* that release even if the transaction it is in fails: whatever calls     *)
(* were lost or late, and whoever else updated the peer meanwhile.         *)
LocalAfterPeer ==
  [][\A e \in End : CommitLocal(e) => Secured(Peer(e)) >= co[e].version]_vars

(* What an end has on record of a peer is true for good.                   *)
ProgressTrue ==
  \A e \in End :
    /\ progress[e].phase \in {"peer_applied", "complete"}
         => Secured(Peer(e)) >= progress[e].version
    /\ progress[e].phase = "complete" => Secured(e) >= progress[e].version

(* No installation goes back behind a release that it ran: a late commit   *)
(* of an older stage is refused, and a rollback ends at the release that   *)
(* was current when the transaction was opened.                            *)
NoDowngrade == [][\A e \in End : Secured(e)' >= Secured(e)]_vars

(* An unfinished pair is completed by a user who keeps running the update, *)
(* and the reconciliation also where no message asks for it (see Fairness).*)
UnfinishedResolves == Unfinished(Home) ~> ~Unfinished(Home)
=============================================================================
