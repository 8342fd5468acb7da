------------------------- MODULE PairedUpdateProofs -------------------------
(***************************************************************************)
(* Theorems about the pair, for any number of releases, pairings,          *)
(* operations and failures.                                                *)
(***************************************************************************)
EXTENDS PairedUpdate, TLAPS

-----------------------------------------------------------------------------
(* The inductive invariant, by what it is about.                           *)

(* A transaction replaces what is installed when it is opened, by a later  *)
(* release; no outcome is on record while the candidate is tried.          *)
InstallsOK ==
  \A e \in End :
    /\ tx[e].phase # "none" => tx[e].from \in Version /\ tx[e].from < tx[e].to
    /\ tx[e].phase = "committed" => inst[e].version = tx[e].from
    /\ tx[e].phase = "switched" =>
         inst[e].version = tx[e].to /\ inst[e].status = "none"
    /\ stage[e].version > 0 => stage[e].base < stage[e].version

(* An offer under way names the pairing that its command recorded; an      *)
(* accepted one, the pairing that its handler recorded.                    *)
PairOK ==
  \A e \in End :
    /\ config[e] = NoConfig \/ (config[e].id \in Ids /\ config[e].state # "none")
    /\ offers[e] = NoOffer \/ (offers[e].id \in Ids /\ offers[e].step # "none")
    /\ offers[e].step = "accepted" => config[e].id = offers[e].id
    /\ pair[e] = "offering" => config[e].id = offers[Peer(e)].id

(* What a coordinator saw of either end is secured there for good.         *)
PastLocal ==
  {"preparePeer", "preparing", "prepared", "committing", "commitPeer", "verify", "local"}

Sound(e, r) ==
  /\ r \in Coordinators
  /\ Secured(Peer(e)) >= r.probe /\ Secured(e) >= r.gen
  /\ r.pc = "local" => Secured(Peer(e)) >= r.version
  /\ r.pc \in PastLocal /\ r.localOp = NoOp => r.version = r.gen

CoordinatorsOK ==
  \A e \in End : Sound(e, co[e]) /\ Secured(Peer(e)) >= progress[e].peer

IInv ==
  TypeOK /\ InstallsOK /\ PairOK /\ ActivePairAgrees /\ CoordinatorsOK /\ ProgressTrue
-----------------------------------------------------------------------------
(* There are two ends, each the other's peer.                              *)
LEMMA Peers ==
  \A e \in End : Peer(e) \in End /\ Peer(e) # e /\ Peer(Peer(e)) = e
BY DEF End, Peer

(* Only a name of the set is taken.                                        *)
LEMMA LeastIn == \A names : Least(names) \subseteq names
BY DEF Least

(* What a transaction opens with.                                          *)
LEMMA OpenOK ==
  ASSUME IInv, NEW e \in End, NEW v \in Version, tx[e] = NoTx,
         inst[e].version < v, OpenTransaction(e, v), UNCHANGED <<inst, stage>>
  PROVE  InstallsOK' /\ \A f \in End : Secured(f)' = Secured(f)
<1>1. tx' = [tx EXCEPT ![e] = [phase |-> "committed", from |-> inst[e].version, to |-> v]]
  BY DEF OpenTransaction
<1>2. inst[e].version \in Version /\ \A f \in End : tx[f] \in [phase : {"none", "committed", "switched"}, from : Numbers, to : Numbers]
  BY DEF IInv, TypeOK
<1>3. InstallsOK'
  BY <1>1, <1>2, Zenon DEF IInv, InstallsOK, TypeOK
<1>4. \A f \in End : Secured(f)' = Secured(f)
  BY <1>1, <1>2 DEF IInv, TypeOK, Secured, NoTx
<1> QED BY <1>3, <1>4

(* The stage of an end is replaced by one that is later than what it has.  *)
LEMMA StageOK ==
  ASSUME IInv, NEW e \in End, NEW op, NEW v, inst[e].version < v,
         stage' = [stage EXCEPT ![e] = [op |-> op, version |-> v, base |-> inst[e].version]],
         UNCHANGED <<inst, tx>>
  PROVE  InstallsOK'
BY DEF IInv, TypeOK, InstallsOK

(* The coordinator opens no transaction but that of its own stage.         *)
LEMMA CommitOpens ==
  ASSUME IInv, NEW e \in End, NEW op, NEW v, NEW gen, CanCommit(e, op, v, gen)
  PROVE  v \in Version /\ tx[e] = NoTx /\ inst[e].version < v
<1>1. stage[e].version \in Numbers
  BY DEF IInv, TypeOK
<1> QED BY <1>1 DEF IInv, InstallsOK, CanCommit, Applicable, Numbers, Version

(* An update around the pair opens a transaction for a later release.      *)
LEMMA LocalOpens ==
  ASSUME IInv, NEW e \in End, UpdateLocal(e)
  PROVE  InstallsOK' /\ \A f \in End : Secured(f)' = Secured(f)
<1>1. PICK v \in {latest, progress[Peer(e)].version} :
        Stageable(e, v) /\ OpenTransaction(e, v)
  BY DEF UpdateLocal
<1>2. v \in Version
  <2>1. v \in Int /\ latest \in Version /\ inst[e].version \in Version
    BY Peers DEF IInv, TypeOK, Numbers, Version
  <2> QED BY <1>1, <2>1, EndsAssumption DEF Stageable, Version
<1> QED BY <1>1, <1>2, OpenOK DEF UpdateLocal, Stageable, files

(* A native transaction goes on.                                           *)
LEMMA SwitchOK ==
  ASSUME IInv, NEW e \in End, Switch(e)
  PROVE  InstallsOK' /\ \A f \in End : Secured(f)' = Secured(f)
<1>1. \A f \in End : inst[f] \in [version : Version, status : {"none", "applied", "rolled_back"}]
                     /\ tx[f] \in [phase : {"none", "committed", "switched"}, from : Numbers, to : Numbers]
  BY DEF IInv, TypeOK
<1>2. /\ tx' = [tx EXCEPT ![e].phase = "switched"]
      /\ inst' = [inst EXCEPT ![e] = [version |-> tx[e].to, status |-> "none"]]
      /\ tx[e].phase = "committed" /\ stage' = stage
  BY DEF Switch, files
<1>3. InstallsOK'
  BY <1>1, <1>2 DEF IInv, TypeOK, InstallsOK
<1>4. \A f \in End : Secured(f)' = Secured(f)
  BY <1>1, <1>2 DEF IInv, TypeOK, InstallsOK, Secured
<1> QED BY <1>3, <1>4

LEMMA CompleteOK ==
  ASSUME IInv, NEW e \in End, Complete(e)
  PROVE  InstallsOK' /\ \A f \in End : Secured(f)' >= Secured(f)
<1>1. \A f \in End : inst[f] \in [version : Version, status : {"none", "applied", "rolled_back"}]
                     /\ tx[f] \in [phase : {"none", "committed", "switched"}, from : Numbers, to : Numbers]
  BY DEF IInv, TypeOK
<1>2. /\ tx' = [tx EXCEPT ![e] = NoTx] /\ tx[e].phase = "switched"
      /\ inst' = inst \/ inst' = [inst EXCEPT ![e].status = "applied"]
      /\ stage' = stage
  BY DEF Complete, files
<1>3. InstallsOK'
  BY <1>1, <1>2 DEF IInv, TypeOK, InstallsOK, NoTx
<1>4. ASSUME NEW f \in End
      PROVE  Secured(f)' >= Secured(f)
  <2>1. inst[f].version \in Nat /\ tx[f].from \in Nat
    BY <1>1 DEF Version, Numbers
  <2>2. CASE f # e
    BY <1>2, <2>1, <2>2 DEF IInv, TypeOK, Secured
  <2>3. CASE f = e
    <3>1. inst'[e].version = inst[e].version /\ tx'[e].phase = "none"
      BY <1>1, <1>2 DEF IInv, TypeOK, NoTx
    <3>2. tx[e].from <= inst[e].version
      BY <1>2, <2>1, <2>3, <1>1 DEF IInv, InstallsOK, Numbers
    <3> QED BY <1>2, <2>1, <2>3, <3>1, <3>2 DEF Secured
  <2> QED BY <2>2, <2>3
<1> QED BY <1>3, <1>4

LEMMA RollBackOK ==
  ASSUME IInv, NEW e \in End, RollBack(e)
  PROVE  InstallsOK' /\ \A f \in End : Secured(f)' = Secured(f)
<1>1. \A f \in End : inst[f] \in [version : Version, status : {"none", "applied", "rolled_back"}]
                     /\ tx[f] \in [phase : {"none", "committed", "switched"}, from : Numbers, to : Numbers]
  BY DEF IInv, TypeOK
<1>2. /\ tx' = [tx EXCEPT ![e] = NoTx] /\ tx[e].phase # "none"
      /\ inst' = [inst EXCEPT ![e] = [version |-> tx[e].from, status |-> "rolled_back"]]
      /\ stage' = stage
  BY DEF RollBack, files
<1>3. InstallsOK'
  BY <1>1, <1>2 DEF IInv, TypeOK, InstallsOK, NoTx
<1>4. \A f \in End : Secured(f)' = Secured(f)
  BY <1>1, <1>2 DEF IInv, TypeOK, InstallsOK, Secured, NoTx
<1> QED BY <1>3, <1>4

(* Every other step leaves both installations alone.                       *)
LEMMA QuietOK ==
  ASSUME IInv, UNCHANGED <<inst, tx, stage>>
  PROVE  InstallsOK' /\ \A f \in End : Secured(f)' = Secured(f)
BY DEF IInv, InstallsOK, Secured

LEMMA RequestsOK ==
  ASSUME IInv, NEW c \in calls
  PROVE  /\ c \in Requests
         /\ c.to \in End /\ c.version \in Numbers /\ c.op \in OpsOrNone
BY DEF IInv, TypeOK, Requests

LEMMA PrepareLocalOK ==
  ASSUME IInv, NEW e \in End, PrepareLocal(e)
  PROVE  InstallsOK' /\ \A f \in End : Secured(f)' = Secured(f)
<1>1. CASE Current(e, co[e].version)
  BY <1>1, QuietOK DEF PrepareLocal
<1>2. CASE ~Current(e, co[e].version)
  <2>1. inst[e].version < co[e].version
    BY <1>2 DEF PrepareLocal, CanPrepare, Stageable
  <2>2. PICK op \in NewOps :
          stage' = [stage EXCEPT ![e] = [op |-> op, version |-> co[e].version,
                                         base |-> inst[e].version]]
    BY <1>2 DEF PrepareLocal
  <2> QED BY <2>1, <2>2, StageOK DEF PrepareLocal, Secured
<1> QED BY <1>1, <1>2

(* A handler stages the release if it serves the request, or nothing.      *)
LEMMA PrepareHandled ==
  ASSUME NEW c \in calls, HandlePrepare(c)
  PROVE  \/ /\ Stageable(c.to, c.version)
            /\ stage' = [stage EXCEPT ![c.to] = [op |-> c.op, version |-> c.version,
                                                 base |-> inst[c.to].version]]
         \/ stage' = stage
BY DEF HandlePrepare

LEMMA CommitHandled ==
  ASSUME NEW c \in calls, HandleCommit(c)
  PROVE  \/ CanCommit(c.to, c.op, c.version, c.gen) /\ OpenTransaction(c.to, c.version)
         \/ tx' = tx
BY DEF HandleCommit

LEMMA HandlePrepareOK ==
  ASSUME IInv, NEW c \in calls, HandlePrepare(c)
  PROVE  InstallsOK' /\ \A f \in End : Secured(f)' = Secured(f)
<1>1. UNCHANGED <<inst, tx>>
  BY DEF HandlePrepare
<1>2. CASE stage' = stage
  BY <1>1, <1>2, QuietOK
<1>3. CASE stage' # stage
  <2>1. /\ inst[c.to].version < c.version
        /\ stage' = [stage EXCEPT ![c.to] = [op |-> c.op, version |-> c.version,
                                             base |-> inst[c.to].version]]
    BY <1>3, PrepareHandled DEF Stageable
  <2> QED BY <1>1, <2>1, RequestsOK, StageOK DEF Secured
<1> QED BY <1>2, <1>3

LEMMA HandleCommitOK ==
  ASSUME IInv, NEW c \in calls, HandleCommit(c)
  PROVE  InstallsOK' /\ \A f \in End : Secured(f)' = Secured(f)
<1>1. CASE CanCommit(c.to, c.op, c.version, c.gen) /\ OpenTransaction(c.to, c.version)
  BY <1>1, RequestsOK, CommitOpens, OpenOK DEF HandleCommit, files
<1>2. CASE tx' = tx
  BY <1>2, QuietOK DEF HandleCommit, files
<1> QED BY <1>1, <1>2, CommitHandled

LEMMA CommitLocalOK ==
  ASSUME IInv, NEW e \in End, CommitLocal(e)
  PROVE  InstallsOK' /\ \A f \in End : Secured(f)' = Secured(f)
BY CommitOpens, OpenOK DEF CommitLocal, CanCommitLocal, files

(* The steps of a coordinator at a time.                                   *)
LEMMA CoordinateOK ==
  ASSUME IInv, NEW e \in End, Coordinate(e)
  PROVE  InstallsOK' /\ \A f \in End : Secured(f)' = Secured(f)
<1>1. CASE PrepareLocal(e)
  BY <1>1, PrepareLocalOK
<1>2. CASE CommitLocal(e)
  BY <1>2, CommitLocalOK
<1>3. CASE \/ Lock(e) \/ Confirm(e) \/ InspectPeer(e) \/ Choose(e) \/ FinishUpToDate(e)
           \/ PreparePeer(e) \/ SavePrepared(e) \/ SaveCommitting(e)
           \/ CommitPeer(e) \/ VerifyPeer(e) \/ FinishCurrent(e) \/ GiveUp(e)
  BY <1>3, QuietOK
     DEF Lock, Confirm, InspectPeer, Choose, FinishUpToDate, PreparePeer, SavePrepared,
         SaveCommitting, CommitPeer, VerifyPeer, FinishCurrent, GiveUp, files
<1> QED BY <1>1, <1>2, <1>3 DEF Coordinate

LEMMA HandshakeQuiet ==
  ASSUME NEW e \in End, Handshake(e)
  PROVE  UNCHANGED <<latest, inst, tx, stage, progress, co, calls>>
BY DEF Handshake, OfferHandler, PairStart, OfferCheck, OfferAccept, OfferLost,
       PairAnswered, PairAbort, updating

(* So no step takes away what an end has secured.                          *)
LEMMA SecuredGrows ==
  ASSUME IInv, [Next]_vars
  PROVE  InstallsOK' /\ \A f \in End : Secured(f)' >= Secured(f)
<1>0. \A f \in End : Secured(f) >= Secured(f)
  <2>1. \A f \in End : Secured(f) \in Int
    BY DEF IInv, TypeOK, Secured, Version, Numbers
  <2> QED BY <2>1
<1>1. CASE Release
  BY <1>0, <1>1, QuietOK DEF Release, files
<1>2. CASE \E c \in calls : HandlePrepare(c) \/ HandleCommit(c) \/ CallLost(c)
  BY <1>0, <1>2, HandlePrepareOK, HandleCommitOK, QuietOK DEF CallLost, files
<1>3. ASSUME NEW e \in End, NativeStep(e) \/ RollBack(e) \/ UpdateLocal(e)
      PROVE  InstallsOK' /\ \A f \in End : Secured(f)' >= Secured(f)
  BY <1>0, <1>3, SwitchOK, CompleteOK, RollBackOK, LocalOpens DEF NativeStep
<1>4. ASSUME NEW e \in End, Handshake(e)
      PROVE  InstallsOK' /\ \A f \in End : Secured(f)' >= Secured(f)
  BY <1>0, <1>4, HandshakeQuiet, QuietOK
<1>5. ASSUME NEW e \in End, (\E r \in BOOLEAN : Start(e, r)) \/ Abort(e)
      PROVE  InstallsOK' /\ \A f \in End : Secured(f)' >= Secured(f)
  BY <1>0, <1>5, QuietOK DEF Start, Abort, files
<1>6. ASSUME NEW e \in End, Coordinate(e)
      PROVE  InstallsOK' /\ \A f \in End : Secured(f)' >= Secured(f)
  BY <1>0, <1>6, CoordinateOK
<1>7. CASE UNCHANGED vars
  BY <1>0, <1>7, QuietOK DEF vars, files
<1> QED BY <1>1, <1>2, <1>3, <1>4, <1>5, <1>6, <1>7 DEF Next, Handle

-----------------------------------------------------------------------------
(* The pairing, which only the handshake touches.                          *)

(* What a command records and offers keeps a name that the peer may have   *)
(* recorded: it is new only where the peer has no active pair.             *)
LEMMA PairStartOK ==
  ASSUME IInv, NEW e \in End, PairStart(e)
  PROVE  PairOK' /\ ActivePairAgrees'
<1>1. PICK id \in PairIds(e) :
        /\ config' = [config EXCEPT ![e] = [id |-> id, state |-> "pending"]]
        /\ offers' = [offers EXCEPT ![Peer(e)] = [id |-> id, step |-> "sent"]]
  BY DEF PairStart
<1>2. id \in Ids /\ (config[e] # NoConfig => id = config[e].id)
  BY LeastIn DEF IInv, PairOK, PairIds
<1>3. pair' = [pair EXCEPT ![e] = "offering"] /\ pair[e] = "idle"
  BY DEF PairStart, Locked
<1>4. PairOK'
  BY <1>1, <1>2, <1>3, NamesAssumption DEF IInv, TypeOK, PairOK, End, Peer, NoOffer, NoConfig, NoOp
<1>5. ActivePairAgrees'
  BY <1>1, <1>2, NamesAssumption
     DEF IInv, TypeOK, PairOK, ActivePairAgrees, End, Peer, NoConfig, NoOp
<1> QED BY <1>4, <1>5

(* A handler records the pair that the offering end shows at the probe.    *)
LEMMA OfferAcceptOK ==
  ASSUME IInv, NEW e \in End, OfferAccept(e)
  PROVE  PairOK' /\ ActivePairAgrees'
<1>1. CASE ~Locked(e) /\ Probe(Peer(e), offers[e].id)
  <2>1. /\ config' = [config EXCEPT ![e] = [id |-> offers[e].id, state |-> "active"]]
        /\ offers' = [offers EXCEPT ![e].step = "accepted"]
        /\ pair' = pair /\ pair[e] = "idle"
        /\ config[Peer(e)].id = offers[e].id /\ offers[e].step = "checked"
    BY <1>1 DEF OfferAccept, Locked, Probe
  <2>2. PairOK'
    BY <2>1, NamesAssumption DEF IInv, TypeOK, PairOK, End, Peer, NoOffer, NoConfig, NoOp
  <2>3. ActivePairAgrees'
    BY <2>1 DEF IInv, TypeOK, ActivePairAgrees, End, Peer
  <2> QED BY <2>2, <2>3
<1>2. CASE ~(~Locked(e) /\ Probe(Peer(e), offers[e].id))
  BY <1>2 DEF OfferAccept, IInv, TypeOK, PairOK, ActivePairAgrees, End, Peer, NoOffer
<1> QED BY <1>1, <1>2

(* A command records the pair that the handler accepted.                   *)
LEMMA PairAnsweredOK ==
  ASSUME IInv, NEW e \in End, PairAnswered(e)
  PROVE  PairOK' /\ ActivePairAgrees'
<1>1. /\ pair' = [pair EXCEPT ![e] = "idle"] /\ pair[e] = "offering"
      /\ offers' = [offers EXCEPT ![Peer(e)] = NoOffer]
  BY DEF PairAnswered
<1>2. CASE offers[Peer(e)].step = "accepted"
  <2>1. config' = [config EXCEPT ![e] = [id |-> offers[Peer(e)].id, state |-> "active"]]
    BY <1>2 DEF PairAnswered
  <2>2. PairOK'
    BY <1>1, <1>2, <2>1 DEF IInv, TypeOK, PairOK, End, Peer, NoOffer
  <2>3. ActivePairAgrees'
    BY <1>1, <1>2, <2>1 DEF IInv, TypeOK, PairOK, ActivePairAgrees, End, Peer
  <2> QED BY <2>2, <2>3
<1>3. CASE offers[Peer(e)].step # "accepted"
  BY <1>1, <1>3 DEF PairAnswered, IInv, TypeOK, PairOK, ActivePairAgrees, End, Peer, NoOffer
<1> QED BY <1>2, <1>3

(* Both hold after every step.                                             *)
LEMMA PairingOK ==
  ASSUME IInv, [Next]_vars
  PROVE  PairOK' /\ ActivePairAgrees'
<1>1. CASE UNCHANGED <<config, pair, offers>>
  BY <1>1 DEF IInv, PairOK, ActivePairAgrees
<1>2. ASSUME NEW e \in End, Handshake(e) PROVE PairOK' /\ ActivePairAgrees'
  <2>1. CASE OfferCheck(e)
    BY <2>1 DEF OfferCheck, IInv, TypeOK, PairOK, ActivePairAgrees, End, Peer, NoOffer
  <2>2. CASE PairAbort(e)
    BY <2>2 DEF PairAbort, IInv, TypeOK, PairOK, ActivePairAgrees, End, Peer
  <2>3. CASE OfferLost(e)
    BY <2>3 DEF OfferLost, IInv, TypeOK, PairOK, ActivePairAgrees, End, Peer, NoOffer
  <2> QED BY <1>2, <2>1, <2>2, <2>3, PairStartOK, OfferAcceptOK, PairAnsweredOK
          DEF Handshake, OfferHandler
<1>3. ASSUME NEW e \in End,
             \/ NativeStep(e) \/ RollBack(e) \/ UpdateLocal(e)
             \/ (\E r \in BOOLEAN : Start(e, r)) \/ Abort(e)
      PROVE  UNCHANGED <<config, pair, offers>>
  BY <1>3 DEF NativeStep, Switch, Complete, RollBack, UpdateLocal, Start, Abort, files
<1>4. ASSUME NEW e \in End, Coordinate(e) PROVE UNCHANGED <<config, pair, offers>>
  BY <1>4 DEF Coordinate, Lock, Confirm, InspectPeer, Choose, FinishUpToDate, PrepareLocal,
              PreparePeer, SavePrepared, SaveCommitting, CommitPeer, VerifyPeer,
              CommitLocal, FinishCurrent, GiveUp, files
<1>5. CASE Release \/ Handle \/ (\E c \in calls : CallLost(c)) \/ UNCHANGED vars
  BY <1>1, <1>5 DEF Release, Handle, HandlePrepare, HandleCommit, CallLost, vars, files
<1> QED BY <1>1, <1>2, <1>3, <1>4, <1>5 DEF Next

-----------------------------------------------------------------------------
(* The coordinators and what they record.                                  *)
Records ==
  [phase : {"none", "prepared", "peer_committing", "peer_applied", "complete"},
   version : Numbers, peer : Numbers]

(* What may be recorded.                                                   *)
Truthful(e, p) ==
  /\ p \in Records /\ Secured(Peer(e)) >= p.peer
  /\ p.phase \in {"peer_applied", "complete"} => Secured(Peer(e)) >= p.version
  /\ p.phase = "complete" => Secured(e) >= p.version

(* The versions that are compared.                                         *)
LEMMA Compared ==
  ASSUME IInv
  PROVE  \A e \in End :
           /\ Secured(e) \in Numbers /\ inst[e] \in [version : Version, status : {"none", "applied", "rolled_back"}]
           /\ tx[e].phase \in {"none", "committed", "switched"}
           /\ progress[e] \in Records /\ co[e] \in Coordinators
           /\ Version \subseteq Numbers /\ Numbers \subseteq Int
BY DEF IInv, TypeOK, Secured, Records, Version, Numbers

(* An end that can start its CLI has secured what it runs.                 *)
LEMMA Runs ==
  ASSUME NEW e \in End, Launchable(e)
  PROVE  Secured(e) = inst[e].version
BY DEF Launchable, Secured

(* So has a peer that was verified through a manager that was seen there.  *)
LEMMA Verified ==
  ASSUME IInv, NEW e \in End, NEW v \in Numbers, NEW probed \in Numbers,
         VerifyOK(e, v, probed), Secured(e) >= probed
  PROVE  Secured(e) >= v
<1>1. inst[e].version = v /\ v \in Int
  BY Compared DEF VerifyOK
<1>2. CASE v = probed
  BY <1>2
<1>3. CASE v # probed
  <2>1. tx[e].phase # "switched"
    BY <1>3 DEF VerifyOK, IInv, InstallsOK
  <2> QED BY <1>1, <2>1, Compared DEF Secured
<1> QED BY <1>2, <1>3

(* The step of one coordinator.                                            *)
LEMMA CoordinatorStep ==
  ASSUME IInv, \A f \in End : Secured(f)' >= Secured(f) /\ Secured(f)' \in Int,
         NEW e \in End, NEW r, Sound(e, r), co' = [co EXCEPT ![e] = r],
         NEW p, Truthful(e, p), progress' = [progress EXCEPT ![e] = p]
  PROVE  CoordinatorsOK' /\ ProgressTrue'
         /\ co' \in [End -> Coordinators] /\ progress' \in [End -> Records]
<1>1. \A f \in End : co'[f] = IF f = e THEN r ELSE co[f]
  BY DEF IInv, TypeOK
<1>2. \A f \in End : progress'[f] = IF f = e THEN p ELSE progress[f]
  BY DEF IInv, TypeOK
<1>3. /\ co' \in [End -> Coordinators] /\ progress' \in [End -> Records]
  BY <1>1, <1>2 DEF IInv, TypeOK, Records, Sound, Truthful
<1>4. CoordinatorsOK'
  <2> SUFFICES ASSUME NEW f \in End
               PROVE  Sound(f, co[f])' /\ Secured(Peer(f))' >= progress'[f].peer
    BY DEF CoordinatorsOK
  <2>1. Sound(f, co'[f]) /\ Secured(Peer(f)) >= progress'[f].peer
    BY <1>1, <1>2 DEF IInv, CoordinatorsOK, Truthful
  <2>2. co'[f] \in Coordinators /\ progress'[f] \in Records
    BY <1>3
  <2> QED BY <2>1, <2>2, Peers, Compared DEF Sound, Coordinators, Records
<1>5. ProgressTrue'
  <2> SUFFICES ASSUME NEW f \in End
               PROVE  /\ progress'[f].phase \in {"peer_applied", "complete"}
                           => Secured(Peer(f))' >= progress'[f].version
                      /\ progress'[f].phase = "complete" => Secured(f)' >= progress'[f].version
    BY DEF ProgressTrue
  <2>1. /\ progress'[f].phase \in {"peer_applied", "complete"}
             => Secured(Peer(f)) >= progress'[f].version
        /\ progress'[f].phase = "complete" => Secured(f) >= progress'[f].version
    BY <1>2 DEF IInv, ProgressTrue, Truthful
  <2>2. progress'[f] \in Records
    BY <1>3
  <2> QED BY <2>1, <2>2, Peers, Compared DEF Records
<1> QED BY <1>3, <1>4, <1>5

(* ... which every operation of a coordinator is.                          *)
Moves(e) ==
  \E r, p : /\ Sound(e, r) /\ co' = [co EXCEPT ![e] = r]
            /\ Truthful(e, p) /\ progress' = [progress EXCEPT ![e] = p]

LEMMA StepMoves ==
  ASSUME IInv, NEW e \in End, NEW r, Sound(e, r), Step(e, r), progress' = progress
  PROVE  Moves(e)
<1>1. Truthful(e, progress[e])
  BY Compared DEF IInv, CoordinatorsOK, ProgressTrue, Truthful
<1>2. progress' = [progress EXCEPT ![e] = progress[e]]
  BY DEF IInv, TypeOK
<1> QED BY <1>1, <1>2 DEF Moves, Step

LEMMA SaveMoves ==
  ASSUME IInv, NEW e \in End, NEW r, Sound(e, r), Step(e, r),
         NEW phase \in {"prepared", "peer_committing", "peer_applied", "complete"},
         NEW v \in Numbers, NEW probed \in Numbers, Save(e, phase, v, probed),
         Secured(Peer(e)) >= probed,
         phase \in {"peer_applied", "complete"} => Secured(Peer(e)) >= v,
         phase = "complete" => Secured(e) >= v
  PROVE  Moves(e)
<1>1. Truthful(e, [phase |-> phase, version |-> v, peer |-> probed])
  BY DEF Truthful, Records
<1> QED BY <1>1 DEF Moves, Step, Save

LEMMA IdleSound == ASSUME IInv, NEW e \in End PROVE Sound(e, Idle)
<1>1. Idle \in Coordinators
  BY NamesAssumption, EndsAssumption DEF Idle, Coordinators, Numbers, OpsOrNone
<1>2. Secured(e) >= 0 /\ Secured(Peer(e)) >= 0
  BY Compared, Peers DEF Numbers
<1> QED BY <1>1, <1>2 DEF Sound, Idle, PastLocal

LEMMA SoundNow ==
  ASSUME IInv, NEW e \in End
  PROVE  Sound(e, co[e]) /\ Truthful(e, progress[e])
BY Compared DEF IInv, CoordinatorsOK, ProgressTrue, Truthful

LEMMA StartMoves ==
  ASSUME IInv, NEW e \in End, NEW reconcile \in BOOLEAN, Start(e, reconcile)
  PROVE  Moves(e)
<1> DEFINE r == [Idle EXCEPT !.pc = "locking", !.reconcile = reconcile,
                             !.gen = inst[e].version]
<1>1. Step(e, r) /\ progress' = progress /\ Secured(e) = inst[e].version
  BY Runs DEF Start, files
<1>2. Sound(e, Idle) /\ inst[e].version \in Numbers /\ inst[e].version \in Int
  BY IdleSound, Compared
<1>3. r \in Coordinators
  BY <1>2 DEF Sound, Coordinators
<1>4. Sound(e, r)
  BY <1>1, <1>2, <1>3 DEF Sound, Idle, PastLocal
<1> QED BY <1>1, <1>4, StepMoves

(* What an earlier run left behind is as true as when it was recorded.     *)
LEMMA LockMoves ==
  ASSUME IInv, NEW e \in End, Lock(e)
  PROVE  Moves(e)
<1> DEFINE confirmed == Confirms(e, co[e].reconcile)
           r == [co[e] EXCEPT !.pc = IF confirmed THEN "confirm" ELSE "inspect",
                              !.version = IF Unfinished(e) THEN progress[e].version ELSE 0,
                              !.probe = IF confirmed THEN progress[e].peer ELSE 0,
                              !.confirmed = confirmed]
<1>1. Step(e, r) /\ progress' = progress
  BY DEF Lock, files
<1>2. confirmed \in BOOLEAN /\ 0 \in Numbers /\ progress[e] \in Records
  BY Compared, EndsAssumption DEF Confirms, Numbers
<1>3. r \in Coordinators
  <2>1. (IF Unfinished(e) THEN progress[e].version ELSE 0) \in Numbers
        /\ (IF confirmed THEN progress[e].peer ELSE 0) \in Numbers
    BY <1>2 DEF Records
  <2>2. co[e] \in Coordinators
    BY SoundNow DEF Sound
  <2> HIDE DEF confirmed
  <2> QED BY <1>2, <2>1, <2>2 DEF Coordinators
<1>4. r.probe = (IF confirmed THEN progress[e].peer ELSE 0) /\ r.gen = co[e].gen
      /\ r.pc \in {"confirm", "inspect"}
  <2>1. co[e] \in Coordinators
    BY SoundNow DEF Sound
  <2> HIDE DEF confirmed
  <2> QED BY <2>1 DEF Coordinators
<1>5. Secured(Peer(e)) >= r.probe
  BY <1>4, SoundNow, Peers, Compared DEF Truthful, Numbers
<1>6. Sound(e, r)
  BY <1>3, <1>4, <1>5, SoundNow DEF Sound, PastLocal
<1> QED BY <1>1, <1>6, StepMoves

LEMMA InspectMoves ==
  ASSUME IInv, NEW e \in End, InspectPeer(e) \/ Confirm(e)
  PROVE  Moves(e)
<1>1. CASE InspectPeer(e)
  <2> DEFINE r == [co[e] EXCEPT !.pc = "choose", !.peer = inst[Peer(e)].version,
                                !.probe = inst[Peer(e)].version]
  <2>1. Step(e, r) /\ progress' = progress /\ Secured(Peer(e)) = inst[Peer(e)].version
    BY <1>1, Peers, Runs DEF InspectPeer, CanInspect, files
  <2>2. inst[Peer(e)].version \in Numbers /\ inst[Peer(e)].version \in Int
    BY Peers, Compared
  <2>3. /\ r \in Coordinators /\ r.probe = inst[Peer(e)].version
        /\ r.gen = co[e].gen /\ r.pc = "choose"
    BY <2>2, SoundNow DEF Sound, Coordinators
  <2>4. Secured(Peer(e)) >= r.probe
    BY <2>1, <2>2, <2>3
  <2>5. Sound(e, r)
    BY <2>3, <2>4, SoundNow DEF Sound, PastLocal
  <2> QED BY <2>1, <2>5, StepMoves
<1>2. CASE Confirm(e)
  <2>1. Sound(e, [co[e] EXCEPT !.pc = "choose", !.peer = co[e].version])
    BY SoundNow DEF Sound, Coordinators, PastLocal
  <2> QED BY <1>2, <2>1, StepMoves DEF Confirm, files
<1> QED BY <1>1, <1>2

LEMMA ChooseMoves ==
  ASSUME IInv, NEW e \in End, Choose(e) \/ FinishUpToDate(e)
  PROVE  Moves(e)
<1>1. Target(e) \in Numbers
  BY Compared DEF IInv, TypeOK, Target, Coordinators
<1>2. CASE Choose(e)
  <2>1. Sound(e, [co[e] EXCEPT !.pc = "prepareLocal", !.version = Target(e), !.reconcile = FALSE])
    BY <1>1, SoundNow DEF Sound, Coordinators, PastLocal
  <2> QED BY <1>2, <2>1, StepMoves DEF Choose, files
<1>3. CASE FinishUpToDate(e)
  <2>1. /\ Sound(e, co[e]) /\ co[e].gen = Target(e) /\ co[e].probe \in Numbers
        /\ Secured(Peer(e)) >= co[e].probe /\ Secured(e) >= Target(e)
    BY <1>3, SoundNow, Compared DEF Sound, FinishUpToDate, UpToDate, Coordinators
  <2>2. Secured(Peer(e)) >= Target(e)
    BY <1>1, <1>3, <2>1, Verified, Peers DEF FinishUpToDate, CanFinish
  <2> QED BY <1>1, <1>3, <2>1, <2>2, IdleSound, SaveMoves DEF FinishUpToDate
<1> QED BY <1>2, <1>3

LEMMA NewOpsIn == NewOps \subseteq Ops
BY LeastIn DEF NewOps

LEMMA PrepareMoves ==
  ASSUME IInv, NEW e \in End, PrepareLocal(e) \/ PreparePeer(e)
  PROVE  Moves(e)
<1> DEFINE next == IF co[e].confirmed THEN "prepared" ELSE "preparePeer"
<1>1. CASE PrepareLocal(e) /\ Current(e, co[e].version)
  <2>1. Step(e, [co[e] EXCEPT !.pc = next]) /\ progress' = progress
    BY <1>1 DEF PrepareLocal
  <2>2. co[e].gen = co[e].version
    BY <1>1 DEF PrepareLocal, CanPrepare
  <2>3. Sound(e, [co[e] EXCEPT !.pc = next])
    BY <2>2, SoundNow DEF Sound, Coordinators, PastLocal
  <2> QED BY <2>1, <2>3, StepMoves
<1>2. CASE PrepareLocal(e) /\ ~Current(e, co[e].version)
  <2>1. PICK op \in NewOps : Step(e, [co[e] EXCEPT !.pc = next, !.localOp = op])
    BY <1>2 DEF PrepareLocal
  <2>2. op \in Ops /\ op # NoOp /\ op \in OpsOrNone
    BY NewOpsIn, NamesAssumption DEF NoOp, OpsOrNone
  <2>3. Sound(e, [co[e] EXCEPT !.pc = next, !.localOp = op])
    BY <2>2, SoundNow DEF Sound, Coordinators, PastLocal
  <2> QED BY <1>2, <2>1, <2>3, StepMoves DEF PrepareLocal
<1>3. CASE PreparePeer(e)
  <2>1. PICK op \in NewOps : Step(e, [co[e] EXCEPT !.pc = "preparing", !.peerOp = op])
    BY <1>3 DEF PreparePeer
  <2>2. op \in OpsOrNone
    BY NewOpsIn DEF OpsOrNone
  <2>3. Sound(e, [co[e] EXCEPT !.pc = "preparing", !.peerOp = op])
    BY <1>3, <2>2, SoundNow DEF PreparePeer, Sound, Coordinators, PastLocal
  <2> QED BY <1>3, <2>1, <2>3, StepMoves DEF PreparePeer, files
<1> QED BY <1>1, <1>2, <1>3

LEMMA SavingMoves ==
  ASSUME IInv, NEW e \in End, SavePrepared(e) \/ SaveCommitting(e) \/ CommitPeer(e)
  PROVE  Moves(e)
<1>1. co[e].version \in Numbers /\ co[e].probe \in Numbers /\ Secured(Peer(e)) >= co[e].probe
  BY SoundNow DEF Sound, Coordinators
<1>2. CASE SavePrepared(e)
  <2> DEFINE next == IF co[e].confirmed \/ co[e].peerOp = NoOp THEN "verify" ELSE "committing"
  <2>1. /\ Step(e, [co[e] EXCEPT !.pc = next])
        /\ Save(e, "prepared", co[e].version, co[e].probe) /\ co[e].pc = "prepared"
    BY <1>2 DEF SavePrepared
  <2>2. Sound(e, [co[e] EXCEPT !.pc = next])
    BY <2>1, SoundNow DEF Sound, Coordinators, PastLocal
  <2> QED BY <1>1, <2>1, <2>2, SaveMoves
<1>3. CASE SaveCommitting(e)
  <2>1. Sound(e, [co[e] EXCEPT !.pc = "commitPeer"])
    BY <1>3, SoundNow DEF SaveCommitting, Sound, Coordinators, PastLocal
  <2> QED BY <1>1, <1>3, <2>1, SaveMoves DEF SaveCommitting
<1>4. CASE CommitPeer(e)
  <2>1. Sound(e, [co[e] EXCEPT !.pc = "verify"])
    BY <1>4, SoundNow DEF CommitPeer, Sound, Coordinators, PastLocal
  <2> QED BY <1>4, <2>1, StepMoves DEF CommitPeer, files
<1> QED BY <1>2, <1>3, <1>4

(* The peer is verified through the manager that was probed.               *)
LEMMA VerifyMoves ==
  ASSUME IInv, NEW e \in End, VerifyPeer(e)
  PROVE  Moves(e)
<1>1. co[e].version \in Numbers /\ co[e].probe \in Numbers /\ Secured(Peer(e)) >= co[e].probe
  BY SoundNow DEF Sound, Coordinators
<1>2. Secured(Peer(e)) >= co[e].version
  BY <1>1, Verified, Peers DEF VerifyPeer, CanConfirm
<1>3. Sound(e, [co[e] EXCEPT !.pc = "local"])
  BY <1>2, SoundNow DEF VerifyPeer, Sound, Coordinators, PastLocal
<1> QED BY <1>1, <1>2, <1>3, SaveMoves DEF VerifyPeer

(* A coordinator whose own end was current saw that end at the release.    *)
LEMMA EndMoves ==
  ASSUME IInv, NEW e \in End, FinishCurrent(e) \/ CommitLocal(e) \/ GiveUp(e) \/ Abort(e)
  PROVE  Moves(e)
<1>1. CASE FinishCurrent(e)
  <2>1. /\ co[e].version \in Numbers /\ co[e].probe \in Numbers
        /\ Secured(Peer(e)) >= co[e].probe /\ Secured(Peer(e)) >= co[e].version
        /\ co[e].version = co[e].gen /\ Secured(e) >= co[e].version
    BY <1>1, SoundNow DEF FinishCurrent, CanFinishCurrent, Sound, Coordinators, PastLocal
  <2> QED BY <1>1, <2>1, IdleSound, SaveMoves DEF FinishCurrent
<1>2. CASE CommitLocal(e) \/ GiveUp(e) \/ Abort(e)
  BY <1>2, IdleSound, StepMoves DEF CommitLocal, GiveUp, Abort, files
<1> QED BY <1>1, <1>2

(* A reply moves the coordinator that waits for it, and no other.          *)
LEMMA ReplyMoves ==
  ASSUME IInv, NEW c \in calls, HandlePrepare(c)
  PROVE  Moves(Peer(c.to))
<1> DEFINE e == Peer(c.to)
<1>1. e \in End /\ progress' = progress /\ c \in Requests
  BY Peers, RequestsOK DEF HandlePrepare
<1>2. PICK accepted \in BOOLEAN : Reply(c, accepted)
  BY DEF HandlePrepare
<1>3. CASE co[e].pc # "preparing" \/ co[e].peerOp # c.op
  <2>1. Step(e, co[e])
    BY <1>1, <1>2, <1>3 DEF Reply, Step, IInv, TypeOK
  <2> QED BY <1>1, <2>1, SoundNow, StepMoves
<1>4. CASE co[e].pc = "preparing" /\ co[e].peerOp = c.op /\ ~accepted
  BY <1>1, <1>2, <1>4, IdleSound, StepMoves DEF Reply
<1>5. CASE co[e].pc = "preparing" /\ co[e].peerOp = c.op /\ accepted
  <2> DEFINE op == IF Current(c.to, c.version) THEN NoOp ELSE c.op
  <2>1. Step(e, [co[e] EXCEPT !.pc = "prepared", !.peer = 0, !.peerOp = op])
    BY <1>2, <1>5 DEF Reply
  <2>2. op \in OpsOrNone /\ 0 \in Numbers
    BY RequestsOK, EndsAssumption DEF OpsOrNone, Numbers
  <2>3. Sound(e, [co[e] EXCEPT !.pc = "prepared", !.peer = 0, !.peerOp = op])
    BY <1>1, <1>5, <2>2, SoundNow DEF Sound, Coordinators, PastLocal
  <2> QED BY <1>1, <2>1, <2>3, StepMoves
<1> QED BY <1>3, <1>4, <1>5

(* Every step is one of these, or leaves the coordinators and the records. *)
LEMMA SomeMoves == ASSUME IInv, [Next]_vars PROVE \E e \in End : Moves(e)
<1>1. CASE UNCHANGED <<co, progress>>
  <2>1. Step(Home, co[Home]) /\ Home \in End
    BY <1>1, EndsAssumption DEF Step, IInv, TypeOK
  <2> QED BY <1>1, <2>1, SoundNow, StepMoves
<1>2. ASSUME NEW e \in End, Coordinate(e) \/ Abort(e) \/ \E r \in BOOLEAN : Start(e, r)
      PROVE  Moves(e)
  BY <1>2, StartMoves, LockMoves, InspectMoves, ChooseMoves, PrepareMoves, SavingMoves, VerifyMoves,
     EndMoves DEF Coordinate
<1>3. ASSUME NEW c \in calls, HandlePrepare(c) \/ HandleCommit(c) \/ CallLost(c)
      PROVE  \E e \in End : Moves(e)
  <2>1. CASE HandlePrepare(c)
    BY <2>1, ReplyMoves, RequestsOK, Peers
  <2>2. CASE HandleCommit(c) \/ CallLost(c)
    BY <1>1, <2>2 DEF HandleCommit, CallLost, files
  <2> QED BY <1>3, <2>1, <2>2
<1>4. ASSUME NEW e \in End, NativeStep(e) \/ RollBack(e) \/ UpdateLocal(e) \/ Handshake(e)
      PROVE  UNCHANGED <<co, progress>>
  BY <1>4, HandshakeQuiet DEF NativeStep, Switch, Complete, RollBack, UpdateLocal, files
<1>5. CASE Release \/ UNCHANGED vars
  BY <1>1, <1>5 DEF Release, vars, files
<1> QED BY <1>1, <1>2, <1>3, <1>4, <1>5 DEF Next, Handle

-----------------------------------------------------------------------------
(* The types of the other variables.                                       *)
Installs == [version : Version, status : {"none", "applied", "rolled_back"}]
Transactions == [phase : {"none", "committed", "switched"}, from : Numbers, to : Numbers]
Stages == [op : OpsOrNone, version : Numbers, base : Numbers]
Configs == [id : IdsOrNone, state : {"none", "pending", "active"}]
OffersUnderWay == [id : IdsOrNone, step : {"none", "sent", "checked", "accepted", "rejected"}]

InstallTypes == inst \in [End -> Installs] /\ tx \in [End -> Transactions] /\ stage \in [End -> Stages]
PairTypes ==
  /\ config \in [End -> Configs] /\ offers \in [End -> OffersUnderWay]
  /\ pair \in [End -> {"idle", "offering"}]
OtherTypes == latest \in Version /\ calls \subseteq Requests /\ faults \in 0 .. MaxFaults
LockOK == \A e \in End : pair[e] = "idle" \/ co[e].pc \in {"idle", "locking"}

LEMMA TypeParts ==
  TypeOK <=> /\ InstallTypes /\ PairTypes /\ OtherTypes /\ LockOK
             /\ co \in [End -> Coordinators] /\ progress \in [End -> Records]
BY DEF TypeOK, InstallTypes, PairTypes, OtherTypes, LockOK, Installs, Transactions, Stages,
       Configs, OffersUnderWay, Records

LEMMA FaultOK == ASSUME IInv, Fault PROVE faults' \in 0 .. MaxFaults
BY EndsAssumption DEF IInv, TypeOK, Fault

LEMMA NumbersIn == Version \subseteq Numbers /\ 0 \in Numbers /\ NoOp \in OpsOrNone /\ NoOp \in IdsOrNone
BY EndsAssumption DEF Version, Numbers, OpsOrNone, IdsOrNone

LEMMA OpenTypes ==
  ASSUME IInv, NEW e \in End, NEW v \in Version, OpenTransaction(e, v), UNCHANGED <<inst, stage>>
  PROVE  InstallTypes'
BY NumbersIn, TypeParts DEF IInv, InstallTypes, OpenTransaction, Installs, Transactions

LEMMA NativeTypes ==
  ASSUME IInv, NEW e \in End, NativeStep(e) \/ RollBack(e) \/ UpdateLocal(e)
  PROVE  InstallTypes'
<1>1. CASE Switch(e)
  <2>1. tx[e].to \in Version
    BY <1>1, Compared, TypeParts
       DEF Switch, IInv, InstallsOK, InstallTypes, Transactions, Numbers, Version
  <2> QED BY <1>1, <2>1, TypeParts DEF Switch, IInv, InstallTypes, Installs, Transactions, files
<1>2. CASE Complete(e)
  <2>1. /\ tx' = [tx EXCEPT ![e] = NoTx] /\ stage' = stage
        /\ inst' = inst \/ inst' = [inst EXCEPT ![e].status = "applied"]
    BY <1>2 DEF Complete, files
  <2>2. NoTx \in Transactions
    BY NumbersIn DEF NoTx, Transactions
  <2>3. inst \in [End -> Installs] /\ tx \in [End -> Transactions] /\ stage \in [End -> Stages]
    BY TypeParts DEF IInv, InstallTypes
  <2>4. inst' \in [End -> Installs]
    BY <2>1, <2>3 DEF Installs
  <2> QED BY <2>1, <2>2, <2>3, <2>4 DEF InstallTypes
<1>3. CASE RollBack(e)
  <2>1. tx[e].from \in Version
    BY <1>3 DEF RollBack, IInv, InstallsOK
  <2> QED BY <1>3, <2>1, NumbersIn, TypeParts
          DEF RollBack, NoTx, IInv, InstallTypes, Installs, Transactions, files
<1>4. CASE UpdateLocal(e)
  <2>1. PICK v \in {latest, progress[Peer(e)].version} :
          Stageable(e, v) /\ OpenTransaction(e, v)
    BY <1>4 DEF UpdateLocal
  <2>2. v \in Version
    <3>1. v \in Int /\ latest \in Version /\ inst[e].version \in Version
      BY Peers DEF IInv, TypeOK, Numbers, Version
    <3> QED BY <2>1, <3>1, EndsAssumption DEF Stageable, Version
  <2> QED BY <1>4, <2>1, <2>2, OpenTypes DEF UpdateLocal, files
<1> QED BY <1>1, <1>2, <1>3, <1>4 DEF NativeStep

LEMMA StageTypes ==
  ASSUME IInv, NEW e \in End, NEW op \in OpsOrNone, NEW v \in Numbers,
         stage' = [stage EXCEPT ![e] = [op |-> op, version |-> v, base |-> inst[e].version]],
         UNCHANGED <<inst, tx>>
  PROVE  InstallTypes'
<1>1. inst[e].version \in Numbers
  BY Compared
<1> QED BY <1>1, TypeParts DEF IInv, InstallTypes, Stages

(* What a coordinator or a handler does to an installation.                *)
LEMMA StagingTypes ==
  ASSUME IInv, NEW e \in End, PrepareLocal(e) \/ CommitLocal(e)
  PROVE  InstallTypes'
<1>1. CASE PrepareLocal(e) /\ Current(e, co[e].version)
  BY <1>1, TypeParts DEF PrepareLocal, IInv, InstallTypes
<1>2. CASE PrepareLocal(e) /\ ~Current(e, co[e].version)
  <2>1. PICK op \in NewOps :
          stage' = [stage EXCEPT ![e] = [op |-> op, version |-> co[e].version,
                                         base |-> inst[e].version]]
    BY <1>2 DEF PrepareLocal
  <2>2. op \in OpsOrNone /\ co[e].version \in Numbers
    BY NewOpsIn, Compared DEF OpsOrNone, Coordinators
  <2> QED BY <1>2, <2>1, <2>2, StageTypes DEF PrepareLocal
<1>3. CASE CommitLocal(e)
  BY <1>3, CommitOpens, OpenTypes DEF CommitLocal, CanCommitLocal, files
<1> QED BY <1>1, <1>2, <1>3

LEMMA HandlingTypes ==
  ASSUME IInv, NEW c \in calls, HandlePrepare(c) \/ HandleCommit(c)
  PROVE  InstallTypes'
<1>1. CASE UNCHANGED <<inst, tx, stage>>
  BY <1>1, TypeParts DEF IInv, InstallTypes
<1>2. CASE HandlePrepare(c)
  <2>1. UNCHANGED <<inst, tx>>
    BY <1>2 DEF HandlePrepare
  <2>2. CASE stage' # stage
    BY <1>2, <2>1, <2>2, PrepareHandled, RequestsOK, StageTypes
  <2> QED BY <1>1, <2>1, <2>2
<1>3. CASE HandleCommit(c)
  <2>1. UNCHANGED <<inst, stage>>
    BY <1>3 DEF HandleCommit, files
  <2>2. CASE CanCommit(c.to, c.op, c.version, c.gen) /\ OpenTransaction(c.to, c.version)
    BY <2>1, <2>2, RequestsOK, CommitOpens, OpenTypes
  <2> QED BY <1>1, <1>3, <2>1, <2>2, CommitHandled
<1> QED BY <1>2, <1>3

LEMMA InstallTypesOK == ASSUME IInv, [Next]_vars PROVE InstallTypes'
<1>1. CASE UNCHANGED <<inst, tx, stage>>
  BY <1>1, TypeParts DEF IInv, InstallTypes
<1>2. ASSUME NEW e \in End, Coordinate(e) PROVE InstallTypes'
  <2>1. CASE PrepareLocal(e) \/ CommitLocal(e)
    BY <2>1, StagingTypes
  <2>2. CASE \/ Lock(e) \/ Confirm(e) \/ InspectPeer(e) \/ Choose(e) \/ FinishUpToDate(e)
             \/ PreparePeer(e) \/ SavePrepared(e) \/ SaveCommitting(e)
             \/ CommitPeer(e) \/ VerifyPeer(e) \/ FinishCurrent(e) \/ GiveUp(e)
    BY <1>1, <2>2
       DEF Lock, Confirm, InspectPeer, Choose, FinishUpToDate, PreparePeer, SavePrepared,
           SaveCommitting, CommitPeer, VerifyPeer, FinishCurrent, GiveUp, files
  <2> QED BY <1>2, <2>1, <2>2 DEF Coordinate
<1>3. ASSUME NEW e \in End, Handshake(e) \/ Abort(e) \/ \E r \in BOOLEAN : Start(e, r)
      PROVE  UNCHANGED <<inst, tx, stage>>
  BY <1>3, HandshakeQuiet DEF Abort, Start, files
<1>4. CASE Release \/ (\E c \in calls : CallLost(c)) \/ UNCHANGED vars
  BY <1>1, <1>4 DEF Release, CallLost, vars, files
<1> QED BY <1>1, <1>2, <1>3, <1>4, NativeTypes, HandlingTypes DEF Next, Handle

LEMMA CoordinatorsInductive ==
  ASSUME IInv, [Next]_vars
  PROVE  CoordinatorsOK' /\ ProgressTrue'
         /\ co' \in [End -> Coordinators] /\ progress' \in [End -> Records]
<1>1. PICK e \in End : Moves(e)
  BY SomeMoves
<1>2. PICK r, p : /\ Sound(e, r) /\ co' = [co EXCEPT ![e] = r]
                  /\ Truthful(e, p) /\ progress' = [progress EXCEPT ![e] = p]
  BY <1>1 DEF Moves
<1>3. \A f \in End : Secured(f)' >= Secured(f) /\ Secured(f)' \in Int
  BY SecuredGrows, InstallTypesOK
     DEF InstallTypes, Installs, Transactions, Secured, Numbers, Version
<1> QED BY <1>1, <1>2, <1>3, CoordinatorStep

LEMMA PairTypesOK == ASSUME IInv, [Next]_vars PROVE PairTypes'
<1>1. CASE UNCHANGED <<config, pair, offers>>
  BY <1>1, TypeParts DEF IInv, PairTypes
<1>2. ASSUME NEW e \in End, Handshake(e) PROVE PairTypes'
  <2>1. CASE PairStart(e)
    <3>1. PICK id \in PairIds(e) :
            /\ config' = [config EXCEPT ![e] = [id |-> id, state |-> "pending"]]
            /\ offers' = [offers EXCEPT ![Peer(e)] = [id |-> id, step |-> "sent"]]
      BY <2>1 DEF PairStart
    <3>2. id \in IdsOrNone
      BY LeastIn DEF IInv, PairOK, PairIds, IdsOrNone
    <3> QED BY <2>1, <3>1, <3>2, TypeParts
            DEF PairStart, IInv, PairTypes, Configs, OffersUnderWay
  <2>0. PairTypes
    BY TypeParts DEF IInv
  <2>2. CASE OfferCheck(e) \/ OfferAccept(e)
    <3>1. /\ \E step \in {"checked", "accepted", "rejected"} :
               offers' = [offers EXCEPT ![e].step = step]
          /\ \/ config' = config
             \/ config' = [config EXCEPT ![e] = [id |-> offers[e].id, state |-> "active"]]
          /\ pair' = pair
      BY <2>2 DEF OfferCheck, OfferAccept
    <3>2. offers' \in [End -> OffersUnderWay]
      BY <2>0, <3>1 DEF PairTypes, OffersUnderWay
    <3>3. offers[e].id \in IdsOrNone
      BY <2>0 DEF PairTypes, OffersUnderWay
    <3>4. config' \in [End -> Configs]
      BY <2>0, <3>1, <3>3 DEF PairTypes, Configs
    <3> QED BY <2>0, <3>1, <3>2, <3>4 DEF PairTypes
  <2>3. CASE PairAnswered(e)
    BY <2>3, NumbersIn, Peers, TypeParts
       DEF PairAnswered, NoOffer, IInv, PairTypes, Configs, OffersUnderWay
  <2>4. CASE OfferLost(e) \/ PairAbort(e)
    <3>1. /\ offers' = offers \/ offers' = [offers EXCEPT ![e] = NoOffer]
          /\ pair' = pair \/ pair' = [pair EXCEPT ![e] = "idle"]
          /\ config' = config
      BY <2>4 DEF OfferLost, PairAbort
    <3>2. offers' \in [End -> OffersUnderWay]
      BY <2>0, <3>1, NumbersIn DEF NoOffer, PairTypes, OffersUnderWay
    <3>3. pair' \in [End -> {"idle", "offering"}]
      BY <2>0, <3>1 DEF PairTypes
    <3> QED BY <2>0, <3>1, <3>2, <3>3 DEF PairTypes
  <2> QED BY <1>2, <2>1, <2>2, <2>3, <2>4 DEF Handshake, OfferHandler
<1>3. ASSUME NEW e \in End,
             \/ NativeStep(e) \/ RollBack(e) \/ UpdateLocal(e)
             \/ (\E r \in BOOLEAN : Start(e, r)) \/ Abort(e)
      PROVE  UNCHANGED <<config, pair, offers>>
  BY <1>3 DEF NativeStep, Switch, Complete, RollBack, UpdateLocal, Start, Abort, files
<1>4. ASSUME NEW e \in End, Coordinate(e) PROVE UNCHANGED <<config, pair, offers>>
  BY <1>4 DEF Coordinate, Lock, Confirm, InspectPeer, Choose, FinishUpToDate, PrepareLocal,
              PreparePeer, SavePrepared, SaveCommitting, CommitPeer, VerifyPeer,
              CommitLocal, FinishCurrent, GiveUp, files
<1>5. CASE Release \/ Handle \/ (\E c \in calls : CallLost(c)) \/ UNCHANGED vars
  BY <1>1, <1>5 DEF Release, Handle, HandlePrepare, HandleCommit, CallLost, vars, files
<1> QED BY <1>1, <1>2, <1>3, <1>4, <1>5 DEF Next

(* A request names what its coordinator is at.                             *)
LEMMA RequestTyped ==
  ASSUME IInv, NEW e \in End, NEW cmd \in {"prepare", "commit"}, NEW op \in OpsOrNone
  PROVE  Request(e, cmd, op) \in Requests
<1>1. co[e].version \in Numbers /\ inst[Peer(e)].version \in Numbers
  BY Compared, Peers DEF Coordinators
<1> QED BY <1>1, Peers DEF Request, Requests, Paired

LEMMA OtherTypesOK == ASSUME IInv, [Next]_vars PROVE OtherTypes'
<1> USE DEF OtherTypes
<1>0. OtherTypes
  BY TypeParts DEF IInv
<1>1. ASSUME NEW e \in End, Handshake(e) PROVE OtherTypes'
  <2>1. latest' = latest /\ calls' = calls
    BY <1>1, HandshakeQuiet
  <2>2. faults' = faults \/ Fault
    BY <1>1 DEF Handshake, OfferHandler, PairStart, OfferCheck, OfferAccept, OfferLost,
                PairAnswered, PairAbort
  <2> QED BY <1>0, <2>1, <2>2, FaultOK
<1>2. ASSUME NEW e \in End,
             \/ NativeStep(e) \/ RollBack(e) \/ UpdateLocal(e)
             \/ (\E r \in BOOLEAN : Start(e, r)) \/ Abort(e)
      PROVE  OtherTypes'
  <2>1. latest' = latest /\ calls' = calls
    BY <1>2 DEF NativeStep, Switch, Complete, RollBack, UpdateLocal, Start, Abort
  <2>2. faults' = faults \/ Fault
    BY <1>2 DEF NativeStep, Switch, Complete, RollBack, UpdateLocal, Start, Abort
  <2> QED BY <1>0, <2>1, <2>2, FaultOK
<1>3. ASSUME NEW e \in End, Coordinate(e) PROVE OtherTypes'
  <2>1. latest' = latest /\ faults' = faults
    BY <1>3 DEF Coordinate, Lock, Confirm, InspectPeer, Choose, FinishUpToDate, PrepareLocal,
                PreparePeer, SavePrepared, SaveCommitting, CommitPeer, VerifyPeer,
                CommitLocal, FinishCurrent, GiveUp
  <2>2. CASE PreparePeer(e)
    <3>1. PICK op \in NewOps : calls' = calls \cup {Request(e, "prepare", op)}
      BY <2>2 DEF PreparePeer
    <3>2. op \in OpsOrNone
      BY NewOpsIn DEF OpsOrNone
    <3> QED BY <1>0, <2>1, <3>1, <3>2, RequestTyped
  <2>3. CASE CommitPeer(e)
    <3>1. co[e].peerOp \in OpsOrNone
      BY Compared DEF Coordinators
    <3> QED BY <1>0, <2>1, <2>3, <3>1, RequestTyped DEF CommitPeer
  <2>4. CASE ~PreparePeer(e) /\ ~CommitPeer(e)
    BY <1>0, <1>3, <2>1, <2>4
       DEF Coordinate, Lock, Confirm, InspectPeer, Choose, FinishUpToDate, PrepareLocal,
           SavePrepared, SaveCommitting, VerifyPeer, CommitLocal, FinishCurrent, GiveUp
  <2> QED BY <2>2, <2>3, <2>4
<1>4. CASE Handle \/ \E c \in calls : CallLost(c)
  <2>1. latest' = latest /\ calls' \subseteq calls /\ (faults' = faults \/ Fault)
    BY <1>4 DEF Handle, HandlePrepare, HandleCommit, CallLost
  <2> QED BY <1>0, <2>1, FaultOK
<1>5. CASE Release
  BY <1>0, <1>5, EndsAssumption DEF Release, Version
<1>6. CASE UNCHANGED vars
  BY <1>0, <1>6 DEF vars
<1> QED BY <1>1, <1>2, <1>3, <1>4, <1>5, <1>6 DEF Next

(* The pairing lock: both commands start only where none runs.             *)
LEMMA LockOKAlways == ASSUME IInv, [Next]_vars PROVE LockOK'
<1>0. LockOK /\ (\A e \in End : Idle.pc = "idle") /\ co \in [End -> Coordinators]
  BY TypeParts DEF IInv, Idle
<1>1. CASE UNCHANGED <<co, pair>>
  BY <1>0, <1>1 DEF LockOK
<1>2. ASSUME NEW e \in End, NEW r, Step(e, r), pair' = pair,
             \/ pair[e] = "idle" \/ r.pc \in {"idle", "locking"}
             \/ co[e].pc \notin {"idle", "locking"}
      PROVE  LockOK'
  <2>1. pair[e] = "idle" \/ r.pc \in {"idle", "locking"}
    BY <1>0, <1>2 DEF LockOK
  <2> QED BY <1>0, <1>2, <2>1 DEF LockOK, Step
<1>3. ASSUME NEW e \in End, Handshake(e) PROVE LockOK'
  <2>1. co' = co
    BY <1>3, HandshakeQuiet
  <2>2. pair' = pair \/ pair' = [pair EXCEPT ![e] = "idle"]
          \/ (pair' = [pair EXCEPT ![e] = "offering"] /\ ~Locked(e))
    BY <1>3 DEF Handshake, OfferHandler, PairStart, OfferCheck, OfferAccept, OfferLost,
                PairAnswered, PairAbort
  <2> QED BY <1>0, <2>1, <2>2 DEF LockOK, Locked, IInv, TypeOK
<1>4. ASSUME NEW e \in End, Coordinate(e) PROVE LockOK'
  <2>1. CASE Lock(e)
    BY <1>2, <2>1 DEF Lock, CanLock, Locked
  <2>2. CASE GiveUp(e)
    BY <1>0, <1>2, <2>2 DEF GiveUp
  <2>3. CASE ~Lock(e) /\ ~GiveUp(e)
    <3>1. \E r : Step(e, r) /\ co[e].pc \notin {"idle", "locking"} /\ pair' = pair
      <4>1. CASE Confirm(e) \/ InspectPeer(e) \/ Choose(e) \/ FinishUpToDate(e)
        BY <4>1 DEF Confirm, InspectPeer, Choose, FinishUpToDate
      <4>2. CASE PrepareLocal(e) \/ PreparePeer(e)
        BY <4>2 DEF PrepareLocal, PreparePeer
      <4>3. CASE SavePrepared(e) \/ SaveCommitting(e) \/ CommitPeer(e) \/ VerifyPeer(e)
        BY <4>3 DEF SavePrepared, SaveCommitting, CommitPeer, VerifyPeer
      <4>4. CASE CommitLocal(e) \/ FinishCurrent(e)
        BY <4>4 DEF CommitLocal, FinishCurrent
      <4> QED BY <1>4, <2>3, <4>1, <4>2, <4>3, <4>4 DEF Coordinate
    <3> QED BY <1>2, <3>1
  <2> QED BY <2>1, <2>2, <2>3
<1>5. ASSUME NEW e \in End, Abort(e) \/ \E r \in BOOLEAN : Start(e, r) PROVE LockOK'
  <2>1. CASE Abort(e)
    BY <1>0, <1>2, <2>1 DEF Abort
  <2>2. ASSUME NEW r \in BOOLEAN, Start(e, r) PROVE LockOK'
    <3>1. [Idle EXCEPT !.pc = "locking", !.reconcile = r, !.gen = inst[e].version].pc = "locking"
      BY DEF Idle
    <3> QED BY <1>2, <2>2, <3>1 DEF Start
  <2> QED BY <1>5, <2>1, <2>2
<1>6. ASSUME NEW c \in calls, HandlePrepare(c) PROVE LockOK'
  <2>1. PICK accepted \in BOOLEAN : Reply(c, accepted)
    BY <1>6 DEF HandlePrepare
  <2>2. UNCHANGED co \/ \E r : Step(Peer(c.to), r) /\ co[Peer(c.to)].pc = "preparing"
    BY <2>1 DEF Reply
  <2> QED BY <1>1, <1>2, <1>6, <2>2, RequestsOK, Peers DEF HandlePrepare
<1>7. ASSUME NEW e \in End, NativeStep(e) \/ RollBack(e) \/ UpdateLocal(e)
      PROVE  UNCHANGED <<co, pair>>
  BY <1>7 DEF NativeStep, Switch, Complete, RollBack, UpdateLocal
<1>8. CASE \/ Release \/ UNCHANGED vars
           \/ \E c \in calls : HandleCommit(c) \/ CallLost(c)
  BY <1>1, <1>8 DEF Release, HandleCommit, CallLost, vars
<1> QED BY <1>1, <1>3, <1>4, <1>5, <1>6, <1>7, <1>8 DEF Next, Handle

-----------------------------------------------------------------------------
(* The invariant holds at first.                                           *)
LEMMA InitOK == Init => IInv
<1> SUFFICES ASSUME Init PROVE IInv
  OBVIOUS
<1>1. 1 \in Version /\ Version \subseteq Int
  BY EndsAssumption DEF Version
<1>2. /\ \A e \in End : inst[e] = [version |-> 1, status |-> "none"] /\ tx[e] = NoTx
                        /\ stage[e] = NoStage /\ config[e] = NoConfig /\ co[e] = Idle
                        /\ progress[e] = NoProgress /\ offers[e] = NoOffer /\ pair[e] = "idle"
      /\ calls = {}
  BY DEF Init
<1>3. TypeOK
  <2>1. InstallTypes
    BY <1>1, NumbersIn
       DEF Init, InstallTypes, Installs, Transactions, Stages, NoTx, NoStage
  <2>2. PairTypes
    BY NumbersIn DEF Init, PairTypes, Configs, OffersUnderWay, NoConfig, NoOffer
  <2>3. OtherTypes
    BY <1>1, EndsAssumption DEF Init, OtherTypes
  <2>4. LockOK
    BY DEF Init, LockOK
  <2>5. co \in [End -> Coordinators] /\ progress \in [End -> Records]
    BY NumbersIn DEF Init, Coordinators, Idle, Records, NoProgress
  <2> QED BY <2>1, <2>2, <2>3, <2>4, <2>5, TypeParts
<1>4. InstallsOK
  BY <1>2 DEF InstallsOK, NoTx, NoStage
<1>5. PairOK /\ ActivePairAgrees
  BY <1>2 DEF PairOK, ActivePairAgrees, NoConfig, NoOffer
<1>6. \A e \in End : Secured(e) = 1
  BY <1>2 DEF Secured, NoTx
<1>7. CoordinatorsOK /\ ProgressTrue
  <2>1. \A e \in End : co[e] \in Coordinators
    BY <1>3 DEF TypeOK
  <2> QED BY <1>2, <1>6, <2>1, Peers
          DEF CoordinatorsOK, ProgressTrue, Sound, Idle, NoProgress, PastLocal
<1> QED BY <1>3, <1>4, <1>5, <1>7 DEF IInv

(* Every step preserves it.                                                *)
LEMMA NextOK == IInv /\ [Next]_vars => IInv'
<1> SUFFICES ASSUME IInv, [Next]_vars PROVE IInv'
  OBVIOUS
<1>1. /\ InstallTypes' /\ PairTypes' /\ OtherTypes' /\ LockOK'
      /\ co' \in [End -> Coordinators] /\ progress' \in [End -> Records]
  BY InstallTypesOK, PairTypesOK, OtherTypesOK, LockOKAlways, CoordinatorsInductive
<1>2. TypeOK'
  BY <1>1 DEF TypeOK, InstallTypes, PairTypes, OtherTypes, LockOK, Installs, Transactions,
              Stages, Configs, OffersUnderWay, Records
<1>3. InstallsOK' /\ PairOK' /\ ActivePairAgrees' /\ CoordinatorsOK' /\ ProgressTrue'
  BY SecuredGrows, PairingOK, CoordinatorsInductive
<1> QED BY <1>2, <1>3 DEF IInv

(* So it holds always.                                                     *)
LEMMA Inductive == Spec => []IInv
BY InitOK, NextOK, PTL DEF Spec

(* Every variable keeps its type, and the pairing lock has one holder.     *)
THEOREM TypeCorrect == Spec => []TypeOK
<1>1. IInv => TypeOK
  BY DEF IInv
<1> QED BY <1>1, Inductive, PTL

(* An end that counts the pair as active has a peer that recorded it too.  *)
THEOREM PairAgrees == Spec => []ActivePairAgrees
<1>1. IInv => ActivePairAgrees
  BY DEF IInv
<1> QED BY <1>1, Inductive, PTL

(* What an end recorded of a peer stays true, whatever fails afterwards.   *)
THEOREM ProgressHolds == Spec => []ProgressTrue
<1>1. IInv => ProgressTrue
  BY DEF IInv
<1> QED BY <1>1, Inductive, PTL

(* No coordinator commits its own update before its peer secured it.       *)
THEOREM PeerFirst == Spec => LocalAfterPeer
<1>1. IInv /\ [Next]_vars
        => [\A e \in End : CommitLocal(e) => Secured(Peer(e)) >= co[e].version]_vars
  BY DEF IInv, CoordinatorsOK, Sound, CommitLocal
<1> QED BY <1>1, Inductive, PTL DEF Spec, LocalAfterPeer

(* No installation goes back behind a release that it ran.                 *)
THEOREM NeverDowngraded == Spec => NoDowngrade
<1>1. IInv /\ [Next]_vars => [\A e \in End : Secured(e)' >= Secured(e)]_vars
  BY SecuredGrows
<1> QED BY <1>1, Inductive, PTL DEF Spec, NoDowngrade

=============================================================================
