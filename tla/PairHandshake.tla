--------------------------- MODULE PairHandshake ----------------------------
(***************************************************************************)
(* `headroom pair windows-wsl': one end records a pending association and  *)
(* offers it; the other probes the offering end before it records the      *)
(* association as active; the reply lets the first one do the same.        *)
(***************************************************************************)
EXTENDS PairedInstalls

NoOffer == [id |-> NoOp, step |-> "none"]

UsedIds == {config[e].id : e \in End} \cup {offers[e].id : e \in End}

(* Mutant: every pair command makes an identifier up.                      *)
PairIdsAnew(e) == Least(Ids \ {config[e].id})

(* A pair command takes up the identifier it finds and makes one up        *)
(* otherwise.                                                              *)
PairIds(e) == IF config[e] = NoConfig THEN Least(Ids \ UsedIds) ELSE {config[e].id}

(* What is recorded, an active association too, is pending until the peer  *)
(* has answered.  Both commands name the same two entries.                 *)
PairStart(e) ==
  /\ ~Locked(e) /\ Launchable(e) /\ offers[Peer(e)] = NoOffer
  /\ \E id \in PairIds(e) :
       /\ config' = [config EXCEPT ![e] = [id |-> id, state |-> "pending"]]
       /\ offers' = [offers EXCEPT ![Peer(e)] = [id |-> id, step |-> "sent"]]
  /\ pair' = [pair EXCEPT ![e] = "offering"]
  /\ IF config[e].state = "pending" \/ (e = Home /\ config[e] = NoConfig)
     THEN UNCHANGED faults ELSE Fault
  /\ UNCHANGED <<latest, inst, tx, updating>>

(* The handler compares the offer with its own record, before any lock.    *)
OfferCheck(e) ==
  /\ offers[e].step = "sent" /\ Launchable(e)
  /\ LET same == config[e] = NoConfig \/ config[e].id = offers[e].id IN
     offers' = [offers EXCEPT ![e].step = IF same THEN "checked" ELSE "rejected"]
  /\ UNCHANGED <<latest, inst, tx, config, pair, updating, faults>>

(* A probe is answered by an end that has a record of the same pair.       *)
Probe(e, id) == config[e] # NoConfig /\ config[e].id = id

(* With the lock it probes the offering end, and records the pair.         *)
OfferAccept(e) ==
  /\ offers[e].step = "checked" /\ Launchable(e)
  /\ IF ~Locked(e) /\ Probe(Peer(e), offers[e].id)
     THEN /\ config' = [config EXCEPT ![e] = [id |-> offers[e].id, state |-> "active"]]
          /\ offers' = [offers EXCEPT ![e].step = "accepted"]
     ELSE /\ offers' = [offers EXCEPT ![e].step = "rejected"]
          /\ UNCHANGED config
  /\ UNCHANGED <<latest, inst, tx, pair, updating, faults>>

(* The answer arrives at the pair command.                                 *)
PairAnswered(e) ==
  /\ pair[e] = "offering" /\ offers[Peer(e)].step \in {"accepted", "rejected"}
  /\ config' = IF offers[Peer(e)].step = "accepted"
               THEN [config EXCEPT ![e] = [id |-> offers[Peer(e)].id, state |-> "active"]]
               ELSE config
  /\ pair' = [pair EXCEPT ![e] = "idle"]
  /\ offers' = [offers EXCEPT ![Peer(e)] = NoOffer]
  /\ UNCHANGED <<latest, inst, tx, updating, faults>>

(* The command dies or times out; its handler may still be at work.        *)
PairAbort(e) ==
  /\ pair[e] = "offering" /\ Fault
  /\ pair' = [pair EXCEPT ![e] = "idle"]
  /\ UNCHANGED <<latest, inst, tx, config, offers, updating>>

(* A handler that ends after its command is gone has nobody to answer.     *)
OfferLost(e) ==
  /\ pair[Peer(e)] = "idle" /\ offers[e].step \in {"accepted", "rejected"}
  /\ offers' = [offers EXCEPT ![e] = NoOffer]
  /\ UNCHANGED <<latest, inst, tx, config, pair, updating, faults>>

OfferHandler(e) == OfferCheck(e) \/ OfferAccept(e) \/ OfferLost(e)

Handshake(e) == PairStart(e) \/ OfferHandler(e) \/ PairAnswered(e) \/ PairAbort(e)

-----------------------------------------------------------------------------
(* An end that counts the pair as active, and so carries out its peer's    *)
(* requests, has a peer that recorded the same pair, whichever handshakes  *)
(* of both ends overlap, are cut off or answered late.                     *)
ActivePairAgrees ==
  \A e \in End : config[e].state = "active" => config[Peer(e)].id = config[e].id
=============================================================================
