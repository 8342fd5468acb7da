----------------------------- MODULE CodexReset -----------------------------
(***************************************************************************)
(* Redemption of a banked Codex usage reset by the usage servers: the      *)
(* provider that holds the credits, and on every server the account that   *)
(* is signed in, the poller's cache and its fetch, the request handler,    *)
(* the attempted request ids and the gate that only a later reading below  *)
(* 95% releases.  A credit is valuable, and no test may run this code.     *)
(***************************************************************************)
EXTENDS Naturals, FiniteSets

CONSTANTS Server, Account, Id,
          NoAccount, NoId, NoReading,
          Bank,          \* credits an account starts with
          MaxRemembered  \* maxRememberedResetAttempts

ASSUME ResetAssumption ==
  /\ NoAccount \notin Account /\ NoId \notin Id
  /\ Bank \in Nat /\ MaxRemembered \in Nat

VARIABLES
  level,     \* weekly usage of an account: "low", "near" (below) or "high" (at least 95%)
  bank,      \* its banked credits
  spent,     \* those redeemed since its usage last rose to 95%
  inflight,  \* redemptions on their way to the provider
  cred,      \* the account signed in on a server
  cache,     \* the poller's entry: a reading, or NoReading (none yet, or an error)
  fetch,     \* the provider GET in progress; old: begun before the latest submission
  req,       \* the reset request that holds the handler's lock
  attempts,  \* ids this process has submitted
  gate,      \* the latest submission, and whether its effect has been observed
  sent       \* how often this process has submitted an id

provider == <<level, bank, spent, inflight>>
process  == <<cache, fetch, req, attempts, gate, sent>>
vars     == <<provider, cred, process>>

Readings == [acc : Account, high : BOOLEAN, credit : BOOLEAN]
Fetching(by, old, got) == [by |-> by, old |-> old, got |-> got]
NoFetch  == Fetching("none", FALSE, NoReading)
NoReq    == [st |-> "idle", id |-> NoId, acc |-> NoAccount, fresh |-> FALSE]
NoGate   == [id |-> NoId, acc |-> NoAccount, seen |-> FALSE]

Redemptions == [at : Server, id : Id, acc : Account, for : Account]
Fetches  == [by : {"none", "poller", "handler"}, old : BOOLEAN,
             got : Readings \cup {NoReading}]
Requests == [st : {"idle", "poll", "polling", "consume", "sent"},
             id : Id \cup {NoId}, acc : Account \cup {NoAccount}, fresh : BOOLEAN]
Gates    == [id : Id \cup {NoId}, acc : Account \cup {NoAccount}, seen : BOOLEAN]
Memories == {A \in SUBSET Id : IsFiniteSet(A) /\ Cardinality(A) <= MaxRemembered}

TypeOK ==
  /\ level \in [Account -> {"low", "near", "high"}]
  /\ bank \in [Account -> 0..Bank] /\ spent \in [Account -> Nat]
  /\ inflight \subseteq Redemptions
  /\ cred \in [Server -> Account \cup {NoAccount}]
  /\ cache \in [Server -> Readings \cup {NoReading}]
  /\ fetch \in [Server -> Fetches] /\ req \in [Server -> Requests]
  /\ attempts \in [Server -> Memories] /\ gate \in [Server -> Gates]
  /\ sent \in [Server -> [Id -> Nat]]

(***************************************************************************)
(* The provider.  Usage may rise to 95% or fall at any time: at the end of *)
(* the week, or as the effect, however late, of a redemption.  It does not *)
(* climb back from a reset to 95% while a redemption is under way.         *)
(***************************************************************************)
Underway(a) ==
  \/ \E r \in inflight : r.acc = a
  \/ \E s \in Server : req[s].acc = a

Cross(a) ==
  /\ level[a] = "near"
  /\ level' = [level EXCEPT ![a] = "high"] /\ spent' = [spent EXCEPT ![a] = 0]
  /\ UNCHANGED <<bank, inflight, cred, process>>

Fall(a) ==
  /\ level[a] # "low"
  /\ level' = [level EXCEPT ![a] = "low"]
  /\ UNCHANGED <<bank, spent, inflight, cred, process>>

Climb(a) ==
  /\ level[a] = "low" /\ ~Underway(a)
  /\ level' = [level EXCEPT ![a] = "near"]
  /\ UNCHANGED <<bank, spent, inflight, cred, process>>

(* A redemption arrives: the provider takes a credit if there is one.      *)
Redeem(r) ==
  /\ r \in inflight
  /\ inflight' = inflight \ {r}
  /\ IF bank[r.acc] > 0
     THEN /\ bank' = [bank EXCEPT ![r.acc] = @ - 1]
          /\ spent' = [spent EXCEPT ![r.acc] = @ + 1]
     ELSE UNCHANGED <<bank, spent>>
  /\ UNCHANGED <<level, cred, process>>

Lose(r) ==
  /\ r \in inflight
  /\ inflight' = inflight \ {r}
  /\ UNCHANGED <<level, bank, spent, cred, process>>

(* The credential file of a server's user is replaced or removed.          *)
SignIn(s, a) ==
  /\ cred[s] # a
  /\ cred' = [cred EXCEPT ![s] = a]
  /\ UNCHANGED <<provider, process>>

(***************************************************************************)
(* The poller.  One fetch at a time (fetchMu), for the periodic or the     *)
(* delayed poll or for the handler.                                        *)
(***************************************************************************)
PollStart(s) ==
  /\ fetch[s].by = "none"
  /\ fetch' = [fetch EXCEPT ![s] = Fetching("poller", FALSE, NoReading)]
  /\ UNCHANGED <<provider, cred, cache, req, attempts, gate, sent>>

(* The request that holds the handler's lock moves on.                     *)
Handling(s, st, fresh) ==
  [st |-> st, id |-> req[s].id, acc |-> req[s].acc, fresh |-> fresh]

(* The handler's PollProvider gets the fetch lock.                         *)
HandlerPoll(s) ==
  /\ req[s].st = "poll" /\ fetch[s].by = "none"
  /\ fetch' = [fetch EXCEPT ![s] = Fetching("handler", FALSE, NoReading)]
  /\ req' = [req EXCEPT ![s] = Handling(s, "polling", FALSE)]
  /\ UNCHANGED <<provider, cred, cache, attempts, gate, sent>>

(* The provider answers for the account that is signed in.                 *)
Reading(a) == [acc |-> a, high |-> level[a] = "high", credit |-> bank[a] > 0]

FetchRead(s) ==
  /\ fetch[s].by # "none" /\ fetch[s].got = NoReading /\ cred[s] # NoAccount
  /\ fetch' = [fetch EXCEPT ![s] = Fetching(fetch[s].by, fetch[s].old, Reading(cred[s]))]
  /\ UNCHANGED <<provider, cred, cache, req, attempts, gate, sent>>

(* Mutant: any account's reading opens the gate.                           *)
ObservesAnyAccount(s, r) == gate[s].id # NoId /\ ~r.high /\ ~fetch[s].old

(* Mutant: the gate waits for a credit as well.                            *)
ObservesWithCredit(s, r) ==
  gate[s].id # NoId /\ ~r.high /\ r.credit /\ r.acc = gate[s].acc /\ ~fetch[s].old

(* The usable reading r shows that the submission at the gate took effect. *)
Observes(s, r) ==
  /\ gate[s].id # NoId
  /\ ~r.high /\ r.acc = gate[s].acc /\ ~fetch[s].old

(* What a handler that waited for this fetch does with its entry.          *)
EligibleForCodexReset(s, r) == r.high /\ r.credit /\ r.acc = req[s].acc

HandlerGot(s, eligible) ==
  IF fetch[s].by # "handler" THEN UNCHANGED req
  ELSE IF eligible
       THEN req' = [req EXCEPT ![s] = Handling(s, "consume", TRUE)]
       ELSE req' = [req EXCEPT ![s] = NoReq]

(* A good reading becomes the entry; observeResetUsage needs the client's  *)
(* lock, which a submission holds, to look at one below 95%.               *)
FetchEnd(s) ==
  LET r == fetch[s].got IN
  /\ r # NoReading /\ (req[s].st = "sent" => r.high)
  /\ gate' = [gate EXCEPT ![s] = [id |-> gate[s].id, acc |-> gate[s].acc,
                                   seen |-> gate[s].seen \/ Observes(s, r)]]
  /\ cache' = [cache EXCEPT ![s] = r]
  /\ fetch' = [fetch EXCEPT ![s] = NoFetch]
  /\ HandlerGot(s, EligibleForCodexReset(s, r))
  /\ UNCHANGED <<provider, cred, attempts, sent>>

(* No credentials, an error of the provider, or a cancelled request: the   *)
(* entry keeps the last good values but carries an error, so that neither  *)
(* the handler nor a client uses it.                                       *)
FetchFails(s) ==
  /\ fetch[s].by # "none"
  /\ cache' = [cache EXCEPT ![s] = NoReading]
  /\ fetch' = [fetch EXCEPT ![s] = NoFetch]
  /\ HandlerGot(s, FALSE)
  /\ UNCHANGED <<provider, cred, attempts, gate, sent>>

(***************************************************************************)
(* The handler: TryLock, ResetAttemptStatus, PollProvider for an unknown   *)
(* id, ConsumeResetCredit.                                                 *)
(***************************************************************************)
Blocked(s, id) == id \notin attempts[s] /\ gate[s].id # NoId /\ ~gate[s].seen

(* A confirmed request with the fingerprint of acc is taken on.            *)
Accept(s, id, acc) ==
  /\ req[s].st = "idle" /\ ~Blocked(s, id)
  /\ req' = [req EXCEPT ![s] =
               [st |-> IF id \in attempts[s] THEN "consume" ELSE "poll",
                id |-> id, acc |-> acc, fresh |-> FALSE]]
  /\ UNCHANGED <<provider, cred, cache, fetch, attempts, gate, sent>>

(* Mutant: whoever is signed in pays.                                      *)
SignedIn(s) == cred[s] # NoAccount

(* Mutant: the latest submission may be tried again.                       *)
AttemptedBefore(s) == req[s].id \in attempts[s] /\ gate[s].id # req[s].id

(* The checks ConsumeResetCredit makes under the client's lock.            *)
CredentialsMatch(s)  == cred[s] = req[s].acc
AlreadyAttempted(s)  == req[s].id \in attempts[s]
GateOpen(s)          == gate[s].id \in {NoId, req[s].id} \/ gate[s].seen
FreshlyPolled(s)     == req[s].fresh \/ gate[s].id = req[s].id
Remembers(s)         == Cardinality(attempts[s]) < MaxRemembered

Submittable(s) ==
  /\ CredentialsMatch(s) /\ ~AlreadyAttempted(s)
  /\ GateOpen(s) /\ FreshlyPolled(s) /\ Remembers(s)

(* The id is recorded and the gate closed before the request leaves; what  *)
(* leaves may be lost.                                                     *)
Submit(s) ==
  /\ req[s].st = "consume" /\ Submittable(s)
  /\ attempts' = [attempts EXCEPT ![s] = @ \cup {req[s].id}]
  /\ gate' = [gate EXCEPT ![s] = [id |-> req[s].id, acc |-> cred[s], seen |-> FALSE]]
  /\ sent' = [sent EXCEPT ![s] = [sent[s] EXCEPT ![req[s].id] = @ + 1]]
  /\ fetch' = [fetch EXCEPT ![s] = Fetching(fetch[s].by, fetch[s].by # "none", fetch[s].got)]
  /\ inflight' = inflight \cup {[at |-> s, id |-> req[s].id,
                                 acc |-> cred[s], for |-> req[s].acc]}
  /\ req' = [req EXCEPT ![s] = Handling(s, "sent", req[s].fresh)]
  /\ UNCHANGED <<level, bank, spent, cred, cache>>

(* An answer, certain or not, or the timeout: nothing is sent again.       *)
SubmitEnd(s) ==
  /\ req[s].st = "sent"
  /\ req' = [req EXCEPT ![s] = NoReq]
  /\ UNCHANGED <<provider, cred, cache, fetch, attempts, gate, sent>>

(* A recorded answer, a failed check, or credentials that cannot be read.  *)
Decline(s) ==
  /\ req[s].st = "consume"
  /\ req' = [req EXCEPT ![s] = NoReq]
  /\ UNCHANGED <<provider, cred, cache, fetch, attempts, gate, sent>>

(* The server process ends and another starts; what is in flight arrives.  *)
Restart(s) ==
  /\ cache' = [cache EXCEPT ![s] = NoReading]
  /\ fetch' = [fetch EXCEPT ![s] = NoFetch]
  /\ req' = [req EXCEPT ![s] = NoReq]
  /\ attempts' = [attempts EXCEPT ![s] = {}]
  /\ gate' = [gate EXCEPT ![s] = NoGate]
  /\ sent' = [sent EXCEPT ![s] = [i \in Id |-> 0]]
  /\ UNCHANGED <<provider, cred>>

Init ==
  /\ level \in [Account -> {"low", "near", "high"}]
  /\ bank = [a \in Account |-> Bank] /\ spent = [a \in Account |-> 0]
  /\ inflight = {}
  /\ cred \in [Server -> Account \cup {NoAccount}]
  /\ cache = [s \in Server |-> NoReading]
  /\ fetch = [s \in Server |-> NoFetch]
  /\ req = [s \in Server |-> NoReq]
  /\ attempts = [s \in Server |-> {}]
  /\ gate = [s \in Server |-> NoGate]
  /\ sent = [s \in Server |-> [i \in Id |-> 0]]

Provider ==
  \/ \E a \in Account : Cross(a) \/ Fall(a)
  \/ \E r \in inflight : Redeem(r) \/ Lose(r)
  \/ \E s \in Server, a \in Account \cup {NoAccount} : SignIn(s, a)

Serve(s) ==
  \/ PollStart(s) \/ HandlerPoll(s) \/ FetchRead(s) \/ FetchEnd(s) \/ FetchFails(s)
  \/ Submit(s) \/ SubmitEnd(s) \/ Decline(s)

(***************************************************************************)
(* Servers between two restarts, and clients that post any id at any time. *)
(***************************************************************************)
Next ==
  \/ Provider
  \/ \E a \in Account : Climb(a)
  \/ \E s \in Server : Serve(s)
  \/ \E s \in Server, id \in Id, a \in Account : Accept(s, id, a)

Fairness ==
  \A s \in Server :
    /\ WF_vars(PollStart(s)) /\ SF_vars(FetchRead(s)) /\ SF_vars(FetchEnd(s))
    /\ WF_vars(SubmitEnd(s))

Spec == Init /\ [][Next]_vars /\ Fairness

(***************************************************************************)
(* Properties.                                                             *)
(***************************************************************************)

(* A server process submits an id at most once, whatever its clients       *)
(* repeat and however the submission ended (ConsumeResetCredit).           *)
SubmittedOnce == \A s \in Server, id \in Id : sent[s][id] <= 1

(* With one server that is not restarted, an account whose usage has risen *)
(* to 95% loses at most one credit until it rises there again, whatever    *)
(* the clients post (the gate of ConsumeResetCredit, observeResetUsage).   *)
NoSecondSpend == \A a \in Account : spent[a] <= 1

(* A redemption on its way is for the account whose fingerprint the user   *)
(* confirmed, though the sign-in may change while the handler polls.       *)
SpendsConfirmedAccount == \A r \in inflight : r.acc = r.for

(* Once usage stays below 95% and the account stays signed in, its gate    *)
(* ends up open for a new reset (observeResetUsage after an ambiguous      *)
(* outcome).                                                               *)
GateReleased ==
  \A s \in Server, a \in Account :
    <>[](level[a] # "high" /\ cred[s] = a) => <>[](gate[s].acc = a => gate[s].seen)
=============================================================================
