----------------------------- MODULE ResetProofs -----------------------------
(***************************************************************************)
(* Theorems about CodexReset: types, at most one submission of an id, the  *)
(* confirmed account, and, for one server, at most one spent credit; and   *)
(* about DesktopReset: types, and, for one server that may restart, that   *)
(* the receipt of an account outlives its redemption, and that no second   *)
(* credit is spent.                                                        *)
(***************************************************************************)
EXTENDS DesktopReset, FiniteSetTheorems, TLAPS

(***************************************************************************)
(* The invariant of a server process.                                      *)
(***************************************************************************)

(* What a submission leaves: its id is attempted, the gate names one.      *)
AttemptsOK ==
  /\ \A s \in Server, id \in Id : sent[s][id] <= IF id \in attempts[s] THEN 1 ELSE 0
  /\ \A s \in Server : gate[s].id # NoId => gate[s].id \in attempts[s]

ProcessInv == TypeOK /\ AttemptsOK /\ SpendsConfirmedAccount

(***************************************************************************)
(* The invariant behind NoSecondSpend.                                     *)
(***************************************************************************)

(* A redemption of the account is on its way.                              *)
Flying(a) == \E r \in inflight : r.acc = a

Pending(s) == gate[s].id # NoId /\ ~gate[s].seen

(* The handler has an id that was unknown when it took it on.              *)
Polling(s) == req[s].st \in {"poll", "polling"} \/ (req[s].st = "consume" /\ req[s].fresh)

(* The handler has, or is about to get, a reading of at least 95%.         *)
Exhausted(s) ==
  \/ req[s].st = "consume" /\ req[s].fresh
  \/ /\ req[s].st = "polling" /\ fetch[s].by = "handler" /\ fetch[s].got # NoReading
     /\ fetch[s].got.high /\ fetch[s].got.acc = req[s].acc

(* Usage that is still high after a redemption keeps the gate closed.      *)
GateCloses ==
  \A s \in Server, a \in Account :
    level[a] = "high" /\ (spent[a] > 0 \/ Flying(a)) => Pending(s) /\ gate[s].acc = a

(* A reading that may open the gate shows the usage has fallen since.      *)
ReadingProves ==
  \A s \in Server :
    LET r == fetch[s].got IN
    r # NoReading /\ Pending(s) /\ Observes(s, r) /\ level[r.acc] = "high"
      => spent[r.acc] = 0 /\ ~Flying(r.acc)

(* No unknown id is taken on, nor polled for, while the gate is closed.    *)
PollingOpen == \A s \in Server : Polling(s) => ~Pending(s)

(* What is about to be redeemed finds the episode without a redemption.    *)
Unspent ==
  \A s \in Server :
    Exhausted(s) =>
      /\ req[s].acc \in Account
      /\ spent[req[s].acc] = 0 /\ ~Flying(req[s].acc) /\ level[req[s].acc] # "near"

(* At most one redemption of an account flies, and none after another.     *)
OneFlying ==
  /\ \A r, q \in inflight : r.acc = q.acc => r = q
  /\ \A r \in inflight : spent[r.acc] = 0 /\ level[r.acc] # "near"

(* The request of the handler is for an account; a handler's fetch belongs *)
(* to a handler that polls; a reading is about only while a fetch is.      *)
HandlerOK ==
  \A s \in Server :
    /\ req[s].st # "idle" => req[s].acc \in Account /\ req[s].id \in Id
    /\ fetch[s].by = "handler" <=> req[s].st = "polling"
    /\ fetch[s].by = "none" => fetch[s].got = NoReading

SpendInv ==
  /\ NoSecondSpend /\ GateCloses /\ ReadingProves /\ PollingOpen
  /\ Unspent /\ OneFlying /\ HandlerOK

(***************************************************************************)
(* Proofs.                                                                 *)
(***************************************************************************)

(* The bound on remembered ids survives the recording of one more.         *)
LEMMA RememberOne ==
  ASSUME NEW A \in Memories, Cardinality(A) < MaxRemembered, NEW id \in Id
  PROVE  A \cup {id} \in Memories
<1>1. IsFiniteSet(A) /\ A \in SUBSET Id
  BY DEF Memories
<1>2. Cardinality(A) \in Nat
  BY <1>1, FS_CardinalityType
<1>3. IsFiniteSet(A \cup {id})
      /\ Cardinality(A \cup {id}) = IF id \in A THEN Cardinality(A) ELSE Cardinality(A) + 1
  BY <1>1, FS_AddElement
<1>4. Cardinality(A \cup {id}) <= MaxRemembered
  BY <1>2, <1>3, ResetAssumption
<1> QED
  BY <1>1, <1>3, <1>4 DEF Memories

(* A request that moves on is still a request.                             *)
LEMMA HandlingType ==
  ASSUME NEW s \in Server, req[s] \in Requests,
         NEW st \in {"idle", "poll", "polling", "consume", "sent"}, NEW fresh \in BOOLEAN
  PROVE  Handling(s, st, fresh) \in Requests
BY DEF Handling, Requests

(* No request is a request.                                                *)
LEMMA NoReqType == NoReq \in Requests
BY DEF NoReq, Requests

(* A fetch that moves on is still a fetch.                                 *)
LEMMA FetchingType ==
  ASSUME NEW by \in {"none", "poller", "handler"}, NEW old \in BOOLEAN,
         NEW got \in Readings \cup {NoReading}
  PROVE  Fetching(by, old, got) \in Fetches
BY DEF Fetching, Fetches

(* No fetch is a fetch.                                                    *)
LEMMA NoFetchType == NoFetch \in Fetches
BY FetchingType DEF NoFetch

(* Every account has a level, a balance and a sign-in from the start.      *)
LEMMA InitTypes == Init => TypeOK
<1>1. {} \in Memories
  BY FS_EmptySet, ResetAssumption DEF Memories
<1>2. NoGate \in Gates
  BY DEF NoGate, Gates
<1> QED
  BY <1>1, <1>2, NoReqType, NoFetchType, ResetAssumption DEF Init, TypeOK

(* Actions of the provider and of the account's owner keep the types.      *)
LEMMA ProviderTypes ==
  ASSUME TypeOK, Provider \/ \E a \in Account : Climb(a)
  PROVE  TypeOK'
<1>1. ASSUME NEW a \in Account, Cross(a) \/ Fall(a) \/ Climb(a)
      PROVE  TypeOK'
  <2>1. /\ level' \in [Account -> {"low", "near", "high"}]
        /\ spent' \in [Account -> Nat]
    <3>1. CASE Cross(a)
      BY <3>1 DEF TypeOK, Cross
    <3>2. CASE Fall(a)
      BY <3>2 DEF TypeOK, Fall
    <3>3. CASE Climb(a)
      BY <3>3 DEF TypeOK, Climb
    <3> QED
      BY <1>1, <3>1, <3>2, <3>3
  <2>2. UNCHANGED <<bank, inflight, cred, process>>
    BY <1>1 DEF Cross, Fall, Climb
  <2> QED
    BY <2>1, <2>2 DEF TypeOK, process
<1>2. ASSUME NEW r \in inflight, Redeem(r)
      PROVE  TypeOK'
  <2>1. bank' \in [Account -> 0..Bank] /\ spent' \in [Account -> Nat]
    <3>1. r.acc \in Account
      BY DEF TypeOK, Redemptions
    <3>2. CASE bank[r.acc] > 0
      <4>1. bank[r.acc] - 1 \in 0..Bank /\ spent[r.acc] + 1 \in Nat
        BY <3>1, <3>2, ResetAssumption DEF TypeOK
      <4> QED
        BY <1>2, <3>2, <4>1 DEF TypeOK, Redeem
    <3>3. CASE ~(bank[r.acc] > 0)
      BY <1>2, <3>3 DEF TypeOK, Redeem
    <3> QED
      BY <3>2, <3>3
  <2> QED
    BY <1>2, <2>1 DEF TypeOK, Redeem, process
<1>3. ASSUME NEW r \in inflight, Lose(r)
      PROVE  TypeOK'
  BY <1>3 DEF TypeOK, Lose, process
<1>4. ASSUME NEW s \in Server, NEW a \in Account \cup {NoAccount}, SignIn(s, a)
      PROVE  TypeOK'
  BY <1>4 DEF TypeOK, SignIn, provider, process
<1> QED
  BY <1>1, <1>2, <1>3, <1>4 DEF Provider

(* What a handler makes of the entry it waited for is a request.           *)
LEMMA HandlerGotType ==
  ASSUME TypeOK, NEW s \in Server, NEW eligible \in BOOLEAN, HandlerGot(s, eligible)
  PROVE  req' \in [Server -> Requests]
<1>1. Handling(s, "consume", TRUE) \in Requests
  BY HandlingType DEF TypeOK
<1> QED
  BY <1>1, NoReqType DEF TypeOK, HandlerGot

(* The poller's steps keep the types.                                      *)
LEMMA PollerTypes ==
  ASSUME TypeOK, NEW s \in Server,
         PollStart(s) \/ HandlerPoll(s) \/ FetchRead(s) \/ FetchEnd(s) \/ FetchFails(s)
  PROVE  TypeOK'
<1> USE DEF TypeOK
<1>1. CASE PollStart(s)
  <2>1. Fetching("poller", FALSE, NoReading) \in Fetches
    BY FetchingType
  <2> QED
    BY <1>1, <2>1 DEF PollStart, provider
<1>2. CASE HandlerPoll(s)
  <2>1. Fetching("handler", FALSE, NoReading) \in Fetches
    BY FetchingType
  <2>2. Handling(s, "polling", FALSE) \in Requests
    BY HandlingType
  <2> QED
    BY <1>2, <2>1, <2>2 DEF HandlerPoll, provider
<1>3. CASE FetchRead(s)
  <2>1. Reading(cred[s]) \in Readings
    BY <1>3 DEF FetchRead, Reading, Readings
  <2>2. Fetching(fetch[s].by, fetch[s].old, Reading(cred[s])) \in Fetches
    BY <2>1, FetchingType DEF Fetches
  <2> QED
    BY <1>3, <2>2 DEF FetchRead, provider
<1>4. CASE FetchEnd(s)
  <2>1. req' \in [Server -> Requests]
    BY <1>4, HandlerGotType DEF FetchEnd, EligibleForCodexReset
  <2>2. gate' \in [Server -> Gates]
    BY <1>4 DEF FetchEnd, Gates
  <2>3. fetch[s].got \in Readings \cup {NoReading}
    BY DEF Fetches
  <2> QED
    BY <1>4, <2>1, <2>2, <2>3, NoFetchType DEF FetchEnd, provider
<1>5. CASE FetchFails(s)
  <2>1. req' \in [Server -> Requests]
    BY <1>5, HandlerGotType DEF FetchFails
  <2> QED
    BY <1>5, <2>1, NoFetchType DEF FetchFails, provider
<1> QED
  BY <1>1, <1>2, <1>3, <1>4, <1>5

(* The handler's steps keep the types, and the bound on remembered ids.    *)
LEMMA HandlerTypes ==
  ASSUME TypeOK, HandlerOK, NEW s \in Server,
         \/ \E id \in Id, a \in Account : Accept(s, id, a)
         \/ Submit(s) \/ SubmitEnd(s) \/ Decline(s)
  PROVE  TypeOK'
<1> USE DEF TypeOK
<1>1. ASSUME NEW id \in Id, NEW a \in Account, Accept(s, id, a)
      PROVE  TypeOK'
  <2>1. \A st \in {"poll", "consume"} :
          [st |-> st, id |-> id, acc |-> a, fresh |-> FALSE] \in Requests
    BY DEF Requests
  <2>2. (IF id \in attempts[s] THEN "consume" ELSE "poll") \in {"poll", "consume"}
    OBVIOUS
  <2> QED
    BY <1>1, <2>1, <2>2 DEF Accept, provider
<1>2. CASE Submit(s)
  <2> DEFINE r == [at |-> s, id |-> req[s].id, acc |-> cred[s], for |-> req[s].acc]
             g == [id |-> req[s].id, acc |-> cred[s], seen |-> FALSE]
  <2>1. req[s].id \in Id /\ req[s].acc \in Account /\ cred[s] \in Account
    BY <1>2 DEF HandlerOK, Submit, Submittable, CredentialsMatch
  <2>2. attempts[s] \cup {req[s].id} \in Memories
    BY <1>2, <2>1, RememberOne DEF Submit, Submittable, Remembers
  <2>3. sent' \in [Server -> [Id -> Nat]]
    BY <1>2, <2>1 DEF Submit
  <2>4. r \in Redemptions /\ g \in Gates
    BY <2>1 DEF Redemptions, Gates
  <2>5. Fetching(fetch[s].by, fetch[s].by # "none", fetch[s].got) \in Fetches
    BY FetchingType DEF Fetches
  <2>6. Handling(s, "sent", req[s].fresh) \in Requests
    BY HandlingType DEF Requests
  <2> QED
    BY <1>2, <2>2, <2>3, <2>4, <2>5, <2>6 DEF Submit
<1>3. CASE SubmitEnd(s) \/ Decline(s)
  BY <1>3, NoReqType DEF SubmitEnd, Decline, provider
<1> QED
  BY <1>1, <1>2, <1>3

(* The request at work has an id and an account, and a handler's fetch     *)
(* belongs to the handler that waits for it.                               *)
LEMMA HandlerStep ==
  ASSUME TypeOK, HandlerOK, Next
  PROVE  HandlerOK'
<1> USE DEF TypeOK
<1>1. ASSUME Provider \/ \E a \in Account : Climb(a)
      PROVE  HandlerOK'
  BY <1>1 DEF Provider, Cross, Fall, Climb, Redeem, Lose, SignIn, process, HandlerOK
<1>2. ASSUME NEW s \in Server, UNCHANGED req, NEW old, NEW got,
             \/ /\ fetch[s].by = "none"
                /\ fetch' = [fetch EXCEPT ![s] = Fetching("poller", old, got)]
             \/ /\ fetch[s].by # "none"
                /\ fetch' = [fetch EXCEPT ![s] = Fetching(fetch[s].by, old, got)]
      PROVE  HandlerOK'
  <2>1. ASSUME NEW t \in Server
        PROVE  /\ fetch'[t].by = "handler" <=> fetch[t].by = "handler"
               /\ fetch'[t].by = "none" => fetch'[t] = fetch[t]
    BY <1>2 DEF Fetching
  <2> QED
    BY <1>2, <2>1 DEF HandlerOK
<1>3. ASSUME NEW s \in Server, PollStart(s) \/ FetchRead(s)
      PROVE  HandlerOK'
  BY <1>2, <1>3 DEF PollStart, FetchRead
<1>4. ASSUME NEW s \in Server, HandlerPoll(s)
      PROVE  HandlerOK'
  BY <1>4 DEF HandlerPoll, Fetching, Handling, HandlerOK
<1>5. ASSUME NEW s \in Server, NEW eligible \in BOOLEAN, HandlerGot(s, eligible),
             fetch' = [fetch EXCEPT ![s] = NoFetch]
      PROVE  HandlerOK'
  <2>1. CASE fetch[s].by # "handler"
    BY <1>5, <2>1 DEF HandlerGot, NoFetch, Fetching, HandlerOK
  <2>2. CASE fetch[s].by = "handler" /\ eligible
    BY <1>5, <2>2 DEF HandlerGot, Handling, NoFetch, Fetching, HandlerOK
  <2>3. CASE fetch[s].by = "handler" /\ ~eligible
    BY <1>5, <2>3 DEF HandlerGot, NoReq, NoFetch, Fetching, HandlerOK
  <2> QED
    BY <2>1, <2>2, <2>3
<1>6. ASSUME NEW s \in Server, FetchEnd(s) \/ FetchFails(s)
      PROVE  HandlerOK'
  BY <1>5, <1>6 DEF FetchEnd, FetchFails, EligibleForCodexReset
<1>7. ASSUME NEW s \in Server, NEW id \in Id, NEW a \in Account, Accept(s, id, a)
      PROVE  HandlerOK'
  BY <1>7 DEF Accept, HandlerOK
<1>8. ASSUME NEW s \in Server, Submit(s)
      PROVE  HandlerOK'
  BY <1>8 DEF Submit, Fetching, Handling, HandlerOK
<1>9. ASSUME NEW s \in Server, SubmitEnd(s) \/ Decline(s)
      PROVE  HandlerOK'
  <2>1. /\ req' = [req EXCEPT ![s] = NoReq] /\ UNCHANGED fetch
        /\ req[s].st # "polling"
    BY <1>9 DEF SubmitEnd, Decline
  <2> QED
    BY <2>1 DEF NoReq, HandlerOK
<1> QED
  BY <1>1, <1>3, <1>4, <1>6, <1>7, <1>8, <1>9 DEF Next, Serve

(* Ids at the gate are remembered, and remembered ids are not sent again.  *)
LEMMA AttemptsStep ==
  ASSUME TypeOK, HandlerOK, AttemptsOK, Next
  PROVE  AttemptsOK'
<1>1. ASSUME NEW s \in Server, Submit(s)
      PROVE  AttemptsOK'
  <2>1. req[s].id \in Id /\ req[s].id \notin attempts[s]
    BY <1>1 DEF HandlerOK, Submit, Submittable, AlreadyAttempted
  <2>2. sent[s][req[s].id] <= 0 /\ sent[s][req[s].id] \in Nat
    BY <2>1 DEF AttemptsOK, TypeOK
  <2>3. ASSUME NEW t \in Server, NEW id \in Id
        PROVE  sent'[t][id] <= IF id \in attempts'[t] THEN 1 ELSE 0
    <3>1. CASE t = s /\ id = req[s].id
      <4>1. sent'[t][id] = sent[s][req[s].id] + 1 /\ id \in attempts'[t]
        BY <1>1, <2>1, <3>1 DEF Submit, TypeOK
      <4> QED
        BY <2>2, <4>1
    <3>2. CASE ~(t = s /\ id = req[s].id)
      <4>1. sent'[t][id] = sent[t][id] /\ (id \in attempts'[t] <=> id \in attempts[t])
        BY <1>1, <2>1, <3>2 DEF Submit, TypeOK
      <4> QED
        BY <4>1 DEF AttemptsOK
    <3> QED
      BY <3>1, <3>2
  <2>4. ASSUME NEW t \in Server, gate'[t].id # NoId
        PROVE  gate'[t].id \in attempts'[t]
    BY <1>1, <2>4 DEF Submit, TypeOK, AttemptsOK
  <2> QED
    BY <2>3, <2>4 DEF AttemptsOK
<1>2. ASSUME NEW s \in Server, FetchEnd(s)
      PROVE  AttemptsOK'
  BY <1>2 DEF FetchEnd, TypeOK, AttemptsOK
<1>3. ASSUME UNCHANGED <<attempts, gate, sent>>
      PROVE  AttemptsOK'
  BY <1>3 DEF AttemptsOK
<1>4. ASSUME NEW s \in Server,
             \/ PollStart(s) \/ HandlerPoll(s) \/ FetchRead(s) \/ FetchFails(s)
             \/ SubmitEnd(s) \/ Decline(s) \/ \E id \in Id, a \in Account : Accept(s, id, a)
      PROVE  UNCHANGED <<attempts, gate, sent>>
  BY <1>4 DEF PollStart, HandlerPoll, FetchRead, FetchFails, SubmitEnd, Decline, Accept
<1>5. ASSUME Provider \/ \E a \in Account : Climb(a)
      PROVE  UNCHANGED <<attempts, gate, sent>>
  BY <1>5 DEF Provider, Cross, Fall, Climb, Redeem, Lose, SignIn, process
<1> QED
  BY <1>1, <1>2, <1>3, <1>4, <1>5 DEF Next, Serve

(* Only Submit puts a redemption on its way, for the confirmed account.    *)
LEMMA ConfirmedStep ==
  ASSUME SpendsConfirmedAccount, Next
  PROVE  SpendsConfirmedAccount'
<1>1. ASSUME NEW s \in Server, Submit(s)
      PROVE  SpendsConfirmedAccount'
  BY <1>1 DEF Submit, Submittable, CredentialsMatch, SpendsConfirmedAccount
<1>2. ASSUME inflight' \subseteq inflight
      PROVE  SpendsConfirmedAccount'
  BY <1>2 DEF SpendsConfirmedAccount
<1>3. ASSUME Provider \/ \E a \in Account : Climb(a)
      PROVE  inflight' \subseteq inflight
  BY <1>3 DEF Provider, Cross, Fall, Climb, Redeem, Lose, SignIn, provider
<1>4. ASSUME NEW s \in Server,
             \/ PollStart(s) \/ HandlerPoll(s) \/ FetchRead(s) \/ FetchEnd(s)
             \/ FetchFails(s) \/ SubmitEnd(s) \/ Decline(s)
             \/ \E id \in Id, a \in Account : Accept(s, id, a)
      PROVE  inflight' \subseteq inflight
  BY <1>4 DEF PollStart, HandlerPoll, FetchRead, FetchEnd, FetchFails, SubmitEnd,
              Decline, Accept, provider
<1> QED
  BY <1>1, <1>2, <1>3, <1>4 DEF Next, Serve

(* The invariant of the server processes is inductive.                     *)
LEMMA ProcessInductive == Spec => [](ProcessInv /\ HandlerOK)
<1>1. Init => ProcessInv /\ HandlerOK
  BY InitTypes DEF Init, ProcessInv, AttemptsOK, SpendsConfirmedAccount, HandlerOK,
                   NoGate, NoReq, NoFetch, Fetching
<1>2. ProcessInv /\ HandlerOK /\ [Next]_vars => (ProcessInv /\ HandlerOK)'
  <2> SUFFICES ASSUME ProcessInv, HandlerOK, [Next]_vars
               PROVE  (ProcessInv /\ HandlerOK)'
    OBVIOUS
  <2>1. CASE Next
    <3>1. TypeOK'
      BY <2>1, ProviderTypes, PollerTypes, HandlerTypes DEF Next, Serve, ProcessInv
    <3> QED
      BY <2>1, <3>1, HandlerStep, AttemptsStep, ConfirmedStep DEF ProcessInv
  <2>2. CASE UNCHANGED vars
    BY <2>2 DEF vars, provider, process, ProcessInv, TypeOK, AttemptsOK,
                SpendsConfirmedAccount, HandlerOK
  <2> QED
    BY <2>1, <2>2
<1> QED
  BY <1>1, <1>2, PTL DEF Spec

(* Types, and never more than MaxRemembered ids in a process.              *)
THEOREM ResetTypeCorrect == Spec => []TypeOK
<1>1. ProcessInv => TypeOK
  BY DEF ProcessInv
<1> QED
  BY <1>1, ProcessInductive, PTL

(* No server process submits an id twice, for any number of servers,       *)
(* accounts and ids, and any bound on what it remembers.                   *)
THEOREM AtMostOneSubmission == Spec => []SubmittedOnce
<1>1. ProcessInv => SubmittedOnce
  <2> SUFFICES ASSUME ProcessInv, NEW s \in Server, NEW id \in Id
               PROVE  sent[s][id] <= 1
    BY DEF SubmittedOnce
  <2>1. sent[s][id] \in Nat /\ sent[s][id] <= IF id \in attempts[s] THEN 1 ELSE 0
    BY DEF ProcessInv, AttemptsOK, TypeOK
  <2> QED
    BY <2>1
<1> QED
  BY <1>1, ProcessInductive, PTL

(* Every redemption on its way is for the account the user confirmed.      *)
THEOREM ConfirmedAccountOnly == Spec => []SpendsConfirmedAccount
<1>1. ProcessInv => SpendsConfirmedAccount
  BY DEF ProcessInv
<1> QED
  BY <1>1, ProcessInductive, PTL

(***************************************************************************)
(* One server: at most one credit per episode.                             *)
(***************************************************************************)
LEMMA ProviderSpend ==
  ASSUME TypeOK, SpendInv, Provider \/ \E a \in Account : Climb(a)
  PROVE  SpendInv'
<1> USE DEF TypeOK
<1>1. ASSUME NEW b \in Account, Cross(b)
      PROVE  SpendInv'
  <2>1. ~Flying(b)
    BY <1>1 DEF Cross, Flying, SpendInv, OneFlying
  <2>2. /\ level' = [level EXCEPT ![b] = "high"] /\ spent' = [spent EXCEPT ![b] = 0]
        /\ UNCHANGED <<inflight, fetch, req, gate>>
    BY <1>1 DEF Cross, process
  <2>3. NoSecondSpend' /\ OneFlying' /\ HandlerOK' /\ PollingOpen'
    BY <2>1, <2>2 DEF SpendInv, NoSecondSpend, OneFlying, HandlerOK, PollingOpen,
                      Polling, Pending, Flying, Redemptions
  <2>4. GateCloses'
    BY <2>1, <2>2 DEF SpendInv, GateCloses, Pending, Flying
  <2>5. ReadingProves'
    BY <2>1, <2>2 DEF SpendInv, ReadingProves, Observes, Pending, Flying
  <2>6. Unspent'
    BY <2>1, <2>2 DEF SpendInv, Unspent, Exhausted, Flying
  <2> QED
    BY <2>3, <2>4, <2>5, <2>6 DEF SpendInv
<1>2. ASSUME NEW b \in Account, Fall(b)
      PROVE  SpendInv'
  <2>1. /\ level' = [level EXCEPT ![b] = "low"]
        /\ UNCHANGED <<spent, inflight, fetch, req, gate>>
    BY <1>2 DEF Fall, process
  <2>2. NoSecondSpend' /\ OneFlying' /\ HandlerOK' /\ PollingOpen'
    BY <2>1 DEF SpendInv, NoSecondSpend, OneFlying, HandlerOK, PollingOpen,
                Polling, Pending, Redemptions
  <2>3. GateCloses'
    BY <2>1 DEF SpendInv, GateCloses, Pending, Flying
  <2>4. ReadingProves'
    BY <2>1 DEF SpendInv, ReadingProves, Observes, Pending, Flying
  <2>5. Unspent'
    BY <2>1 DEF SpendInv, Unspent, Exhausted, Flying
  <2> QED
    BY <2>2, <2>3, <2>4, <2>5 DEF SpendInv
<1>3. ASSUME NEW b \in Account, Climb(b)
      PROVE  SpendInv'
  <2>1. /\ level' = [level EXCEPT ![b] = "near"]
        /\ UNCHANGED <<spent, inflight, fetch, req, gate>>
        /\ ~Flying(b) /\ \A s \in Server : req[s].acc # b
    BY <1>3 DEF Climb, process, Underway, Flying
  <2>2. NoSecondSpend' /\ OneFlying' /\ HandlerOK' /\ PollingOpen'
    BY <2>1 DEF SpendInv, NoSecondSpend, OneFlying, HandlerOK, PollingOpen,
                Polling, Pending, Redemptions, Flying
  <2>3. GateCloses'
    BY <2>1 DEF SpendInv, GateCloses, Pending, Flying
  <2>4. ReadingProves'
    BY <2>1 DEF SpendInv, ReadingProves, Observes, Pending, Flying
  <2>5. Unspent'
    BY <2>1 DEF SpendInv, Unspent, Exhausted, Flying
  <2> QED
    BY <2>2, <2>3, <2>4, <2>5 DEF SpendInv
<1>4. ASSUME NEW q \in inflight, Redeem(q) \/ Lose(q)
      PROVE  SpendInv'
  <2>1. q.acc \in Account /\ Flying(q.acc) /\ spent[q.acc] = 0
    BY DEF SpendInv, OneFlying, Redemptions, Flying
  <2>2. /\ inflight' = inflight \ {q}
        /\ spent' = spent \/ spent' = [spent EXCEPT ![q.acc] = 1]
        /\ UNCHANGED <<level, fetch, req, gate>>
    BY <1>4, <2>1 DEF Redeem, Lose, process
  <2>3. \A a \in Account : Flying(a)' => Flying(a) /\ a # q.acc
    BY <2>2 DEF Flying, SpendInv, OneFlying
  <2>4. \A a \in Account : spent'[a] = spent[a] \/ (a = q.acc /\ spent'[a] = 1)
    BY <2>1, <2>2
  <2>5. NoSecondSpend'
    BY <2>4 DEF SpendInv, NoSecondSpend
  <2>6. HandlerOK' /\ PollingOpen'
    BY <2>2 DEF SpendInv, HandlerOK, PollingOpen, Polling, Pending
  <2>7. OneFlying'
    BY <2>2, <2>4 DEF SpendInv, OneFlying, Redemptions
  <2>8. GateCloses'
    BY <2>1, <2>2, <2>3, <2>4 DEF SpendInv, GateCloses, Pending
  <2>9. ReadingProves'
    <3> SUFFICES ASSUME NEW s \in Server, fetch[s].got # NoReading, Pending(s),
                        Observes(s, fetch[s].got), level[fetch[s].got.acc] = "high"
                 PROVE  spent'[fetch[s].got.acc] = 0 /\ ~Flying(fetch[s].got.acc)'
      BY <2>2 DEF ReadingProves, Pending, Observes
    <3>1. fetch[s].got.acc \in Account
      BY DEF Fetches, Readings
    <3>2. spent[fetch[s].got.acc] = 0 /\ ~Flying(fetch[s].got.acc)
      BY DEF SpendInv, ReadingProves
    <3>3. fetch[s].got.acc # q.acc
      BY <2>1, <3>2
    <3>4. spent'[fetch[s].got.acc] = spent[fetch[s].got.acc]
      BY <2>4, <3>1, <3>3
    <3>5. ~Flying(fetch[s].got.acc)'
      BY <2>2, <3>2 DEF Flying
    <3> QED
      BY <3>2, <3>4, <3>5
  <2>10. Unspent'
    BY <2>1, <2>2, <2>3, <2>4 DEF SpendInv, Unspent, Exhausted
  <2> QED
    BY <2>5, <2>6, <2>7, <2>8, <2>9, <2>10 DEF SpendInv
<1>5. ASSUME UNCHANGED <<level, spent, inflight, fetch, req, gate>>
      PROVE  SpendInv'
  BY <1>5 DEF SpendInv, NoSecondSpend, GateCloses, ReadingProves, PollingOpen, Unspent,
              OneFlying, HandlerOK, Flying, Pending, Polling, Exhausted, Observes
<1>6. ASSUME NEW s \in Server, NEW a \in Account \cup {NoAccount}, SignIn(s, a)
      PROVE  SpendInv'
  BY <1>5, <1>6 DEF SignIn, provider, process
<1> QED
  BY <1>1, <1>2, <1>3, <1>4, <1>6 DEF Provider

(* What a reading says.                                                    *)
LEMMA ReadingFields ==
  ASSUME NEW a
  PROVE  /\ Reading(a).acc = a
         /\ Reading(a).high <=> level[a] = "high"
BY DEF Reading

(* The poller's steps: a reading that may open the gate was taken after    *)
(* the submission, and the handler's own finds the gate open.              *)
LEMMA PollerSpend ==
  ASSUME TypeOK, SpendInv, HandlerOK', NEW s \in Server,
         PollStart(s) \/ HandlerPoll(s) \/ FetchRead(s) \/ FetchEnd(s) \/ FetchFails(s)
  PROVE  SpendInv'
<1> USE DEF TypeOK
<1>1. UNCHANGED <<level, spent, inflight>>
  BY DEF PollStart, HandlerPoll, FetchRead, FetchEnd, FetchFails, provider
<1>2. NoSecondSpend' /\ OneFlying'
  BY <1>1 DEF SpendInv, NoSecondSpend, OneFlying
<1>3. CASE PollStart(s) \/ HandlerPoll(s)
  <2>1. UNCHANGED gate /\ fetch'[s].got = NoReading
        /\ \A t \in Server \ {s} : fetch'[t] = fetch[t] /\ req'[t] = req[t]
    <3>1. CASE PollStart(s)
      BY <3>1 DEF PollStart, Fetching
    <3>2. CASE HandlerPoll(s)
      BY <3>2 DEF HandlerPoll, Fetching
    <3> QED
      BY <1>3, <3>1, <3>2
  <2>2. Polling(s)' => Polling(s)
    BY <1>3 DEF PollStart, HandlerPoll, Handling, Polling
  <2>3. Exhausted(s)' => Exhausted(s) /\ req'[s].acc = req[s].acc
    BY <1>3 DEF PollStart, HandlerPoll, Handling, Fetching, Exhausted
  <2>4. GateCloses'
    BY <1>1, <2>1 DEF SpendInv, GateCloses, Pending, Flying
  <2>5. ReadingProves'
    BY <1>1, <2>1 DEF SpendInv, ReadingProves, Pending, Observes, Flying
  <2>6. PollingOpen'
    BY <2>1, <2>2 DEF SpendInv, PollingOpen, Pending, Polling
  <2>7. Unspent'
    BY <1>1, <2>1, <2>3 DEF SpendInv, Unspent, Exhausted, Flying
  <2> QED
    BY <1>2, <2>4, <2>5, <2>6, <2>7 DEF SpendInv
<1>4. CASE FetchRead(s)
  <2>1. /\ UNCHANGED <<gate, req>> /\ cred[s] \in Account
        /\ fetch'[s] = Fetching(fetch[s].by, fetch[s].old, Reading(cred[s]))
        /\ \A t \in Server \ {s} : fetch'[t] = fetch[t]
    BY <1>4 DEF FetchRead
  <2>2. GateCloses' /\ PollingOpen'
    BY <1>1, <2>1 DEF SpendInv, GateCloses, PollingOpen, Pending, Polling, Flying
  <2>3. ReadingProves'
    <3> SUFFICES ASSUME NEW t \in Server, fetch'[t].got # NoReading, Pending(t),
                        Observes(t, fetch[t].got)', level[fetch'[t].got.acc] = "high"
                 PROVE  spent[fetch'[t].got.acc] = 0 /\ ~Flying(fetch'[t].got.acc)
      BY <1>1, <2>1 DEF ReadingProves, Pending, Observes, Flying
    <3>1. CASE t = s
      <4>1. fetch'[s].got = Reading(cred[s])
        BY <2>1 DEF Fetching
      <4>2. level[cred[s]] # "high"
        <5>1. ~fetch'[s].got.high
          BY <3>1 DEF Observes
        <5> QED
          BY <4>1, <5>1, ReadingFields
      <4> QED
        BY <3>1, <4>1, <4>2, ReadingFields
    <3>2. CASE t # s
      <4>1. fetch'[t] = fetch[t] /\ Observes(t, fetch[t].got)
        BY <2>1, <3>2 DEF Observes
      <4> QED
        BY <4>1 DEF SpendInv, ReadingProves
    <3> QED
      BY <3>1, <3>2
  <2>4. Unspent'
    <3> SUFFICES ASSUME NEW t \in Server, Exhausted(t)'
                 PROVE  /\ req[t].acc \in Account
                        /\ spent[req[t].acc] = 0 /\ ~Flying(req[t].acc)
                        /\ level[req[t].acc] # "near"
      BY <1>1, <2>1 DEF Unspent, Flying
    <3>1. CASE Exhausted(t)
      BY <3>1 DEF SpendInv, Unspent
    <3>2. CASE ~Exhausted(t)
      <4>1. t = s /\ req[s].st = "polling" /\ level[cred[s]] = "high"
            /\ cred[s] = req[s].acc
        <5>1. t = s
          BY <2>1, <3>2 DEF Exhausted
        <5>2. fetch'[s].got = Reading(cred[s])
          BY <2>1 DEF Fetching
        <5>3. req[s].st = "polling" /\ fetch'[s].got.high /\ fetch'[s].got.acc = req[s].acc
          BY <2>1, <3>2, <5>1 DEF Exhausted
        <5> QED
          BY <5>1, <5>2, <5>3, ReadingFields
      <4>2. ~Pending(s)
        BY <4>1 DEF SpendInv, PollingOpen, Polling
      <4>3. ~(spent[cred[s]] > 0) /\ ~Flying(cred[s])
        BY <2>1, <4>1, <4>2 DEF SpendInv, GateCloses
      <4>4. spent[cred[s]] = 0
        BY <2>1, <4>3
      <4> QED
        BY <2>1, <4>1, <4>3, <4>4
    <3> QED
      BY <3>1, <3>2
  <2> QED
    BY <1>2, <2>2, <2>3, <2>4 DEF SpendInv
<1>5. CASE FetchEnd(s) \/ FetchFails(s)
  <2> DEFINE r == fetch[s].got
  <2>1. /\ fetch' = [fetch EXCEPT ![s] = NoFetch]
        /\ \/ /\ r # NoReading
              /\ gate' = [gate EXCEPT ![s] = [id |-> gate[s].id, acc |-> gate[s].acc,
                                              seen |-> gate[s].seen \/ Observes(s, r)]]
           \/ gate' = gate
        /\ \/ HandlerGot(s, EligibleForCodexReset(s, r)) /\ r # NoReading
           \/ HandlerGot(s, FALSE)
    <3>1. CASE FetchEnd(s)
      BY <3>1 DEF FetchEnd
    <3>2. CASE FetchFails(s)
      BY <3>2 DEF FetchFails
    <3> QED
      BY <1>5, <3>1, <3>2
  <2>2. fetch'[s].got = NoReading /\ \A t \in Server \ {s} : fetch'[t] = fetch[t]
    BY <2>1 DEF NoFetch, Fetching
  <2>3. /\ gate'[s].id = gate[s].id /\ gate'[s].acc = gate[s].acc
        /\ gate'[s].seen => gate[s].seen \/ (r # NoReading /\ Observes(s, r))
        /\ gate[s].seen => gate'[s].seen
        /\ \A t \in Server \ {s} : gate'[t] = gate[t]
    <3>1. CASE gate' = gate
      BY <3>1
    <3>2. CASE gate' # gate
      <4> DEFINE g == [id |-> gate[s].id, acc |-> gate[s].acc,
                       seen |-> gate[s].seen \/ Observes(s, r)]
      <4>1. g.id = gate[s].id /\ g.acc = gate[s].acc
            /\ (g.seen <=> gate[s].seen \/ Observes(s, r))
        OBVIOUS
      <4>2. gate' = [gate EXCEPT ![s] = g] /\ r # NoReading
        BY <2>1, <3>2
      <4> QED
        BY <4>1, <4>2
    <3> QED
      BY <3>1, <3>2
  <2>4. /\ Pending(s) /\ ~Pending(s)' => r # NoReading /\ Observes(s, r)
        /\ Pending(s)' => Pending(s)
    BY <2>3 DEF Pending
  <2>5. \A t \in Server \ {s} : Pending(t)' <=> Pending(t)
    BY <2>3 DEF Pending
  <2>7. \A t \in Server \ {s} : req'[t] = req[t]
    BY <2>1 DEF HandlerGot
  <2>8. Polling(s)' => Polling(s)
    BY <2>1 DEF HandlerGot, Handling, NoReq, Polling, SpendInv, HandlerOK
  <2>9. Exhausted(s)' => Exhausted(s) /\ req'[s].acc = req[s].acc
    BY <2>1, <2>2 DEF HandlerGot, EligibleForCodexReset, Handling, NoReq, Exhausted,
                      SpendInv, HandlerOK
  <2>10. GateCloses'
    <3> SUFFICES ASSUME NEW t \in Server, NEW a \in Account, level[a] = "high",
                        spent[a] > 0 \/ Flying(a)
                 PROVE  Pending(t)' /\ gate'[t].acc = a
      BY <1>1 DEF GateCloses, Flying
    <3>1. Pending(t) /\ gate[t].acc = a
      BY DEF SpendInv, GateCloses
    <3>2. CASE t = s /\ ~Pending(s)'
      <4>1. fetch[s].got # NoReading /\ Observes(s, fetch[s].got) /\ fetch[s].got.acc = a
        BY <2>4, <3>1, <3>2 DEF Observes
      <4>2. spent[a] = 0 /\ ~Flying(a)
        BY <3>1, <3>2, <4>1 DEF SpendInv, ReadingProves
      <4> QED
        BY <4>2
    <3> QED
      BY <2>3, <2>5, <3>1, <3>2
  <2>11. ReadingProves'
    BY <1>1, <2>2, <2>3 DEF SpendInv, ReadingProves, Pending, Observes, Flying
  <2>12. PollingOpen'
    BY <2>4, <2>5, <2>7, <2>8 DEF SpendInv, PollingOpen, Polling
  <2>13. Unspent'
    BY <1>1, <2>2, <2>7, <2>9 DEF SpendInv, Unspent, Exhausted, Flying
  <2> QED
    BY <1>2, <2>10, <2>11, <2>12, <2>13 DEF SpendInv
<1> QED
  BY <1>3, <1>4, <1>5

(* The handler's steps; with another server this is where it would fail:   *)
(* a submission closes the gate of its own server only.                    *)
LEMMA HandlerSpend ==
  ASSUME TypeOK, AttemptsOK, SpendInv, HandlerOK', \A s, t \in Server : s = t,
         NEW s \in Server,
         \/ \E id \in Id, a \in Account : Accept(s, id, a)
         \/ Submit(s) \/ SubmitEnd(s) \/ Decline(s)
  PROVE  SpendInv'
<1> USE DEF TypeOK
<1>1. ASSUME NEW id \in Id, NEW a \in Account, Accept(s, id, a)
      PROVE  SpendInv'
  <2>1. UNCHANGED <<level, spent, inflight, fetch, gate>>
    BY <1>1 DEF Accept, provider
  <2>2. Polling(s)' => ~Pending(s)
    BY <1>1 DEF Accept, Blocked, Polling, Pending
  <2>3. ~Exhausted(s)'
    BY <1>1 DEF Accept, Exhausted
  <2>4. NoSecondSpend' /\ OneFlying' /\ GateCloses' /\ ReadingProves'
    BY <2>1 DEF SpendInv, NoSecondSpend, OneFlying, GateCloses, ReadingProves,
                Flying, Pending, Observes
  <2>5. PollingOpen' /\ Unspent'
    BY <2>1, <2>2, <2>3 DEF PollingOpen, Unspent, Pending
  <2> QED
    BY <2>4, <2>5 DEF SpendInv
<1>2. CASE SubmitEnd(s) \/ Decline(s)
  <2>1. UNCHANGED <<level, spent, inflight, fetch, gate>>
    BY <1>2 DEF SubmitEnd, Decline, provider
  <2>2. ~Polling(s)' /\ ~Exhausted(s)'
    BY <1>2 DEF SubmitEnd, Decline, NoReq, Polling, Exhausted
  <2>3. NoSecondSpend' /\ OneFlying' /\ GateCloses' /\ ReadingProves'
    BY <2>1 DEF SpendInv, NoSecondSpend, OneFlying, GateCloses, ReadingProves,
                Flying, Pending, Observes
  <2>4. PollingOpen' /\ Unspent'
    BY <2>2 DEF PollingOpen, Unspent
  <2> QED
    BY <2>3, <2>4 DEF SpendInv
<1>3. CASE Submit(s)
  <2> DEFINE acc == req[s].acc
             r   == [at |-> s, id |-> req[s].id, acc |-> cred[s], for |-> acc]
  <2>1. UNCHANGED <<level, spent>> /\ cred[s] = acc
    BY <1>3 DEF Submit, Submittable, CredentialsMatch
  <2>2. Exhausted(s) /\ gate[s].id # req[s].id /\ ~Pending(s)
    <3>1. req[s].id \notin attempts[s] /\ req[s].id \in Id
      BY <1>3 DEF Submit, Submittable, AlreadyAttempted, SpendInv, HandlerOK
    <3>2. gate[s].id # req[s].id
      BY <3>1, ResetAssumption DEF AttemptsOK
    <3> QED
      BY <1>3, <3>2 DEF Submit, Submittable, FreshlyPolled, GateOpen, Exhausted, Pending
  <2>3. acc \in Account /\ spent[acc] = 0 /\ ~Flying(acc) /\ level[acc] # "near"
    BY <2>2 DEF SpendInv, Unspent
  <2>4. inflight' = inflight \cup {r} /\ r.acc = acc
    BY <1>3, <2>1 DEF Submit
  <2>5. gate'[s].id = req[s].id /\ gate'[s].acc = acc /\ gate'[s].seen = FALSE
    BY <1>3, <2>1 DEF Submit
  <2>6. req[s].id # NoId
    BY <1>3, ResetAssumption DEF Submit, SpendInv, HandlerOK
  <2>7. fetch[s].got # NoReading => fetch[s].by # "none"
    BY DEF SpendInv, HandlerOK
  <2>8. NoSecondSpend' /\ OneFlying'
    BY <2>1, <2>3, <2>4 DEF SpendInv, NoSecondSpend, OneFlying, Flying
  <2>9. GateCloses'
    <3> SUFFICES ASSUME NEW a \in Account, level[a] = "high", spent[a] > 0 \/ Flying(a)'
                 PROVE  Pending(s)' /\ gate'[s].acc = a
      BY <2>1 DEF GateCloses, Flying
    <3>1. a = acc
      BY <2>2, <2>4 DEF SpendInv, GateCloses, Flying
    <3> QED
      BY <2>5, <2>6, <3>1 DEF Pending
  <2>10. ReadingProves'
    <3>1. fetch'[s].got # NoReading => fetch'[s].old
      BY <1>3, <2>7 DEF Submit, Fetching
    <3> QED
      BY <3>1 DEF ReadingProves, Observes
  <2>11. ~Polling(s)' /\ ~Exhausted(s)'
    BY <1>3 DEF Submit, Handling, Polling, Exhausted
  <2>12. PollingOpen' /\ Unspent'
    BY <2>11 DEF PollingOpen, Unspent
  <2> QED
    BY <2>8, <2>9, <2>10, <2>12 DEF SpendInv
<1> QED
  BY <1>1, <1>2, <1>3

(* With one server an account loses at most one credit each time its usage *)
(* has risen to 95%, for any number of accounts, ids and credits.          *)
THEOREM AtMostOneSpend ==
  ASSUME \A s, t \in Server : s = t
  PROVE  Spec => []NoSecondSpend
<1>1. Init => SpendInv
  <2> SUFFICES ASSUME Init
               PROVE  SpendInv
    OBVIOUS
  <2> QED
    BY DEF Init, SpendInv, NoSecondSpend, GateCloses, ReadingProves, PollingOpen, Unspent,
           OneFlying, HandlerOK, Flying, Pending, Polling, Exhausted, NoFetch, Fetching,
           NoReq, NoGate
<1>2. ProcessInv /\ (ProcessInv /\ HandlerOK)' /\ SpendInv /\ [Next]_vars => SpendInv'
  <2> SUFFICES ASSUME ProcessInv, HandlerOK', SpendInv, [Next]_vars
               PROVE  SpendInv'
    OBVIOUS
  <2>1. CASE Next
    BY <2>1, ProviderSpend, PollerSpend, HandlerSpend DEF Next, Serve, ProcessInv
  <2>2. CASE UNCHANGED vars
    BY <2>2 DEF vars, provider, process, SpendInv, NoSecondSpend, GateCloses,
                ReadingProves, PollingOpen, Unspent, OneFlying, HandlerOK, Flying,
                Pending, Polling, Exhausted, Observes
  <2> QED
    BY <2>1, <2>2
<1>3. SpendInv => NoSecondSpend
  BY DEF SpendInv
<1> QED
  BY <1>1, <1>2, <1>3, ProcessInductive, PTL DEF Spec

-----------------------------------------------------------------------------
(***************************************************************************)
(* The desktop.                                                            *)
(***************************************************************************)

(***************************************************************************)
(* The invariant behind LatchHolds and NoSecondSpend.                      *)
(***************************************************************************)
High(r, a) == r # NoReading /\ r.acc = a /\ r.high
Low(r, a)  == r # NoReading /\ r.acc = a /\ ~r.high

Posted(a) == \E p \in posts : p.acc = a
Asked(a)  == \E s \in Server : req[s].acc = a /\ req[s].st # "sent"

(* A press of the button still counts: it is on its way, at the handler or *)
(* at the provider, or it has been redeemed since usage rose to 95%.       *)
Active(a) == Posted(a) \/ Underway(a) \/ spent[a] > 0

(* One press at a time, in one place at a time.                            *)
OnePress(a) ==
  /\ spent[a] <= 1
  /\ \A p, q \in posts : p.acc = a /\ q.acc = a => p = q
  /\ \A r, q \in inflight : r.acc = a /\ q.acc = a => r = q
  /\ Posted(a) => ~Underway(a) /\ spent[a] = 0
  /\ Asked(a) => ~Flying(a) /\ spent[a] = 0
  /\ Flying(a) => spent[a] = 0

NoneHigh(a) ==
  ~High(shown, a) /\ \A s \in Server : ~High(cache[s], a) /\ ~High(fetch[s].got, a)

(* Just below 95%, nothing is left of an earlier rise.                     *)
NearOK(a) == level[a] = "near" => ~Posted(a) /\ ~Underway(a) /\ NoneHigh(a)

(* At 95%, the receipt guards a press; a reading that would remove it is   *)
(* older than the rise, and then so is all that the button knows.          *)
HighOK(a) ==
  level[a] = "high" =>
    /\ Active(a) => receipt[a] # NoId
    /\ \A s \in Server :
         /\ Low(cache[s], a) \/ Low(fetch[s].got, a) => ~Active(a) /\ ~High(shown, a)
         /\ Low(fetch[s].got, a) => ~High(cache[s], a)

(* After a fall, a press without its receipt means that no reading from    *)
(* before the fall is left to offer another.                               *)
LowOK(a) ==
  level[a] = "low" =>
    /\ Active(a) /\ receipt[a] = NoId => NoneHigh(a)
    /\ \A s \in Server :
         Low(cache[s], a) /\ High(fetch[s].got, a) => ~Active(a) /\ ~High(shown, a)

LatchInv == \A a \in Account : OnePress(a) /\ NearOK(a) /\ HighOK(a) /\ LowOK(a)

(***************************************************************************)
(* Types, of the servers and of the desktop.                               *)
(***************************************************************************)

(* A restarted server has the types of one that starts.                    *)
LEMMA RestartTypes ==
  ASSUME TypeOK, HandlerOK, NEW s \in Server, Restart(s)
  PROVE  TypeOK' /\ HandlerOK'
<1>1. {} \in Memories
  BY FS_EmptySet, ResetAssumption DEF Memories
<1>2. NoGate \in Gates
  BY DEF NoGate, Gates
<1>3. TypeOK'
  BY <1>1, <1>2, NoReqType, NoFetchType DEF Restart, TypeOK, provider
<1>4. HandlerOK'
  BY DEF Restart, HandlerOK, TypeOK, NoReq, NoFetch, Fetching
<1> QED
  BY <1>3, <1>4

(* What the provider and the servers do on their own keeps the types.      *)
LEMMA ServersTypes ==
  ASSUME TypeOK, HandlerOK, Servers
  PROVE  TypeOK' /\ HandlerOK'
<1>1. CASE Provider \/ (\E a \in Account : Climb(a)) \/ \E s \in Server : Serve(s)
  <2>1. Next
    BY <1>1 DEF Next
  <2>2. TypeOK'
    BY <1>1, ProviderTypes, PollerTypes, HandlerTypes DEF Serve
  <2> QED
    BY <2>1, <2>2, HandlerStep
<1>2. CASE \E s \in Server : Restart(s)
  BY <1>2, RestartTypes
<1> QED
  BY <1>1, <1>2 DEF Servers

(* A desktop's request that a server takes on keeps the types.             *)
LEMMA DeliverTypes ==
  ASSUME DesktopTypeOK, HandlerOK, NEW p \in posts, Deliver(p)
  PROVE  DesktopTypeOK' /\ HandlerOK'
<1>1. p.at \in Server /\ p.id \in Id /\ p.acc \in Account
  BY DEF DesktopTypeOK
<1>2. Accept(p.at, p.id, p.acc)
  BY DEF Deliver
<1>3. Next
  BY <1>1, <1>2 DEF Next
<1>4. TypeOK /\ TypeOK'
  BY <1>1, <1>2, HandlerTypes DEF DesktopTypeOK
<1>5. HandlerOK'
  BY <1>3, <1>4, HandlerStep
<1>6. /\ posts' \subseteq posts
      /\ UNCHANGED <<sel, shown, confirm, busy, receipt, used>>
  BY DEF Deliver
<1> QED
  BY <1>4, <1>5, <1>6 DEF DesktopTypeOK

(* The desktop's own steps leave the servers alone and keep its types.     *)
LEMMA DesktopTypes ==
  ASSUME DesktopTypeOK, HandlerOK,
         \/ Refresh \/ PrepareChatGptReset \/ CancelConfirmation
         \/ ConsumeChatGptReset \/ ReplyFinished \/ AppRestart
         \/ \E s \in Server : SaveSettings(s)
         \/ \E p \in posts : LosePost(p)
  PROVE  DesktopTypeOK' /\ HandlerOK' /\ UNCHANGED vars
<1>1. UNCHANGED vars
  BY DEF Refresh, PrepareChatGptReset, CancelConfirmation, ConsumeChatGptReset,
         ReplyFinished, AppRestart, SaveSettings, LosePost
<1>2. TypeOK' /\ HandlerOK'
  BY <1>1 DEF vars, provider, process, DesktopTypeOK, TypeOK, HandlerOK
<1>3. CASE Refresh
  <2>1. shown' \in Readings \cup {NoReading}
    BY <1>3 DEF Refresh, DesktopTypeOK, TypeOK
  <2> QED
    BY <1>1, <1>2, <1>3, <2>1 DEF Refresh, DesktopTypeOK
<1>4. CASE PrepareChatGptReset
  <2>1. ResetConnectionIdentity \in [at : Server, acc : Account] /\ ~busy
    BY <1>4 DEF PrepareChatGptReset, ChatGptResetEligible, ResetConnectionIdentity,
                DesktopTypeOK, Readings
  <2> QED
    BY <1>1, <1>2, <1>4, <2>1 DEF PrepareChatGptReset, DesktopTypeOK
<1>5. CASE ConsumeChatGptReset
  <2>1. shown.acc \in Account
    BY <1>5 DEF ConsumeChatGptReset, ChatGptResetEligible, DesktopTypeOK, Readings
  <2>2. PICK id \in Id \ used :
          /\ used' = used \cup {id}
          /\ receipt' = [receipt EXCEPT ![shown.acc] = id]
          /\ posts' = posts \cup {[at |-> sel, id |-> id, acc |-> shown.acc]}
    BY <1>5 DEF ConsumeChatGptReset
  <2> QED
    BY <1>1, <1>2, <1>5, <2>1, <2>2 DEF ConsumeChatGptReset, DesktopTypeOK
<1>6. CASE CancelConfirmation
  BY <1>1, <1>2, <1>6 DEF CancelConfirmation, DesktopTypeOK
<1>7. CASE ReplyFinished \/ AppRestart
  BY <1>1, <1>2, <1>7 DEF ReplyFinished, AppRestart, DesktopTypeOK
<1>8. CASE \E p \in posts : LosePost(p)
  BY <1>1, <1>2, <1>8 DEF LosePost, DesktopTypeOK
<1>9. CASE \E s \in Server : SaveSettings(s)
  BY <1>1, <1>2, <1>9 DEF SaveSettings, DesktopTypeOK
<1> QED
  BY <1>1, <1>2, <1>3, <1>4, <1>5, <1>6, <1>7, <1>8, <1>9

(* Types are an invariant of the desktop in front of its servers.          *)
LEMMA TypesInductive == DesktopSpec => [](DesktopTypeOK /\ HandlerOK)
<1>1. DesktopInit => DesktopTypeOK /\ HandlerOK
  <2> SUFFICES ASSUME DesktopInit
               PROVE  DesktopTypeOK /\ HandlerOK
    OBVIOUS
  <2>1. TypeOK
    BY InitTypes DEF DesktopInit
  <2>2. HandlerOK
    BY DEF DesktopInit, Init, HandlerOK, NoReq, NoFetch, Fetching
  <2>3. DesktopTypeOK
    BY <2>1 DEF DesktopInit, DesktopTypeOK
  <2> QED
    BY <2>2, <2>3
<1>2. DesktopTypeOK /\ HandlerOK /\ [DesktopNext]_all => (DesktopTypeOK /\ HandlerOK)'
  <2> SUFFICES ASSUME DesktopTypeOK, HandlerOK, [DesktopNext]_all
               PROVE  DesktopTypeOK' /\ HandlerOK'
    OBVIOUS
  <2>1. CASE Desktop
    BY <2>1, DeliverTypes, DesktopTypes DEF Desktop
  <2>2. CASE Servers /\ UNCHANGED desktop
    BY <2>2, ServersTypes DEF DesktopTypeOK, desktop
  <2>3. CASE UNCHANGED all
    BY <2>3 DEF all, vars, provider, process, desktop, DesktopTypeOK, TypeOK, HandlerOK
  <2> QED
    BY <2>1, <2>2, <2>3 DEF DesktopNext
<1> QED
  BY <1>1, <1>2, PTL DEF DesktopSpec

(* The types of the desktop and of its servers, restarts included.         *)
THEOREM DesktopTypeCorrect == DesktopSpec => []DesktopTypeOK
BY TypesInductive, PTL

(***************************************************************************)
(* The latch.                                                              *)
(***************************************************************************)

(* Forgetting readings, and presses that come to nothing, is harmless.     *)
LEMMA ForgettingKeepsLatch ==
  ASSUME LatchInv, UNCHANGED <<level, spent, receipt>>,
         posts' \subseteq posts, inflight' \subseteq inflight,
         shown' \in {shown, NoReading},
         \A s \in Server :
           /\ cache'[s] \in {cache[s], NoReading}
           /\ fetch'[s].got \in {fetch[s].got, NoReading}
           /\ \/ req'[s].acc \notin Account
              \/ req'[s].acc = req[s].acc /\ (req[s].st = "sent" => req'[s].st = "sent")
  PROVE  LatchInv'
<1> SUFFICES ASSUME NEW a \in Account
             PROVE  OnePress(a)' /\ NearOK(a)' /\ HighOK(a)' /\ LowOK(a)'
  BY DEF LatchInv
<1>1. OnePress(a) /\ NearOK(a) /\ HighOK(a) /\ LowOK(a)
  BY DEF LatchInv
<1>2. /\ Posted(a)' => Posted(a)
      /\ Flying(a)' => Flying(a)
      /\ Asked(a)' => Asked(a)
      /\ Underway(a)' => Underway(a)
      /\ Active(a)' => Active(a)
  BY DEF Posted, Flying, Asked, Underway, Active
<1>3. /\ High(shown, a)' => High(shown, a)
      /\ \A s \in Server : /\ High(cache[s], a)' => High(cache[s], a)
                           /\ Low(cache[s], a)' => Low(cache[s], a)
                           /\ High(fetch[s].got, a)' => High(fetch[s].got, a)
                           /\ Low(fetch[s].got, a)' => Low(fetch[s].got, a)
  BY DEF High, Low
<1>4. OnePress(a)'
  BY <1>1, <1>2 DEF OnePress
<1>5. NoneHigh(a) => NoneHigh(a)'
  BY <1>3 DEF NoneHigh
<1>6. NearOK(a)'
  BY <1>1, <1>2, <1>5 DEF NearOK
<1>7. HighOK(a)'
  BY <1>1, <1>2, <1>3 DEF HighOK
<1>8. LowOK(a)'
  BY <1>1, <1>2, <1>3, <1>5 DEF LowOK
<1> QED
  BY <1>4, <1>6, <1>7, <1>8

(* Usage of an account rises to 95%, falls, or climbs back.                *)
LEMMA UsageKeepsLatch ==
  ASSUME TypeOK, LatchInv, NEW b \in Account,
         Cross(b) \/ Fall(b) \/ (Climb(b) /\ Outlived(b)), UNCHANGED desktop
  PROVE  LatchInv'
<1> USE DEF TypeOK
<1> SUFFICES ASSUME NEW a \in Account
             PROVE  OnePress(a)' /\ NearOK(a)' /\ HighOK(a)' /\ LowOK(a)'
  BY DEF LatchInv
<1>1. OnePress(a) /\ NearOK(a) /\ HighOK(a) /\ LowOK(a)
  BY DEF LatchInv
<1>2. UNCHANGED <<posts, inflight, req, shown, cache, fetch, receipt>>
  BY DEF Cross, Fall, Climb, process, desktop
<1>3. /\ Posted(a)' <=> Posted(a)
      /\ Flying(a)' <=> Flying(a)
      /\ Asked(a)' <=> Asked(a)
      /\ Underway(a)' <=> Underway(a)
      /\ NoneHigh(a)' <=> NoneHigh(a)
  BY <1>2 DEF Posted, Flying, Asked, Underway, NoneHigh, High
<1>4. CASE a # b
  <2>1. level'[a] = level[a] /\ spent'[a] = spent[a]
    BY <1>4 DEF Cross, Fall, Climb
  <2>2. Active(a)' <=> Active(a)
    BY <1>3, <2>1 DEF Active
  <2> QED
    BY <1>1, <1>2, <1>3, <2>1, <2>2 DEF OnePress, NearOK, HighOK, LowOK, High, Low
<1>5. CASE a = b /\ Cross(b)
  <2>1. level[a] = "near" /\ level'[a] = "high" /\ spent'[a] = 0
    BY <1>5 DEF Cross
  <2>2. ~Posted(a) /\ ~Underway(a) /\ NoneHigh(a)
    BY <1>1, <2>1 DEF NearOK
  <2>3. ~Active(a)'
    BY <1>3, <2>1, <2>2 DEF Active
  <2>4. OnePress(a)'
    BY <1>1, <1>2, <1>3, <2>1 DEF OnePress
  <2>5. HighOK(a)'
    BY <1>2, <2>2, <2>3 DEF HighOK, NoneHigh
  <2> QED
    BY <2>1, <2>4, <2>5 DEF NearOK, LowOK
<1>6. CASE a = b /\ Fall(b)
  <2>1. level'[a] = "low" /\ spent'[a] = spent[a] /\ level[a] \in {"near", "high"}
    BY <1>6 DEF Fall
  <2>2. Active(a)' <=> Active(a)
    BY <1>3, <2>1 DEF Active
  <2>3. OnePress(a)'
    BY <1>1, <1>2, <1>3, <2>1 DEF OnePress
  <2>4. LowOK(a)'
    BY <1>1, <1>2, <1>3, <2>1, <2>2 DEF NearOK, HighOK, LowOK, NoneHigh
  <2> QED
    BY <2>1, <2>3, <2>4 DEF NearOK, HighOK
<1>7. CASE a = b /\ Climb(b) /\ Outlived(b)
  <2>1. level'[a] = "near" /\ spent'[a] = spent[a] /\ ~Underway(a)
    BY <1>7 DEF Climb
  <2>2. ~Posted(a) /\ NoneHigh(a)
    BY <1>7 DEF Outlived, Posted, NoneHigh, High
  <2>3. OnePress(a)'
    BY <1>1, <1>2, <1>3, <2>1 DEF OnePress
  <2> QED
    BY <1>3, <2>1, <2>2, <2>3 DEF NearOK, HighOK, LowOK
<1> QED
  BY <1>4, <1>5, <1>6, <1>7

(* A redemption arrives, and counts from now on as spent.                  *)
LEMMA RedeemKeepsLatch ==
  ASSUME TypeOK, LatchInv, NEW q \in inflight, Redeem(q), UNCHANGED desktop
  PROVE  LatchInv'
<1> USE DEF TypeOK
<1>1. q.acc \in Account /\ Flying(q.acc) /\ spent[q.acc] = 0
  BY DEF Redemptions, Flying, LatchInv, OnePress
<1>2. /\ inflight' = inflight \ {q}
      /\ UNCHANGED <<level, posts, req, shown, cache, fetch, receipt>>
  BY DEF Redeem, process, desktop
<1> SUFFICES ASSUME NEW a \in Account
             PROVE  OnePress(a)' /\ NearOK(a)' /\ HighOK(a)' /\ LowOK(a)'
  BY DEF LatchInv
<1>3. OnePress(a) /\ NearOK(a) /\ HighOK(a) /\ LowOK(a)
  BY DEF LatchInv
<1>4. /\ Posted(a)' <=> Posted(a)
      /\ Asked(a)' <=> Asked(a)
      /\ NoneHigh(a)' <=> NoneHigh(a)
      /\ Flying(a)' => Flying(a) /\ a # q.acc
      /\ Underway(a)' => Underway(a)
  BY <1>2, <1>3 DEF Posted, Asked, NoneHigh, High, Flying, Underway, OnePress
<1>5. spent'[a] = spent[a] \/ (a = q.acc /\ spent'[a] = 1)
  BY <1>1 DEF Redeem
<1>6. Active(a)' => Active(a)
  BY <1>1, <1>4, <1>5 DEF Active, Underway, Flying
<1>7. OnePress(a)'
  <2>1. CASE a # q.acc
    BY <1>2, <1>3, <1>4, <1>5, <2>1 DEF OnePress
  <2>2. CASE a = q.acc
    <3>1. ~Posted(a) /\ ~Asked(a)
      BY <1>1, <1>3, <2>2 DEF OnePress, Underway, Flying
    <3> QED
      BY <1>1, <1>2, <1>3, <1>4, <1>5, <2>2, <3>1 DEF OnePress
  <2> QED
    BY <2>1, <2>2
<1>8. NearOK(a)' /\ HighOK(a)' /\ LowOK(a)'
  BY <1>2, <1>3, <1>4, <1>6 DEF NearOK, HighOK, LowOK, High, Low
<1> QED
  BY <1>7, <1>8

(* The provider answers with the usage of now.                             *)
LEMMA ReadKeepsLatch ==
  ASSUME TypeOK, LatchInv, NEW t \in Server, FetchRead(t), UNCHANGED desktop
  PROVE  LatchInv'
<1> USE DEF TypeOK
<1>1. UNCHANGED <<level, spent, inflight, posts, req, shown, cache, receipt>>
  BY DEF FetchRead, provider, desktop
<1>2. /\ cred[t] \in Account
      /\ fetch'[t].got = Reading(cred[t])
      /\ \A s \in Server \ {t} : fetch'[s] = fetch[s]
  BY DEF FetchRead, Fetching
<1> SUFFICES ASSUME NEW a \in Account
             PROVE  OnePress(a)' /\ NearOK(a)' /\ HighOK(a)' /\ LowOK(a)'
  BY DEF LatchInv
<1>3. OnePress(a) /\ NearOK(a) /\ HighOK(a) /\ LowOK(a)
  BY DEF LatchInv
<1>4. /\ Posted(a)' <=> Posted(a)
      /\ Asked(a)' <=> Asked(a)
      /\ Flying(a)' <=> Flying(a)
      /\ Underway(a)' <=> Underway(a)
      /\ Active(a)' <=> Active(a)
  BY <1>1 DEF Posted, Asked, Flying, Underway, Active
<1>5. OnePress(a)'
  BY <1>1, <1>3, <1>4 DEF OnePress
<1>6. /\ High(fetch[t].got, a)' => level[a] = "high"
      /\ Low(fetch[t].got, a)' => level[a] # "high"
  BY <1>2, ReadingFields DEF High, Low
<1>7. \A s \in Server \ {t} : /\ High(fetch[s].got, a)' <=> High(fetch[s].got, a)
                              /\ Low(fetch[s].got, a)' <=> Low(fetch[s].got, a)
  BY <1>2 DEF High, Low
<1>8. level[a] # "high" /\ NoneHigh(a) => NoneHigh(a)'
  BY <1>1, <1>6, <1>7 DEF NoneHigh, High
<1>9. NearOK(a)' /\ LowOK(a)'
  BY <1>1, <1>3, <1>4, <1>6, <1>7, <1>8 DEF NearOK, LowOK, High, Low
<1>10. HighOK(a)'
  BY <1>1, <1>3, <1>4, <1>6, <1>7 DEF HighOK, High, Low
<1> QED
  BY <1>5, <1>9, <1>10

(* What the handler does with its reading neither makes nor undoes a press.*)
LEMMA HandlerGotRequest ==
  ASSUME TypeOK, HandlerOK, NEW t \in Server, NEW eligible \in BOOLEAN,
         HandlerGot(t, eligible), NEW s \in Server
  PROVE  \/ req'[s].acc \notin Account
         \/ req'[s].acc = req[s].acc /\ (req[s].st = "sent" => req'[s].st = "sent")
<1>1. CASE UNCHANGED req \/ s # t
  BY <1>1 DEF HandlerGot, TypeOK
<1>2. CASE s = t /\ fetch[t].by = "handler"
  <2>1. req[t].st = "polling"
    BY <1>2 DEF HandlerOK
  <2>2. req'[t] = Handling(t, "consume", TRUE) \/ req'[t] = NoReq
    BY <1>2 DEF HandlerGot, TypeOK
  <2> QED
    BY <1>2, <2>1, <2>2, ResetAssumption DEF Handling, NoReq
<1> QED
  BY <1>1, <1>2 DEF HandlerGot

(* A reading becomes the entry of the poller, and the fetch is over.       *)
LEMMA FetchEndKeepsLatch ==
  ASSUME TypeOK, HandlerOK, LatchInv, NEW t \in Server, FetchEnd(t), UNCHANGED desktop
  PROVE  LatchInv'
<1>1. /\ UNCHANGED <<level, spent, inflight, posts, shown, receipt>>
      /\ cache' = [cache EXCEPT ![t] = fetch[t].got]
      /\ fetch' = [fetch EXCEPT ![t] = NoFetch]
      /\ HandlerGot(t, EligibleForCodexReset(t, fetch[t].got))
  BY DEF FetchEnd, provider, desktop
<1>2. \A s \in Server :
        \/ req'[s].acc \notin Account
        \/ req'[s].acc = req[s].acc /\ (req[s].st = "sent" => req'[s].st = "sent")
  BY <1>1, HandlerGotRequest DEF EligibleForCodexReset
<1>3. /\ cache'[t] = fetch[t].got /\ fetch'[t].got = NoReading
      /\ \A s \in Server \ {t} : cache'[s] = cache[s] /\ fetch'[s] = fetch[s]
  BY <1>1 DEF TypeOK, NoFetch, Fetching
<1> SUFFICES ASSUME NEW a \in Account
             PROVE  OnePress(a)' /\ NearOK(a)' /\ HighOK(a)' /\ LowOK(a)'
  BY DEF LatchInv
<1>4. OnePress(a) /\ NearOK(a) /\ HighOK(a) /\ LowOK(a)
  BY DEF LatchInv
<1>5. /\ Posted(a)' <=> Posted(a)
      /\ Asked(a)' => Asked(a)
      /\ Flying(a)' <=> Flying(a)
      /\ Underway(a)' => Underway(a)
      /\ Active(a)' => Active(a)
  BY <1>1, <1>2 DEF Posted, Asked, Flying, Underway, Active
<1>6. OnePress(a)'
  BY <1>1, <1>4, <1>5 DEF OnePress
<1>7. NoneHigh(a) => NoneHigh(a)'
  BY <1>1, <1>3 DEF NoneHigh, High
<1>8. /\ High(cache[t], a)' <=> High(fetch[t].got, a)
      /\ Low(cache[t], a)' <=> Low(fetch[t].got, a)
      /\ ~High(fetch[t].got, a)' /\ ~Low(fetch[t].got, a)'
      /\ High(shown, a)' <=> High(shown, a)
      /\ \A s \in Server \ {t} :
           /\ High(cache[s], a)' <=> High(cache[s], a)
           /\ Low(cache[s], a)' <=> Low(cache[s], a)
           /\ High(fetch[s].got, a)' <=> High(fetch[s].got, a)
           /\ Low(fetch[s].got, a)' <=> Low(fetch[s].got, a)
  BY <1>1, <1>3 DEF High, Low
<1>9. NearOK(a)'
  BY <1>1, <1>4, <1>5, <1>7 DEF NearOK
<1>10. HighOK(a)'
  BY <1>1, <1>4, <1>5, <1>8 DEF HighOK
<1>11. LowOK(a)'
  BY <1>1, <1>4, <1>5, <1>7, <1>8 DEF LowOK
<1> QED
  BY <1>6, <1>9, <1>10, <1>11

(* The one press of an account leaves for the provider.                    *)
LEMMA SubmitKeepsLatch ==
  ASSUME TypeOK, HandlerOK, LatchInv, \A s, u \in Server : s = u,
         NEW t \in Server, Submit(t), UNCHANGED desktop
  PROVE  LatchInv'
<1> DEFINE b == req[t].acc
           r == [at |-> t, id |-> req[t].id, acc |-> cred[t], for |-> req[t].acc]
<1>1. b \in Account /\ r.acc = b /\ Asked(b)
  BY DEF Submit, Submittable, CredentialsMatch, HandlerOK, Asked
<1>2. /\ UNCHANGED <<level, spent, posts, shown, cache, receipt>>
      /\ inflight' = inflight \cup {r}
      /\ req'[t].acc = b /\ req'[t].st = "sent"
      /\ \A s \in Server : fetch'[s].got = fetch[s].got
  BY DEF Submit, Handling, Fetching, TypeOK, desktop
<1> HIDE DEF r, b
<1> SUFFICES ASSUME NEW a \in Account
             PROVE  OnePress(a)' /\ NearOK(a)' /\ HighOK(a)' /\ LowOK(a)'
  BY DEF LatchInv
<1>3. OnePress(a) /\ NearOK(a) /\ HighOK(a) /\ LowOK(a)
  BY DEF LatchInv
<1>4. Underway(b)
  BY <1>1 DEF Asked, Underway
<1>5. /\ Posted(a)' <=> Posted(a)
      /\ ~Asked(a)'
      /\ Flying(a)' <=> (Flying(a) \/ a = b)
      /\ Underway(a)' => Underway(a)
      /\ Active(a)' => Active(a)
  <2>1. (Posted(a)' <=> Posted(a)) /\ ~Asked(a)'
    BY <1>2 DEF Posted, Asked
  <2>2. Flying(a)' <=> (Flying(a) \/ a = b)
    BY <1>1, <1>2 DEF Flying
  <2>3. Underway(a)' => Underway(a)
    BY <1>1, <1>2, <1>4 DEF Underway, b
  <2> QED
    BY <1>2, <2>1, <2>2, <2>3 DEF Active
<1>6. OnePress(a)'
  <2>1. CASE a = b
    <3>1. ~Flying(a) /\ spent[a] = 0 /\ ~Posted(a)
      BY <1>1, <1>3, <1>4, <2>1 DEF OnePress
    <3> QED
      BY <1>2, <1>3, <1>5, <3>1 DEF OnePress, Flying
  <2>2. CASE a # b
    BY <1>1, <1>2, <1>3, <1>5, <2>2 DEF OnePress
  <2> QED
    BY <2>1, <2>2
<1>7. NearOK(a)' /\ HighOK(a)' /\ LowOK(a)'
  BY <1>2, <1>3, <1>5 DEF NearOK, HighOK, LowOK, NoneHigh, High, Low
<1> QED
  BY <1>6, <1>7

(* A press reaches its server, which takes it on.                          *)
LEMMA DeliverKeepsLatch ==
  ASSUME DesktopTypeOK, LatchInv, NEW p \in posts, Deliver(p)
  PROVE  LatchInv'
<1>1. p.at \in Server /\ p.acc \in Account /\ Posted(p.acc)
  BY DEF DesktopTypeOK, Posted
<1>2. /\ UNCHANGED <<level, spent, inflight, shown, cache, fetch, receipt>>
      /\ posts' = posts \ {p}
      /\ req'[p.at].acc = p.acc
      /\ \A s \in Server \ {p.at} : req'[s] = req[s]
  BY <1>1 DEF Deliver, Accept, provider, DesktopTypeOK, TypeOK
<1> SUFFICES ASSUME NEW a \in Account
             PROVE  OnePress(a)' /\ NearOK(a)' /\ HighOK(a)' /\ LowOK(a)'
  BY DEF LatchInv
<1>3. OnePress(a) /\ NearOK(a) /\ HighOK(a) /\ LowOK(a)
  BY DEF LatchInv
<1>4. /\ Posted(a)' => Posted(a) /\ a # p.acc
      /\ Asked(a)' => Asked(a) \/ a = p.acc
      /\ Flying(a)' <=> Flying(a)
      /\ Underway(a)' => Underway(a) \/ a = p.acc
      /\ Active(a)' => Active(a)
  BY <1>1, <1>2, <1>3 DEF Posted, Asked, Flying, Underway, Active, OnePress
<1>5. OnePress(a)'
  <2>1. a = p.acc => ~Flying(a) /\ spent[a] = 0
    BY <1>1, <1>3 DEF OnePress, Underway, Flying
  <2> QED
    BY <1>2, <1>3, <1>4, <2>1 DEF OnePress
<1>6. NearOK(a)' /\ HighOK(a)' /\ LowOK(a)'
  BY <1>1, <1>2, <1>3, <1>4 DEF NearOK, HighOK, LowOK, NoneHigh, High, Low
<1> QED
  BY <1>5, <1>6

(* A reading of the one server releases the latch of its account only when *)
(* it was taken after the fall, or before any press.                       *)
LEMMA RefreshKeepsLatch ==
  ASSUME DesktopTypeOK, LatchInv, \A s, u \in Server : s = u, Refresh
  PROVE  LatchInv'
<1>1. /\ UNCHANGED <<level, spent, inflight, posts, req, cache, fetch>>
      /\ shown' \in {cache[sel], NoReading}
      /\ sel \in Server
  BY DEF Refresh, vars, provider, process, DesktopTypeOK
<1> SUFFICES ASSUME NEW a \in Account
             PROVE  OnePress(a)' /\ NearOK(a)' /\ HighOK(a)' /\ LowOK(a)'
  BY DEF LatchInv
<1>2. OnePress(a) /\ NearOK(a) /\ HighOK(a) /\ LowOK(a)
  BY DEF LatchInv
<1>3. /\ Posted(a)' <=> Posted(a)
      /\ Asked(a)' <=> Asked(a)
      /\ Flying(a)' <=> Flying(a)
      /\ Underway(a)' <=> Underway(a)
      /\ Active(a)' <=> Active(a)
  BY <1>1 DEF Posted, Asked, Flying, Underway, Active
<1>4. receipt'[a] = receipt[a] \/ (receipt'[a] = NoId /\ Low(cache[sel], a))
  BY <1>1 DEF Refresh, Released, Low
<1>5. High(shown, a)' => High(cache[sel], a)
  BY <1>1 DEF High
<1>6. ~(High(cache[sel], a) /\ Low(cache[sel], a))
  BY DEF High, Low
<1>7. NoneHigh(a) => NoneHigh(a)'
  BY <1>1, <1>5 DEF NoneHigh, High
<1>8. \A s \in Server : s = sel
  BY <1>1
<1>9. OnePress(a)' /\ NearOK(a)'
  BY <1>1, <1>2, <1>3, <1>7 DEF OnePress, NearOK
<1>10. HighOK(a)'
  BY <1>1, <1>2, <1>3, <1>4, <1>5, <1>6, <1>8 DEF HighOK, High, Low
<1>11. LowOK(a)'
  <2>1. ASSUME level[a] = "low", Active(a), receipt'[a] = NoId
        PROVE  NoneHigh(a)'
    <3>1. CASE receipt'[a] = receipt[a]
      BY <1>2, <1>7, <2>1, <3>1 DEF LowOK
    <3>2. CASE Low(cache[sel], a)
      <4>1. ~High(fetch[sel].got, a)
        BY <1>1, <1>2, <2>1, <3>2 DEF LowOK
      <4> QED
        BY <1>1, <1>5, <1>6, <1>8, <3>2, <4>1 DEF NoneHigh, High
    <3> QED
      BY <1>4, <3>1, <3>2
  <2>2. level[a] = "low" /\ Low(cache[sel], a) /\ High(fetch[sel].got, a)
          => ~Active(a) /\ ~High(shown, a)'
    BY <1>1, <1>2, <1>5, <1>6 DEF LowOK
  <2> QED
    BY <1>1, <1>3, <1>8, <2>1, <2>2 DEF LowOK, High, Low
<1> QED
  BY <1>9, <1>10, <1>11

(* The button is pressed: the account had no press that still counts.      *)
LEMMA ConsumeKeepsLatch ==
  ASSUME DesktopTypeOK, LatchInv, ConsumeChatGptReset
  PROVE  LatchInv'
<1> DEFINE b == shown.acc
<1>1. /\ b \in Account /\ High(shown, b) /\ receipt[b] = NoId
      /\ UNCHANGED <<level, spent, inflight, shown, cache, fetch, req>>
  BY DEF ConsumeChatGptReset, ChatGptResetEligible, DesktopTypeOK, Readings, High,
         vars, provider, process
<1>2. PICK id \in Id \ used :
        /\ receipt' = [receipt EXCEPT ![b] = id]
        /\ posts' = posts \cup {[at |-> sel, id |-> id, acc |-> b]}
  BY DEF ConsumeChatGptReset
<1> DEFINE p == [at |-> sel, id |-> id, acc |-> b]
<1>3. p.acc = b /\ receipt'[b] # NoId /\ posts' = posts \cup {p}
  BY <1>1, <1>2, ResetAssumption DEF DesktopTypeOK
<1>4. \A a \in Account : a # b => receipt'[a] = receipt[a]
  BY <1>2 DEF DesktopTypeOK
<1>5. ~Active(b)
  <2>1. OnePress(b) /\ NearOK(b) /\ HighOK(b) /\ LowOK(b) /\ level[b] \in {"low", "near", "high"}
    BY <1>1 DEF LatchInv, DesktopTypeOK, TypeOK
  <2>2. level[b] # "near"
    BY <1>1, <2>1 DEF NearOK, NoneHigh
  <2>3. CASE level[b] = "high"
    BY <1>1, <2>1, <2>3 DEF HighOK
  <2>4. CASE level[b] = "low"
    BY <1>1, <2>1, <2>4 DEF LowOK, NoneHigh
  <2> QED
    BY <2>1, <2>2, <2>3, <2>4
<1> HIDE DEF b, p
<1> SUFFICES ASSUME NEW a \in Account
             PROVE  OnePress(a)' /\ NearOK(a)' /\ HighOK(a)' /\ LowOK(a)'
  BY DEF LatchInv
<1>6. OnePress(a) /\ NearOK(a) /\ HighOK(a) /\ LowOK(a)
  BY DEF LatchInv
<1>7. /\ Posted(a)' <=> (Posted(a) \/ a = b)
      /\ Asked(a)' <=> Asked(a)
      /\ Flying(a)' <=> Flying(a)
      /\ Underway(a)' <=> Underway(a)
      /\ a # b => (Active(a)' <=> Active(a))
  BY <1>1, <1>3 DEF Posted, Asked, Flying, Underway, Active
<1>8. CASE a # b
  <2>1. OnePress(a)'
    BY <1>1, <1>3, <1>6, <1>7, <1>8 DEF OnePress
  <2> QED
    BY <1>1, <1>4, <1>6, <1>7, <1>8, <2>1 DEF NearOK, HighOK, LowOK, NoneHigh, High, Low
<1>9. CASE a = b
  <2>1. ~Posted(a) /\ ~Underway(a) /\ spent[a] = 0
    <3>1. spent[a] \in Nat
      BY DEF DesktopTypeOK, TypeOK
    <3> QED
      BY <1>5, <1>9, <3>1 DEF Active
  <2>2. ~Asked(a) /\ ~Flying(a)
    BY <2>1 DEF Asked, Flying, Underway
  <2>3. OnePress(a)'
    BY <1>1, <1>3, <1>6, <1>7, <1>9, <2>1, <2>2 DEF OnePress, Posted
  <2>4. NearOK(a)'
    BY <1>1, <1>6, <1>9 DEF NearOK, NoneHigh
  <2>5. HighOK(a)'
    BY <1>1, <1>3, <1>6, <1>9 DEF HighOK, High, Low
  <2>6. LowOK(a)'
    BY <1>1, <1>3, <1>6, <1>9 DEF LowOK, High, Low
  <2> QED
    BY <2>3, <2>4, <2>5, <2>6
<1> QED
  BY <1>8, <1>9

(* Every other step only forgets, or is none of the latch's business.      *)
LEMMA OthersKeepLatch ==
  ASSUME DesktopTypeOK, HandlerOK, LatchInv,
         \/ /\ UNCHANGED desktop
            /\ \/ \E r \in inflight : Lose(r)
               \/ \E s \in Server, a \in Account \cup {NoAccount} : SignIn(s, a)
               \/ \E s \in Server : \/ PollStart(s) \/ HandlerPoll(s) \/ FetchFails(s)
                                   \/ SubmitEnd(s) \/ Decline(s) \/ Restart(s)
         \/ PrepareChatGptReset \/ CancelConfirmation \/ ReplyFinished \/ AppRestart
         \/ \E s \in Server : SaveSettings(s)
         \/ \E p \in posts : LosePost(p)
         \/ UNCHANGED all
  PROVE  LatchInv'
<1> DEFINE Same(s) == /\ cache'[s] \in {cache[s], NoReading}
                      /\ fetch'[s].got \in {fetch[s].got, NoReading}
           Kept(s) == \/ req'[s].acc \notin Account
                      \/ /\ req'[s].acc = req[s].acc
                         /\ req[s].st = "sent" => req'[s].st = "sent"
<1>1. ASSUME UNCHANGED <<level, spent, receipt, cache, fetch, req>>,
             posts' \subseteq posts, inflight' \subseteq inflight,
             shown' \in {shown, NoReading}
      PROVE  LatchInv'
  BY <1>1, ForgettingKeepsLatch
<1>2. ASSUME NEW t \in Server, UNCHANGED desktop,
             \/ PollStart(t) \/ HandlerPoll(t) \/ FetchFails(t)
             \/ SubmitEnd(t) \/ Decline(t) \/ Restart(t)
      PROVE  LatchInv'
  <2> SUFFICES ASSUME NEW s \in Server
               PROVE  Same(s) /\ Kept(s)
    <3>1. UNCHANGED <<level, spent, inflight, receipt, posts, shown>>
      BY <1>2 DEF PollStart, HandlerPoll, FetchFails, SubmitEnd, Decline, Restart,
                  provider, desktop
    <3> QED
      BY <3>1, ForgettingKeepsLatch
  <2> USE DEF DesktopTypeOK, TypeOK
  <2>1. CASE PollStart(t)
    BY <2>1 DEF PollStart, Fetching
  <2>2. CASE HandlerPoll(t)
    BY <2>2 DEF HandlerPoll, Fetching, Handling
  <2>3. CASE FetchFails(t)
    <3>1. Kept(s)
      BY <2>3, HandlerGotRequest DEF FetchFails
    <3> QED
      BY <2>3, <3>1 DEF FetchFails, NoFetch, Fetching
  <2>4. CASE SubmitEnd(t) \/ Decline(t) \/ Restart(t)
    BY <2>4, ResetAssumption DEF SubmitEnd, Decline, Restart, NoReq, NoFetch, Fetching
  <2> QED
    BY <1>2, <2>1, <2>2, <2>3, <2>4
<1>3. ASSUME UNCHANGED desktop,
             \/ \E r \in inflight : Lose(r)
             \/ \E s \in Server, a \in Account \cup {NoAccount} : SignIn(s, a)
      PROVE  LatchInv'
  BY <1>1, <1>3 DEF Lose, SignIn, provider, process, desktop
<1>4. CASE PrepareChatGptReset \/ CancelConfirmation \/ ReplyFinished \/ AppRestart
  BY <1>1, <1>4 DEF PrepareChatGptReset, CancelConfirmation, ReplyFinished, AppRestart,
                    vars, provider, process
<1>5. CASE (\E s \in Server : SaveSettings(s)) \/ (\E p \in posts : LosePost(p))
  BY <1>1, <1>5 DEF SaveSettings, LosePost, vars, provider, process
<1>6. CASE UNCHANGED all
  BY <1>1, <1>6 DEF all, vars, provider, process, desktop
<1> QED
  BY <1>2, <1>3, <1>4, <1>5, <1>6

(* The invariant of the latch is inductive.                                *)
LEMMA LatchInductive ==
  ASSUME \A s, u \in Server : s = u
  PROVE  DesktopSpec => []LatchInv
<1>1. DesktopInit => LatchInv
  <2> SUFFICES ASSUME DesktopInit, NEW a \in Account
               PROVE  OnePress(a) /\ NearOK(a) /\ HighOK(a) /\ LowOK(a)
    BY DEF LatchInv
  <2>1. ~Posted(a) /\ ~Underway(a) /\ ~Asked(a) /\ ~Flying(a) /\ spent[a] = 0
    BY ResetAssumption DEF DesktopInit, Init, Posted, Underway, Asked, Flying, NoReq
  <2>2. NoneHigh(a) /\ ~Active(a)
    BY <2>1 DEF DesktopInit, Init, NoneHigh, High, NoFetch, Fetching, Active
  <2>3. OnePress(a)
    BY <2>1 DEF OnePress, DesktopInit, Init
  <2> QED
    BY <2>1, <2>2, <2>3 DEF NearOK, HighOK, LowOK, NoneHigh
<1>2. DesktopTypeOK /\ HandlerOK /\ LatchInv /\ [DesktopNext]_all => LatchInv'
  <2> SUFFICES ASSUME DesktopTypeOK, HandlerOK, LatchInv, [DesktopNext]_all
               PROVE  LatchInv'
    OBVIOUS
  <2>1. TypeOK
    BY DEF DesktopTypeOK
  <2>2. CASE Desktop
    BY <2>2, RefreshKeepsLatch, ConsumeKeepsLatch, DeliverKeepsLatch, OthersKeepLatch
       DEF Desktop
  <2>3. CASE Servers /\ UNCHANGED desktop
    BY <2>1, <2>3, UsageKeepsLatch, RedeemKeepsLatch, ReadKeepsLatch, FetchEndKeepsLatch,
       SubmitKeepsLatch, OthersKeepLatch DEF Servers, Provider, Serve
  <2>4. CASE UNCHANGED all
    BY <2>4, OthersKeepLatch
  <2> QED
    BY <2>2, <2>3, <2>4 DEF DesktopNext
<1> QED
  BY <1>1, <1>2, TypesInductive, PTL DEF DesktopSpec

(* With one server, restarted or not, an account whose usage is still at   *)
(* 95% after a press that counts has its receipt: the button that spends   *)
(* (consumeChatGptReset) stays disabled, for any number of accounts,       *)
(* presses, credits, lost replies and restarts.                            *)
THEOREM LatchAlwaysHolds ==
  ASSUME \A s, u \in Server : s = u
  PROVE  DesktopSpec => []LatchHolds
<1>1. DesktopTypeOK /\ LatchInv => LatchHolds
  <2> SUFFICES ASSUME DesktopTypeOK, LatchInv, NEW a \in Account, level[a] = "high",
                      spent[a] > 0 \/ \E r \in inflight : r.acc = a
               PROVE  receipt[a] # NoId
    BY DEF LatchHolds
  <2>1. Active(a)
    BY DEF Active, Underway
  <2> QED
    BY <2>1 DEF LatchInv, HighOK
<1> QED
  BY <1>1, LatchInductive, TypesInductive, PTL

(* The latch alone keeps one server from spending a second credit of a     *)
(* rise, though each restart forgets the gate of that server.              *)
THEOREM LatchSpendsOnce ==
  ASSUME \A s, u \in Server : s = u
  PROVE  DesktopSpec => []NoSecondSpend
<1>1. LatchInv => NoSecondSpend
  BY DEF LatchInv, OnePress, NoSecondSpend
<1> QED
  BY <1>1, LatchInductive, PTL
=============================================================================
