---------------------------- MODULE DesktopReset ----------------------------
(***************************************************************************)
(* The desktop's reset button and its durable latch, in front of usage     *)
(* servers that may restart: eligibility and confirmation, the receipt     *)
(* written before the request, the one request, and the usage reading that *)
(* releases the latch.                                                     *)
(***************************************************************************)
EXTENDS CodexReset

CONSTANT NoServer
ASSUME NoServerAssumption == NoServer \notin Server

VARIABLES
  sel,      \* the server the connection settings select
  shown,    \* the reading in the latest snapshot, if the button may rely on it
  confirm,  \* m_resetConfirmation: connection and account the dialog is about
  busy,     \* m_resetBusy: a reply is awaited
  receipt,  \* the receipt file of an account: its request id
  posts,    \* requests on their way to a server
  used      \* request ids drawn so far

desktop == <<sel, shown, confirm, busy, receipt, posts, used>>
all     == <<vars, desktop>>

NoConfirm == [at |-> NoServer, acc |-> NoAccount]

DesktopTypeOK ==
  /\ TypeOK
  /\ sel \in Server /\ shown \in Readings \cup {NoReading}
  /\ confirm \in [at : Server, acc : Account] \cup {NoConfirm}
  /\ busy \in BOOLEAN /\ (busy => confirm = NoConfirm)
  /\ receipt \in [Account -> Id \cup {NoId}]
  /\ posts \subseteq [at : Server, id : Id, acc : Account]
  /\ used \subseteq Id

(* Mutant: a receipt does not disable the button.                          *)
EligibleDespiteReceipt == ~busy /\ shown # NoReading /\ shown.high /\ shown.credit

(* The button: a reading of at least 95% with a credit, and no receipt for *)
(* its account.                                                            *)
ChatGptResetEligible ==
  /\ ~busy /\ shown # NoReading /\ shown.high /\ shown.credit
  /\ receipt[shown.acc] = NoId

ResetConnectionIdentity == [at |-> sel, acc |-> shown.acc]

(* Mutant: a reading below 95% releases every account.                     *)
ReleasedForAll(r) == IF r = NoReading \/ r.high THEN {} ELSE Account

(* A usage snapshot: the reading the selected server has cached, or none   *)
(* if it cannot be reached.  One below 95% releases the latch of its       *)
(* account (observeResetUsage).                                            *)
Released(r) == IF r = NoReading \/ r.high THEN {} ELSE {r.acc}

Refresh ==
  /\ ~busy
  /\ shown' \in {cache[sel], NoReading}
  /\ receipt' = [a \in Account |-> IF a \in Released(shown') THEN NoId ELSE receipt[a]]
  /\ UNCHANGED <<vars, sel, confirm, busy, posts, used>>

PrepareChatGptReset ==
  /\ ChatGptResetEligible
  /\ confirm' = ResetConnectionIdentity
  /\ UNCHANGED <<vars, sel, shown, busy, receipt, posts, used>>

(* The dialog is closed, or the receipt cannot be written.                 *)
CancelConfirmation ==
  /\ confirm # NoConfirm
  /\ confirm' = NoConfirm
  /\ UNCHANGED <<vars, sel, shown, busy, receipt, posts, used>>

(* The confirmation button: a fresh id, the receipt, and then the request, *)
(* which never leaves if the application dies in between (LosePost).       *)
ConsumeChatGptReset ==
  /\ ChatGptResetEligible /\ confirm = ResetConnectionIdentity
  /\ \E id \in Id \ used :
       /\ used' = used \cup {id}
       /\ receipt' = [receipt EXCEPT ![shown.acc] = id]
       /\ posts' = posts \cup {[at |-> sel, id |-> id, acc |-> shown.acc]}
  /\ busy' = TRUE /\ confirm' = NoConfirm
  /\ UNCHANGED <<vars, sel, shown>>

(* Mutant: a reply without a deadline.                                     *)
ReplyWithoutDeadline ==
  /\ busy /\ posts = {}
  /\ busy' = FALSE
  /\ UNCHANGED <<vars, sel, shown, confirm, receipt, posts, used>>

(* An answer, an error, or the deadline: the receipt stays whatever it is. *)
ReplyFinished ==
  /\ busy
  /\ busy' = FALSE
  /\ UNCHANGED <<vars, sel, shown, confirm, receipt, posts, used>>

(* Another server, or the same one: the button waits for its snapshot.     *)
SaveSettings(s) ==
  /\ ~busy
  /\ sel' = s /\ confirm' = NoConfirm /\ shown' = NoReading
  /\ UNCHANGED <<vars, busy, receipt, posts, used>>

(* The application quits or dies, at any point, and is started again.      *)
AppRestart ==
  /\ shown' = NoReading /\ confirm' = NoConfirm /\ busy' = FALSE
  /\ UNCHANGED <<vars, sel, receipt, posts, used>>

(* The request reaches its server, which may turn it down, or does not.    *)
Deliver(p) ==
  /\ posts' = posts \ {p}
  /\ Accept(p.at, p.id, p.acc)
  /\ UNCHANGED <<sel, shown, confirm, busy, receipt, used>>

LosePost(p) ==
  /\ posts' = posts \ {p}
  /\ UNCHANGED <<vars, sel, shown, confirm, busy, receipt, used>>

DesktopInit ==
  /\ Init
  /\ sel \in Server /\ shown = NoReading /\ confirm = NoConfirm /\ busy = FALSE
  /\ receipt = [a \in Account |-> NoId]
  /\ posts = {} /\ used = {}

Desktop ==
  \/ Refresh \/ PrepareChatGptReset \/ CancelConfirmation
  \/ ConsumeChatGptReset \/ ReplyFinished \/ AppRestart
  \/ \E s \in Server : SaveSettings(s)
  \/ \E p \in posts : Deliver(p) \/ LosePost(p)

(* Usage does not climb back to 95% while a request travels or a reading   *)
(* from before its fall is about: a cached one is replaced at the next     *)
(* poll, and the button ignores a snapshot older than two intervals.       *)
Outlived(a) ==
  /\ \A p \in posts : p.acc # a
  /\ \A r \in {shown} \cup UNION {{cache[s], fetch[s].got} : s \in Server} :
       r # NoReading => ~(r.acc = a /\ r.high)

Servers ==
  \/ Provider
  \/ \E a \in Account : Climb(a) /\ Outlived(a)
  \/ \E s \in Server : Serve(s) \/ Restart(s)

DesktopNext == Desktop \/ (Servers /\ UNCHANGED desktop)

RefreshGood == Refresh /\ shown' # NoReading

DesktopFairness ==
  /\ \A s \in Server :
       /\ WF_all(PollStart(s) /\ UNCHANGED desktop)
       /\ SF_all(FetchRead(s) /\ UNCHANGED desktop)
       /\ SF_all(FetchEnd(s) /\ UNCHANGED desktop)
       /\ WF_all(SubmitEnd(s) /\ UNCHANGED desktop)
  /\ SF_all(RefreshGood) /\ WF_all(ReplyFinished)

DesktopSpec == DesktopInit /\ [][DesktopNext]_all /\ DesktopFairness

(***************************************************************************)
(* Properties.                                                             *)
(***************************************************************************)

(* With one server, restarted or not: from the moment a redemption of the  *)
(* account is under way or done, and as long as its usage has not fallen   *)
(* since, its receipt exists, through lost replies and restarts of the     *)
(* application (consumeChatGptReset, observeResetUsage).                   *)
LatchHolds ==
  \A a \in Account :
    level[a] = "high" /\ (spent[a] > 0 \/ \E r \in inflight : r.acc = a)
      => receipt[a] # NoId

(* Once the usage of an account stays below 95% and it stays signed in, it *)
(* ends up without a receipt: the button is not disabled for ever          *)
(* (observeResetUsage, the polls after the reply).                         *)
LatchReleased ==
  \A a \in Account :
    <>[](level[a] # "high" /\ \A s \in Server : cred[s] = a)
      => <>[](receipt[a] = NoId)
=============================================================================
