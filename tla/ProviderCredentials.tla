------------------------- MODULE ProviderCredentials -------------------------
(***************************************************************************)
(* The sign-in of one provider as the usage servers of an account use it:  *)
(* a fetch reads the credentials file that the provider's own tool keeps,  *)
(* refreshes what has expired or was refused, and writes the file back;    *)
(* Cursor and Grok also take credentials that a client pushes.  Several    *)
(* servers - of the desktop, of a `headroom serve', of an update that      *)
(* hands over - may share the file; each fetches one at a time.            *)
(*                                                                         *)
(* A credential is a number: the access token and the refresh token that   *)
(* were issued together, or a cookie.  A refresh spends its token: the     *)
(* provider takes it once and answers with the next pair.                  *)
(***************************************************************************)
EXTENDS Naturals, FiniteSets

CONSTANTS
  Server,
  NoServer,
  Discovering,  \* those that listen on loopback only: they may read Cursor's file
  MaxEvents     \* bound: expiries, revocations, failures, crashes, acts of a user

ASSUME CredentialAssumption ==
  NoServer \notin Server /\ Discovering \subseteq Server /\ MaxEvents \in Nat

VARIABLES
  provider,  \* which client is looked at; it does not change
  issued,    \* credentials 1 .. issued were issued
  live,      \* those whose refresh token the provider takes
  valid,     \* those with which it answers a usage request
  expired,   \* those whose recorded expiry is near or has passed
  file,      \* the one in the credentials file, 0 for none
  lock,      \* the holder of the file's lock across a refresh
  loaded,    \* what a server read last
  cookie,    \* what was pushed to it, or found
  job,       \* its fetch
  entry,     \* how the fetch before it ended, as the poller shows it
  ended,     \* revoked, spent in vain, or spent by the provider's own tool
  events

remote == <<provider, issued, live, valid, expired>>
vars == <<remote, file, lock, loaded, cookie, job, entry, ended, events>>

Provider == {"claude", "codex", "cursor", "grok"}
Outcome == {"good", "reauth", "error"}
Event == events < MaxEvents /\ events' = events + 1

(* Whether the usage request was refused before: "forced" while Claude's   *)
(* first refusal is being dealt with.                                      *)
Tried == {"no", "forced", "yes"}

Idle == [at |-> "idle", cred |-> 0, tried |-> "no", got |-> 0, res |-> "none"]

(* The reply to a refresh: one pair is spent, the next one issued.         *)
Issue(spent) ==
  /\ issued' = issued + 1
  /\ live' = (live \ spent) \cup {issued + 1}
  /\ valid' = valid \cup {issued + 1}
  /\ UNCHANGED <<provider, expired>>

-----------------------------------------------------------------------------
(* The end of a fetch, and of the lock that it held.                       *)
Release(s) == lock' = IF lock = s THEN NoServer ELSE lock

Finish(s, res) ==
  /\ entry' = [entry EXCEPT ![s] = res]
  /\ job' = [job EXCEPT ![s] = Idle]

(* Grok tries the cookie that was pushed when the reading has no weekly    *)
(* bucket, which a good reply may lack as well.                            *)
HasWeb(s) == provider = "grok" /\ cookie[s] # 0

End(s, res) ==
  /\ \/ /\ HasWeb(s)
        /\ job' = [job EXCEPT ![s] = [Idle EXCEPT !.at = "web", !.cred = cookie[s], !.res = res]]
        /\ UNCHANGED entry
     \/ (~HasWeb(s) \/ res = "good") /\ Finish(s, res)
  /\ Release(s)

(* A request fails; a timeout ends the fetch with it.                      *)
Fails(s) == End(s, "error") \/ (Finish(s, "error") /\ Release(s))

Goto(s, at, cred, tried) ==
  job' = [job EXCEPT ![s] = [Idle EXCEPT !.at = at, !.cred = cred, !.tried = tried]]

At(s, at) == job[s].at = at

(* No file, or one without an entry of this provider.                      *)
Absent ==
  CASE provider = "claude" -> {"reauth"}
    [] provider = "grok" -> {"reauth", "error"}
    [] OTHER -> {"error"}

(* credentials, Current, currentCredentials: Codex keeps what it has read  *)
(* as long as the file has not changed, Claude until it looks at the file  *)
(* in its next step.                                                       *)
Cached(s) == provider = "claude" /\ loaded[s] # 0

FetchFile(s) ==
  /\ provider # "cursor"
  /\ CASE Cached(s) -> Goto(s, "ensure", loaded[s], "no") /\ UNCHANGED <<entry, lock, loaded>>
       [] ~Cached(s) /\ file = 0 -> \E res \in Absent : End(s, res) /\ UNCHANGED loaded
       [] OTHER -> /\ Goto(s, IF provider = "claude" THEN "ensure"
                              ELSE IF file \in expired THEN "refresh" ELSE "send", file, "no")
                   /\ loaded' = [loaded EXCEPT ![s] = file]
                   /\ UNCHANGED <<entry, lock>>
  /\ UNCHANGED cookie

(* cookieHeader: what was pushed, or what Cursor's own file holds, where   *)
(* that may be read.                                                       *)
FetchCookie(s) ==
  /\ provider = "cursor"
  /\ LET c == IF cookie[s] # 0 THEN cookie[s] ELSE IF s \in Discovering THEN file ELSE 0 IN
     IF c = 0 THEN Finish(s, "error") /\ UNCHANGED cookie
     ELSE /\ cookie' = [cookie EXCEPT ![s] = c]
          /\ Goto(s, "send", c, "no") /\ UNCHANGED entry
  /\ UNCHANGED <<loaded, lock>>

FetchStart(s) ==
  /\ At(s, "idle")
  /\ FetchFile(s) \/ FetchCookie(s)
  /\ UNCHANGED <<remote, file, ended, events>>

(* ensureFreshCredentials, before each of Claude's two attempts: a file    *)
(* that changed is read again, and used without a look at its expiry.      *)
Ensure(s) ==
  /\ At(s, "ensure")
  /\ LET j == job[s] IN
     CASE file = 0 -> End(s, "error") /\ UNCHANGED loaded
       [] file \notin {0, j.cred} ->
            /\ Goto(s, "send", file, j.tried)
            /\ loaded' = [loaded EXCEPT ![s] = file] /\ UNCHANGED <<entry, lock>>
       [] OTHER -> /\ Goto(s, IF file \in expired THEN "refresh" ELSE "send", file, j.tried)
                   /\ UNCHANGED <<entry, lock, loaded>>
  /\ UNCHANGED <<remote, file, cookie, ended, events>>

(* With the refreshed credential the request is sent; Claude, refused      *)
(* before, starts its second attempt.                                      *)
Retry(s, c) ==
  IF job[s].tried = "forced" THEN Goto(s, "ensure", c, "yes") ELSE Goto(s, "send", c, job[s].tried)

(* Mutant: whatever the file holds by now is refreshed.                    *)
AdoptsNothing(s) == FALSE

(* Somebody else has replaced what this fetch wanted to refresh.           *)
Adopts(s) == file \notin {0, job[s].cred}

(* Mutant: the check and the request are not under the lock.               *)
NeedsNoLock(s) == FALSE

(* Grok holds the file's lock from the check to the write; the others only *)
(* for the write.                                                          *)
NeedsLock(s) == provider = "grok"

(* refreshCredentials, refresh: the file is read again.                    *)
Refresh(s) ==
  /\ At(s, "refresh")
  /\ NeedsLock(s) => lock = NoServer
  /\ IF file = 0 /\ provider # "codex"
     THEN End(s, "error") /\ UNCHANGED loaded
     ELSE IF Adopts(s)
     THEN /\ Retry(s, file)
          /\ loaded' = [loaded EXCEPT ![s] = file]
          /\ UNCHANGED <<entry, lock>>
     ELSE /\ Goto(s, "request", IF file = 0 THEN job[s].cred ELSE file, job[s].tried)
          /\ lock' = IF NeedsLock(s) THEN s ELSE lock
          /\ UNCHANGED <<entry, loaded>>
  /\ UNCHANGED <<remote, file, cookie, ended, events>>

(* requestRefresh, doRefresh.  Grok repeats a request that was certainly   *)
(* not carried out.                                                        *)
Request(s) ==
  /\ At(s, "request")
  /\ IF job[s].cred \in live
     THEN /\ Issue({job[s].cred})
          /\ job' = [job EXCEPT ![s].at = "save", ![s].got = issued + 1]
          /\ UNCHANGED <<lock, entry>>
     ELSE End(s, "reauth") /\ UNCHANGED remote
  /\ UNCHANGED <<file, loaded, cookie, ended, events>>

(* The request fails; it may have been carried out all the same.           *)
RequestFails(s) ==
  /\ At(s, "request") /\ Event
  /\ live' \in {live, live \ {job[s].cred}}
  /\ ended' = ended \cup (live \ live')
  /\ Fails(s)
  /\ UNCHANGED <<provider, issued, valid, expired, file, loaded, cookie>>

(* Mutant: the answer names no refresh token, the one that was spent stays.*)
SavedSpent(s) == job[s].cred

(* writeCredentials, SaveRefreshed, updateCredentialJSON: the file is      *)
(* replaced by what the answer holds, whatever it holds by now.  Grok      *)
(* completes what it read before the request, so it writes a file that was *)
(* removed meanwhile; the others read it again and give up.                *)
Saved(s) == job[s].got

Save(s) ==
  /\ At(s, "save")
  /\ IF file = 0 /\ ~NeedsLock(s)
     THEN End(s, "error") /\ ended' = ended \cup {job[s].cred} /\ UNCHANGED <<file, loaded>>
     ELSE /\ file' = Saved(s) /\ loaded' = [loaded EXCEPT ![s] = Saved(s)]
          /\ Retry(s, Saved(s))
          /\ Release(s) /\ UNCHANGED <<entry, ended>>
  /\ UNCHANGED <<remote, cookie, events>>

(* Mutant: a refused cookie stays.                                         *)
NothingCleared(s) == cookie

(* Cursor drops what it has, Grok only the cookie that was refused.        *)
Cleared(s) ==
  IF provider = "grok" /\ cookie[s] # job[s].cred THEN cookie ELSE [cookie EXCEPT ![s] = 0]

(* The usage request is refused, for the first or for the second time.     *)
Refused(s) ==
  LET j == job[s] IN
  CASE provider = "cursor" ->
         cookie' = Cleared(s) /\ Finish(s, "reauth") /\ UNCHANGED <<lock, loaded>>
    [] provider # "cursor" /\ j.tried = "yes" ->
         End(s, IF provider = "grok" THEN "reauth" ELSE "error") /\ UNCHANGED <<cookie, loaded>>
    [] provider = "codex" /\ j.tried = "no" /\ file # j.cred ->
         /\ IF file = 0 THEN End(s, "error") /\ UNCHANGED loaded
            ELSE /\ Goto(s, "send", file, "yes") /\ loaded' = [loaded EXCEPT ![s] = file]
                 /\ UNCHANGED <<lock, entry>>
         /\ UNCHANGED cookie
    [] OTHER -> /\ Goto(s, "refresh", j.cred, IF provider = "claude" THEN "forced" ELSE "yes")
                /\ UNCHANGED <<cookie, lock, loaded, entry>>

Send(s) ==
  /\ At(s, "send")
  /\ IF job[s].cred \in valid
     THEN End(s, "good") /\ UNCHANGED <<cookie, loaded>>
     ELSE Refused(s)
  /\ UNCHANGED <<remote, file, ended, events>>

(* Any other failure: an expected error, or the last good values.          *)
SendFails(s) ==
  /\ At(s, "send") /\ Event
  /\ Fails(s)
  /\ UNCHANGED <<remote, file, loaded, cookie, ended>>

(* populateWebUsage: the second source adds to the reading or stands in    *)
(* for it; a refusal leaves what there was, a timeout ends in an error.    *)
Web(s) ==
  /\ At(s, "web")
  /\ IF job[s].cred \in valid
     THEN Finish(s, "good") /\ UNCHANGED cookie
     ELSE Finish(s, job[s].res) /\ cookie' = Cleared(s)
  /\ UNCHANGED <<remote, file, lock, loaded, ended, events>>

WebFails(s) ==
  /\ At(s, "web") /\ Event
  /\ \E res \in {job[s].res, "error"} : Finish(s, res)
  /\ UNCHANGED <<remote, file, lock, loaded, cookie, ended>>

Fetch(s) ==
  FetchStart(s) \/ Ensure(s) \/ Refresh(s) \/ Request(s) \/ Save(s) \/ Send(s) \/ Web(s)

-----------------------------------------------------------------------------
(* A client pushes a credential of a fresh sign-in.                        *)
Push(s) ==
  /\ provider \in {"cursor", "grok"} /\ Event
  /\ Issue({}) /\ cookie' = [cookie EXCEPT ![s] = issued + 1]
  /\ UNCHANGED <<file, lock, loaded, job, entry, ended>>

(* The recorded expiry comes near; the provider stops to answer, with or   *)
(* without regard to it.                                                   *)
Lapse(c) ==
  /\ Event
  /\ \/ valid' = valid \ {c} /\ expired' \in {expired, expired \cup {c}}
     \/ expired' = expired \cup {c} /\ UNCHANGED valid
  /\ UNCHANGED <<provider, issued, live, file, lock, loaded, cookie, job, entry, ended>>

Revoke(c) ==
  /\ Event
  /\ live' = live \ {c} /\ valid' = valid \ {c} /\ ended' = ended \cup {c}
  /\ UNCHANGED <<provider, issued, expired, file, lock, loaded, cookie, job, entry>>

(* The provider's own tool refreshes what it finds, or signs in or out.    *)
ToolWrites ==
  /\ Event
  /\ \/ file \in live /\ Issue({file}) /\ file' = issued + 1 /\ ended' = ended \cup {file}
     \/ Issue({}) /\ file' = issued + 1 /\ UNCHANGED ended
     \/ file' = 0 /\ UNCHANGED <<remote, ended>>
  /\ UNCHANGED <<lock, loaded, cookie, job, entry>>

(* The server dies and is started again.                                   *)
Crash(s) ==
  /\ Event
  /\ ended' = IF At(s, "save") THEN ended \cup {job[s].cred} ELSE ended
  /\ job' = [job EXCEPT ![s] = Idle] /\ entry' = [entry EXCEPT ![s] = "none"]
  /\ loaded' = [loaded EXCEPT ![s] = 0] /\ cookie' = [cookie EXCEPT ![s] = 0]
  /\ Release(s)
  /\ UNCHANGED <<remote, file>>

Init ==
  /\ provider \in Provider
  /\ issued = 1 /\ live = {1} /\ valid = {1} /\ expired = {}
  /\ file \in {0, 1} /\ lock = NoServer
  /\ loaded = [s \in Server |-> 0] /\ cookie = [s \in Server |-> 0]
  /\ job = [s \in Server |-> Idle] /\ entry = [s \in Server |-> "none"]
  /\ ended = {} /\ events = 0

Around ==
  \/ ToolWrites
  \/ \E c \in 1 .. issued : (c \in valid /\ Lapse(c)) \/ (c \in live /\ Revoke(c))
  \/ \E s \in Server : Push(s) \/ Crash(s) \/ RequestFails(s) \/ SendFails(s) \/ WebFails(s)

Next == Around \/ \E s \in Server : Fetch(s)

(* The poller fetches at every interval, and every request has a timeout.  *)
Spec == Init /\ [][Next]_vars /\ \A s \in Server : WF_vars(Fetch(s))

-----------------------------------------------------------------------------
(* The types; and the lock is held only across the request and the write.  *)
TypeOK ==
  /\ provider \in Provider
  /\ issued \in Nat \ {0}
  /\ live \subseteq 1 .. issued /\ valid \subseteq 1 .. issued /\ expired \subseteq 1 .. issued
  /\ file \in 0 .. issued /\ lock \in Server \cup {NoServer}
  /\ lock # NoServer => job[lock].at \in {"request", "save"}
  /\ loaded \in [Server -> 0 .. issued] /\ cookie \in [Server -> 0 .. issued]
  /\ job \in [Server -> [at : {"idle", "ensure", "refresh", "request", "save", "send", "web"},
                         cred : 0 .. issued, tried : Tried, got : 0 .. issued,
                         res : Outcome \cup {"none"}]]
  /\ entry \in [Server -> Outcome \cup {"none"}]
  /\ ended \subseteq 1 .. issued /\ events \in 0 .. MaxEvents

(* The user stays signed in: unless its token was spent in vain or revoked,*)
(* the refresh token in the file is good, or a server is about to replace  *)
(* it by its successor - whatever refreshes of several servers and of the  *)
(* provider's tool overlap.                                                *)
SignedInStays ==
  provider # "cursor" /\ file # 0 =>
    \/ file \in live \cup ended
    \/ \E s \in Server : At(s, "save") /\ job[s].cred = file /\ job[s].got \in live \cup ended

(* A refresh token of Grok that a server has exchanged for its successor   *)
(* is not presented again by another one, which would end the session: the *)
(* sibling's rotation is adopted.  Of a token that is spent without an     *)
(* answer, or by Grok's own tool, no server can know.                      *)
ExchangedOnce ==
  provider = "grok" =>
    \A s \in Server : At(s, "request") => job[s].cred \in live \cup ended

(* No server spends a credential that works.                               *)
OnlyNeededRefresh ==
  [][\A s \in Server : Request(s) => job[s].cred \in expired \/ job[s].cred \notin valid]_vars

(* Once the file holds a good credential for good, every server that reads *)
(* it shows usage again: no cached credential, refused cookie or adopted   *)
(* rotation keeps one from it.                                             *)
Usable(s) == IF provider = "cursor" THEN s \in Discovering /\ file \in valid ELSE file \in live
Recovers == \A s \in Server : <>[]Usable(s) => <>[](entry[s] = "good")
=============================================================================
