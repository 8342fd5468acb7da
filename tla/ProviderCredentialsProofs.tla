---------------------- MODULE ProviderCredentialsProofs ----------------------
(***************************************************************************)
(* Theorems about the sign-in that several servers share, for any number   *)
(* of servers and of events around them.                                   *)
(***************************************************************************)
EXTENDS ProviderCredentials, TLAPS

-----------------------------------------------------------------------------
(* The inductive invariant, by what it is about.                           *)
Steps == {"idle", "ensure", "refresh", "request", "save", "send", "web"}
Jobs ==
  [at : Steps, cred : 0 .. issued, tried : Tried, got : 0 .. issued,
   res : Outcome \cup {"none"}]

(* What is good for a refresh, or bad through no fault of a server's.      *)
Kept == live \cup ended

(* The answer that a server is about to write is good, and nobody else has *)
(* it yet.                                                                 *)
SaveOK ==
  \A s \in Server : At(s, "save") =>
    /\ job[s].got \in Kept /\ job[s].got # 0 /\ file # job[s].got
    /\ \A t \in Server : /\ job[t].cred # job[s].got /\ cookie[t] # job[s].got
                         /\ loaded[t] # job[s].got
                         /\ t # s /\ At(t, "save") => job[t].got # job[s].got

(* Only what has expired or was refused is on its way to a refresh.        *)
NeededOK ==
  \A s \in Server :
    /\ job[s].at # "idle" => job[s].cred # 0
    /\ job[s].at \in {"ensure", "refresh", "request", "save"} => provider # "cursor"
    /\ job[s].at \in {"refresh", "request"} => job[s].cred \in expired \/ job[s].cred \notin valid

(* Grok's lock covers the request and the write.                           *)
LockOK ==
  provider = "grok" =>
    \A s \in Server : job[s].at \in {"request", "save"} => lock = s

IInv ==
  TypeOK /\ SaveOK /\ NeededOK /\ LockOK /\ SignedInStays /\ ExchangedOnce

-----------------------------------------------------------------------------
(* Steps that have no new credential issued or written.                    *)

(* The members of the types.                                               *)
LEMMA Typed ==
  ASSUME IInv
  PROVE  /\ job \in [Server -> Jobs]
         /\ \A s \in Server : /\ job[s] \in Jobs /\ cookie[s] \in 0 .. issued
                              /\ loaded[s] \in 0 .. issued
         /\ file \in 0 .. issued /\ issued \in Nat /\ Kept \subseteq 1 .. issued
BY DEF IInv, TypeOK, Jobs, Steps, Kept

(* A step of server s, which goes on, or ends its fetch.                   *)
Passes(s, r) ==
  /\ UNCHANGED <<provider, issued, valid, expired, file>>
  /\ live' \subseteq live /\ ended' \subseteq 1 .. issued /\ Kept \subseteq Kept'
  /\ job' = [job EXCEPT ![s] = r]
  /\ r \in Jobs /\ r.at # "save" /\ (r.at # "idle" => r.cred # 0)
  /\ r.cred \in {0, file, job[s].cred, cookie[s], loaded[s]}
  /\ cookie' \in [Server -> 0 .. issued]
  /\ \A t \in Server : cookie'[t] \in {0, file, cookie[t]}
  /\ loaded' \in [Server -> 0 .. issued]
  /\ \A t \in Server : loaded'[t] \in {0, file, loaded[t]}
  /\ entry' \in [Server -> Outcome \cup {"none"}]
  /\ events' \in 0 .. MaxEvents
  /\ r.at \in {"ensure", "refresh", "request"} => provider # "cursor"
  /\ r.at \in {"refresh", "request"} => r.cred \in expired \/ r.cred \notin valid
  /\ \/ lock' = lock /\ (lock = s => r.at = "request")
     \/ lock' = NoServer /\ lock = s
     \/ lock' = s /\ lock = NoServer /\ r.at = "request"
  /\ provider = "grok" /\ r.at = "request" => lock' = s /\ r.cred \in Kept
  /\ At(s, "save") /\ file = job[s].cred => file = 0 \/ file \in Kept'

LEMMA PassesOK ==
  ASSUME IInv, NEW s \in Server, NEW r, Passes(s, r)
  PROVE  IInv'
<1>1. \A t \in Server : job'[t] = IF t = s THEN r ELSE job[t]
  BY Typed DEF Passes
<1>2. TypeOK'
  <2>1. job' \in [Server -> Jobs']
    BY Typed DEF Passes, Jobs
  <2>2. lock' \in Server \cup {NoServer}
        /\ (lock' # NoServer => job'[lock'].at \in {"request", "save"})
    BY <1>1, CredentialAssumption DEF Passes, IInv, TypeOK
  <2>3. live' \subseteq 1 .. issued
    BY DEF Passes, IInv, TypeOK
  <2> QED BY <2>1, <2>2, <2>3 DEF Passes, IInv, TypeOK, Jobs, Steps
<1>3. SaveOK'
  <2> SUFFICES ASSUME NEW u \in Server, At(u, "save")'
               PROVE  /\ job'[u].got \in Kept' /\ job'[u].got # 0 /\ file' # job'[u].got
                      /\ \A t \in Server :
                           /\ job'[t].cred # job'[u].got /\ cookie'[t] # job'[u].got
                           /\ loaded'[t] # job'[u].got
                           /\ t # u /\ At(t, "save")' => job'[t].got # job'[u].got
    BY DEF SaveOK
  <2>1. u # s /\ job'[u] = job[u] /\ At(u, "save")
    BY <1>1 DEF Passes, At
  <2>2. /\ job[u].got \in Kept /\ job[u].got # 0 /\ file # job[u].got
        /\ \A t \in Server : /\ job[t].cred # job[u].got /\ cookie[t] # job[u].got
                             /\ loaded[t] # job[u].got
                             /\ t # u /\ At(t, "save") => job[t].got # job[u].got
    BY <2>1 DEF IInv, SaveOK
  <2>3. \A t \in Server : At(t, "save")' => At(t, "save") /\ job'[t] = job[t]
    BY <1>1 DEF Passes, At
  <2> QED BY <1>1, <2>1, <2>2, <2>3 DEF Passes
<1>4. NeededOK'
  BY <1>1 DEF Passes, IInv, NeededOK
<1>5. LockOK'
  BY <1>1, CredentialAssumption DEF Passes, IInv, LockOK
<1>6. SignedInStays'
  <2>1. CASE file \in Kept
    BY <2>1 DEF Passes, SignedInStays, Kept
  <2>2. CASE provider # "cursor" /\ file # 0 /\ file \notin Kept
    <3>1. PICK t \in Server :
            At(t, "save") /\ job[t].cred = file /\ job[t].got \in Kept
      BY <2>2 DEF IInv, SignedInStays, Kept
    <3>2. CASE t = s
      BY <2>2, <3>1, <3>2 DEF Passes, SignedInStays, Kept
    <3>3. CASE t # s
      BY <1>1, <3>1, <3>3 DEF Passes, SignedInStays, Kept, At
    <3> QED BY <3>2, <3>3
  <2> QED BY <2>1, <2>2 DEF Passes, SignedInStays
<1>7. ExchangedOnce'
  BY <1>1 DEF Passes, IInv, ExchangedOnce, Kept, At
<1> QED BY <1>2, <1>3, <1>4, <1>5, <1>6, <1>7 DEF IInv

(* What such a step leaves as it is, whatever becomes of the fetch.        *)
Quiet(s) ==
  /\ UNCHANGED <<provider, issued, valid, expired, file>>
  /\ live' \subseteq live /\ ended' \subseteq 1 .. issued /\ Kept \subseteq Kept'
  /\ cookie' \in [Server -> 0 .. issued]
  /\ \A t \in Server : cookie'[t] \in {0, file, cookie[t]}
  /\ loaded' \in [Server -> 0 .. issued]
  /\ \A t \in Server : loaded'[t] \in {0, file, loaded[t]}
  /\ events' \in 0 .. MaxEvents
  /\ At(s, "save") /\ file = job[s].cred => file = 0 \/ file \in Kept'

(* Outside of a refresh no server has the lock.                            *)
LEMMA NoLock ==
  ASSUME IInv, NEW s \in Server, job[s].at \notin {"request", "save"}
  PROVE  lock # s
BY CredentialAssumption DEF IInv, TypeOK

LEMMA IdleTyped == ASSUME IInv PROVE Idle \in Jobs
BY Typed DEF Idle, Jobs, Steps, Tried

LEMMA FinishPasses ==
  ASSUME IInv, NEW s \in Server, Quiet(s), NEW res \in Outcome \cup {"none"}, Finish(s, res),
         (lock' = lock /\ lock # s) \/ (lock' = NoServer /\ lock = s)
  PROVE  \E r : Passes(s, r)
<1>1. entry' \in [Server -> Outcome \cup {"none"}] /\ job' = [job EXCEPT ![s] = Idle]
  BY DEF Finish, IInv, TypeOK
<1>2. Passes(s, Idle)
  BY <1>1, IdleTyped DEF Quiet, Passes, Idle
<1> QED BY <1>2

LEMMA EndPasses ==
  ASSUME IInv, NEW s \in Server, Quiet(s), NEW res \in Outcome, End(s, res)
  PROVE  \E r : Passes(s, r)
<1>1. \/ lock' = lock /\ lock # s
      \/ lock' = NoServer /\ lock = s
  BY DEF End, Release
<1>2. CASE Finish(s, res)
  BY <1>1, <1>2, FinishPasses
<1>3. CASE ~Finish(s, res)
  <2> DEFINE r == [Idle EXCEPT !.at = "web", !.cred = cookie[s], !.res = res]
  <2>0. /\ job' = [job EXCEPT ![s] = r] /\ entry' = entry /\ cookie[s] \in 0 .. issued
        /\ provider = "grok" /\ cookie[s] # 0
    BY <1>3, Typed DEF End, HasWeb
  <2>1. /\ r \in Jobs /\ r.at = "web" /\ r.cred = cookie[s]
        /\ job' = [job EXCEPT ![s] = r] /\ entry' = entry
    BY <2>0, IdleTyped DEF Idle, Jobs, Steps, Tried
  <2>2. Passes(s, r)
    BY <1>1, <2>0, <2>1 DEF Quiet, Passes, IInv, TypeOK
  <2> QED BY <2>2
<1> QED BY <1>2, <1>3

LEMMA FailsPasses ==
  ASSUME IInv, NEW s \in Server, Quiet(s), Fails(s)
  PROVE  \E r : Passes(s, r)
<1>1. CASE End(s, "error")
  BY <1>1, EndPasses DEF Outcome
<1>2. CASE Finish(s, "error") /\ Release(s)
  <2>1. (lock' = lock /\ lock # s) \/ (lock' = NoServer /\ lock = s)
    BY <1>2 DEF Release
  <2> QED BY <1>2, <2>1, FinishPasses DEF Outcome
<1> QED BY <1>1, <1>2 DEF Fails

LEMMA GotoPasses ==
  ASSUME IInv, NEW s \in Server, Quiet(s), entry' = entry,
         NEW at \in {"ensure", "refresh", "request", "send"}, NEW cred \in 0 .. issued,
         NEW tried \in Tried,
         Goto(s, at, cred, tried), cred # 0, cred \in {file, job[s].cred, cookie[s], loaded[s]},
         at \in {"ensure", "refresh", "request"} => provider # "cursor",
         at \in {"refresh", "request"} => cred \in expired \/ cred \notin valid,
         lock # s, lock' = lock \/ (lock' = s /\ lock = NoServer /\ at = "request"),
         provider = "grok" /\ at = "request" => lock' = s /\ cred \in Kept
  PROVE  \E r : Passes(s, r)
<1> DEFINE r == [Idle EXCEPT !.at = at, !.cred = cred, !.tried = tried]
<1>1. /\ r \in Jobs /\ r.at = at /\ r.cred = cred /\ job' = [job EXCEPT ![s] = r]
  BY IdleTyped DEF Goto, Idle, Jobs, Steps
<1>2. Passes(s, r)
  BY <1>1 DEF Quiet, Passes, IInv, TypeOK
<1> QED BY <1>2

LEMMA FetchPasses ==
  ASSUME IInv, NEW s \in Server, FetchStart(s)
  PROVE  \E r : Passes(s, r)
<1>1. lock # s /\ file \in 0 .. issued
  BY NoLock, Typed DEF FetchStart, At
<1>2. CASE FetchFile(s) /\ ~Cached(s) /\ file = 0
  <2>1. Quiet(s)
    BY <1>2 DEF FetchStart, FetchFile, Quiet, IInv, TypeOK, At, remote, Kept
  <2>2. PICK res \in Absent : End(s, res)
    BY <1>2 DEF FetchFile
  <2>3. res \in Outcome
    BY DEF Absent, Outcome, IInv, TypeOK, Provider
  <2> QED BY <2>1, <2>2, <2>3, EndPasses
<1>3. CASE FetchFile(s) /\ ~Cached(s) /\ file # 0
  <2> DEFINE at == IF provider = "claude" THEN "ensure"
                   ELSE IF file \in expired THEN "refresh" ELSE "send"
  <2>1. /\ Goto(s, at, file, "no") /\ lock' = lock /\ entry' = entry
        /\ loaded' = [loaded EXCEPT ![s] = file] /\ provider # "cursor" /\ cookie' = cookie
    BY <1>3 DEF FetchFile
  <2>2. Quiet(s)
    BY <1>1, <1>3, <2>1 DEF FetchStart, Quiet, IInv, TypeOK, At, remote, Kept
  <2>3. at \in {"refresh", "request"} => file \in expired
    OBVIOUS
  <2> HIDE DEF at
  <2>4. at \in {"ensure", "refresh", "request", "send"} /\ at # "request"
    BY DEF at
  <2> QED BY <1>1, <1>3, <2>1, <2>2, <2>3, <2>4, GotoPasses DEF Tried
<1>5. CASE FetchFile(s) /\ Cached(s)
  <2>1. /\ Goto(s, "ensure", loaded[s], "no") /\ lock' = lock /\ entry' = entry
        /\ provider # "cursor" /\ loaded' = loaded /\ cookie' = cookie /\ loaded[s] # 0
    BY <1>5 DEF FetchFile, Cached
  <2>2. Quiet(s) /\ loaded[s] \in 0 .. issued
    BY <1>1, <2>1 DEF FetchStart, Quiet, IInv, TypeOK, At, remote, Kept
  <2> QED BY <1>1, <2>1, <2>2, GotoPasses DEF Tried
<1>4. CASE FetchCookie(s)
  <2> DEFINE c == IF cookie[s] # 0 THEN cookie[s] ELSE IF s \in Discovering THEN file ELSE 0
  <2>1. c \in 0 .. issued /\ c \in {0, file, cookie[s]}
    BY <1>1, Typed, CredentialAssumption
  <2>2. Quiet(s)
    BY <1>1, <1>4, <2>1 DEF FetchStart, FetchCookie, Quiet, IInv, TypeOK, At, remote, Kept
  <2>3. CASE c = 0
    BY <1>1, <1>4, <2>2, <2>3, FinishPasses DEF FetchCookie, Outcome
  <2>4. CASE c # 0
    BY <1>1, <1>4, <2>1, <2>2, <2>4, GotoPasses DEF FetchCookie, Tried
  <2> QED BY <2>3, <2>4
<1> QED BY <1>2, <1>3, <1>4, <1>5 DEF FetchStart

LEMMA EnsurePasses ==
  ASSUME IInv, NEW s \in Server, Ensure(s)
  PROVE  \E r : Passes(s, r)
<1>1. /\ lock # s /\ file \in 0 .. issued /\ job[s].tried \in Tried /\ At(s, "ensure")
      /\ UNCHANGED <<remote, file, cookie, ended, events>>
  BY NoLock, Typed DEF Ensure, At, Jobs
<1>2. loaded' = loaded \/ loaded' = [loaded EXCEPT ![s] = file]
  BY DEF Ensure
<1>3. Quiet(s)
  <2>1. loaded' \in [Server -> 0 .. issued] /\ \A t \in Server : loaded'[t] \in {file, loaded[t]}
    BY <1>1, <1>2 DEF IInv, TypeOK
  <2> QED BY <1>1, <2>1 DEF Quiet, IInv, TypeOK, At, remote, Kept
<1>4. CASE file = 0
  BY <1>3, <1>4, EndPasses DEF Ensure, Outcome
<1>5. CASE file # 0 /\ file # job[s].cred
  <2>1. Goto(s, "send", file, job[s].tried) /\ lock' = lock /\ entry' = entry
    BY <1>5 DEF Ensure
  <2> QED BY <1>1, <1>3, <1>5, <2>1, GotoPasses
<1>6. CASE file # 0 /\ file = job[s].cred
  <2>1. /\ \/ Goto(s, "refresh", file, job[s].tried) /\ file \in expired
           \/ Goto(s, "send", file, job[s].tried)
        /\ lock' = lock /\ entry' = entry
    BY <1>6 DEF Ensure
  <2>2. provider # "cursor"
    BY <1>1 DEF IInv, NeededOK, At
  <2> QED BY <1>1, <1>3, <1>6, <2>1, <2>2, GotoPasses
<1> QED BY <1>4, <1>5, <1>6

LEMMA RetryPasses ==
  ASSUME IInv, NEW s \in Server, Quiet(s), NEW c \in 0 .. issued, c # 0,
         c \in {file, job[s].cred}, provider # "cursor", Retry(s, c), lock # s, lock' = lock, entry' = entry
  PROVE  \E r : Passes(s, r)
<1>1. job[s].tried \in Tried
  BY Typed DEF Jobs
<1>2. CASE job[s].tried = "forced"
  BY <1>2, GotoPasses DEF Retry, Tried
<1>3. CASE job[s].tried # "forced"
  BY <1>1, <1>3, GotoPasses DEF Retry
<1> QED BY <1>2, <1>3

(* While nobody is about to write, Grok's file is good.                    *)
LEMMA GrokFile ==
  ASSUME IInv, provider = "grok", lock = NoServer, file # 0
  PROVE  file \in Kept
BY CredentialAssumption DEF IInv, SignedInStays, LockOK, Kept, At

LEMMA RefreshPasses ==
  ASSUME IInv, NEW s \in Server, Refresh(s)
  PROVE  \E r : Passes(s, r)
<1>1. /\ lock # s /\ file \in 0 .. issued /\ job[s].cred \in 0 .. issued /\ job[s].tried \in Tried
      /\ At(s, "refresh") /\ provider # "cursor" /\ job[s].cred # 0
      /\ job[s].cred \in expired \/ job[s].cred \notin valid
  BY NoLock, Typed DEF Refresh, At, IInv, NeededOK, Jobs
<1>2. Quiet(s)
  BY <1>1 DEF Refresh, Quiet, IInv, TypeOK, At, remote, Kept
<1>3. CASE file = 0 /\ provider # "codex"
  BY <1>2, <1>3, EndPasses DEF Refresh, Outcome
<1>4. CASE ~(file = 0 /\ provider # "codex") /\ Adopts(s)
  <2>1. Retry(s, file) /\ lock' = lock /\ entry' = entry
    BY <1>4 DEF Refresh
  <2>2. file # 0
    BY <1>4 DEF Adopts
  <2> QED BY <1>1, <1>2, <2>1, <2>2, RetryPasses
<1>5. CASE ~(file = 0 /\ provider # "codex") /\ ~Adopts(s)
  <2> DEFINE cred == IF file = 0 THEN job[s].cred ELSE file
  <2>1. Goto(s, "request", cred, job[s].tried) /\ entry' = entry
        /\ lock' = IF NeedsLock(s) THEN s ELSE lock
    BY <1>5 DEF Refresh
  <2>2. cred = job[s].cred
    BY <1>5 DEF Adopts
  <2>3. NeedsLock(s) => lock = NoServer
    BY DEF Refresh
  <2>4. provider = "grok" => lock' = s /\ cred \in Kept
    BY <1>5, <2>1, <2>3, GrokFile DEF NeedsLock
  <2> QED BY <1>1, <1>2, <2>1, <2>2, <2>3, <2>4, GotoPasses DEF NeedsLock
<1> QED BY <1>3, <1>4, <1>5

(* A step that only ends a fetch.                                          *)
LEMMA EndingPasses ==
  ASSUME IInv, NEW s \in Server,
         \/ Request(s) /\ job[s].cred \notin live
         \/ RequestFails(s) \/ (Save(s) /\ file = 0 /\ ~NeedsLock(s)) \/ SendFails(s)
  PROVE  \E r : Passes(s, r)
<1>1. CASE Request(s) /\ job[s].cred \notin live
  <2>1. Quiet(s) /\ End(s, "reauth")
    BY <1>1 DEF Request, Quiet, IInv, TypeOK, At, remote, Kept
  <2> QED BY <2>1, EndPasses DEF Outcome
<1>2. CASE RequestFails(s)
  <2>1. /\ Fails(s) /\ live' \subseteq live /\ ended' = ended \cup (live \ live')
        /\ events' \in 0 .. MaxEvents /\ At(s, "request")
        /\ UNCHANGED <<provider, issued, valid, expired, file, loaded, cookie>>
    BY <1>2, CredentialAssumption DEF RequestFails, Event, IInv, TypeOK
  <2>2. Quiet(s)
    BY <2>1 DEF Quiet, IInv, TypeOK, At, Kept
  <2> QED BY <2>1, <2>2, FailsPasses
<1>3. CASE Save(s) /\ file = 0 /\ ~NeedsLock(s)
  <2>1. Quiet(s) /\ End(s, "error")
    <3>1. job[s].cred \in 1 .. issued
      BY <1>3, Typed DEF Save, At, IInv, NeededOK, Jobs
    <3> QED BY <1>3, <3>1 DEF Save, Quiet, IInv, TypeOK, remote, Kept
  <2> QED BY <2>1, EndPasses DEF Outcome
<1>4. CASE SendFails(s)
  <2>1. /\ Fails(s) /\ events' \in 0 .. MaxEvents /\ At(s, "send")
        /\ UNCHANGED <<remote, file, loaded, cookie, ended>>
    BY <1>4, CredentialAssumption DEF SendFails, Event, IInv, TypeOK
  <2>2. Quiet(s)
    BY <2>1 DEF Quiet, IInv, TypeOK, At, Kept, remote
  <2> QED BY <2>1, <2>2, FailsPasses
<1> QED BY <1>1, <1>2, <1>3, <1>4

LEMMA SendPasses ==
  ASSUME IInv, NEW s \in Server, Send(s)
  PROVE  \E r : Passes(s, r)
<1>1. /\ lock # s /\ At(s, "send") /\ file \in 0 .. issued
      /\ job[s].cred \in 0 .. issued /\ job[s].cred # 0
  BY NoLock, Typed DEF Send, At, Jobs, IInv, NeededOK
<1>2. loaded' \in [Server -> 0 .. issued] /\ cookie' \in [Server -> 0 .. issued]
      /\ \A t \in Server : cookie'[t] \in {0, cookie[t]} /\ loaded'[t] \in {file, loaded[t]}
  <2>1. CASE job[s].cred \in valid
    BY <2>1 DEF Send, IInv, TypeOK
  <2>2. CASE job[s].cred \notin valid
    <3>1. Refused(s)
      BY <2>2 DEF Send
    <3>2. loaded' = loaded \/ loaded' = [loaded EXCEPT ![s] = file]
      BY <3>1 DEF Refused
    <3>3. cookie' = cookie \/ cookie' = [cookie EXCEPT ![s] = 0]
      BY <3>1 DEF Refused, Cleared
    <3>4. loaded' \in [Server -> 0 .. issued] /\ \A t \in Server : loaded'[t] \in {file, loaded[t]}
      BY <1>1, <3>2 DEF IInv, TypeOK
    <3>5. cookie \in [Server -> 0 .. issued] /\ 0 \in 0 .. issued
      BY DEF IInv, TypeOK
    <3>6. cookie' \in [Server -> 0 .. issued] /\ \A t \in Server : cookie'[t] \in {0, cookie[t]}
      BY <3>3, <3>5
    <3> QED BY <3>4, <3>6
  <2> QED BY <2>1, <2>2
<1>3. Quiet(s)
  BY <1>1, <1>2 DEF Send, Quiet, IInv, TypeOK, At, remote, Kept
<1>4. CASE job[s].cred \in valid
  BY <1>3, <1>4, EndPasses DEF Send, Outcome
<1>5. CASE job[s].cred \notin valid /\ provider = "cursor"
  BY <1>1, <1>3, <1>5, FinishPasses DEF Send, Refused, Outcome
<1>6. CASE job[s].cred \notin valid /\ provider # "cursor" /\ job[s].tried = "yes"
  BY <1>3, <1>6, EndPasses DEF Send, Refused, Outcome
<1>7. CASE job[s].cred \notin valid /\ provider # "cursor" /\ job[s].tried # "yes"
           /\ provider = "codex" /\ job[s].tried = "no" /\ file # job[s].cred
  <2>1. CASE file = 0
    BY <1>3, <1>7, <2>1, EndPasses DEF Send, Refused, Outcome
  <2>2. CASE file # 0
    BY <1>1, <1>3, <1>7, <2>2, GotoPasses DEF Send, Refused, Tried
  <2> QED BY <2>1, <2>2
<1>8. CASE job[s].cred \notin valid /\ provider # "cursor" /\ job[s].tried # "yes"
           /\ ~(provider = "codex" /\ job[s].tried = "no" /\ file # job[s].cred)
  <2> DEFINE tried == IF provider = "claude" THEN "forced" ELSE "yes"
  <2>1. Goto(s, "refresh", job[s].cred, tried) /\ lock' = lock /\ entry' = entry
    BY <1>8 DEF Send, Refused
  <2>2. tried \in Tried
    BY DEF Tried
  <2> HIDE DEF tried
  <2> QED BY <1>1, <1>3, <1>8, <2>1, <2>2, GotoPasses
<1> QED BY <1>4, <1>5, <1>6, <1>7, <1>8

LEMMA WebPasses ==
  ASSUME IInv, NEW s \in Server, Web(s) \/ WebFails(s)
  PROVE  \E r : Passes(s, r)
<1>1. /\ lock # s /\ At(s, "web") /\ job[s].res \in Outcome \cup {"none"}
  BY NoLock, Typed DEF Web, WebFails, At, Jobs
<1>2. /\ events' \in 0 .. MaxEvents /\ lock' = lock
      /\ UNCHANGED <<remote, file, loaded, ended>>
  BY CredentialAssumption DEF Web, WebFails, Event, IInv, TypeOK
<1>3. cookie' \in [Server -> 0 .. issued] /\ \A t \in Server : cookie'[t] \in {0, cookie[t]}
  BY DEF Web, WebFails, Cleared, IInv, TypeOK
<1>4. Quiet(s)
  BY <1>1, <1>2, <1>3 DEF Quiet, IInv, TypeOK, At, remote, Kept
<1>5. PICK res \in Outcome \cup {"none"} : Finish(s, res)
  BY <1>1 DEF Web, WebFails, Outcome
<1> QED BY <1>1, <1>2, <1>4, <1>5, FinishPasses

LEMMA CrashPasses ==
  ASSUME IInv, NEW s \in Server, Crash(s)
  PROVE  \E r : Passes(s, r)
<1>1. At(s, "save") => job[s].cred \in 1 .. issued
  BY Typed DEF At, IInv, NeededOK, Jobs
<1>2. /\ events' \in 0 .. MaxEvents /\ UNCHANGED <<remote, file>>
      /\ ended' = IF At(s, "save") THEN ended \cup {job[s].cred} ELSE ended
      /\ job' = [job EXCEPT ![s] = Idle] /\ entry' = [entry EXCEPT ![s] = "none"]
      /\ loaded' = [loaded EXCEPT ![s] = 0] /\ cookie' = [cookie EXCEPT ![s] = 0]
      /\ lock' = IF lock = s THEN NoServer ELSE lock
  BY CredentialAssumption DEF Crash, Event, Release, IInv, TypeOK
<1>3. /\ loaded' \in [Server -> 0 .. issued] /\ cookie' \in [Server -> 0 .. issued]
      /\ entry' \in [Server -> Outcome \cup {"none"}]
      /\ \A t \in Server : /\ cookie'[t] \in {0, file, cookie[t]}
                            /\ loaded'[t] \in {0, file, loaded[t]}
  BY <1>2 DEF IInv, TypeOK
<1>4. Passes(s, Idle)
  BY <1>1, <1>2, <1>3, IdleTyped DEF Passes, Idle, IInv, TypeOK, remote, Kept
<1> QED BY <1>4

-----------------------------------------------------------------------------
(* Steps in which a credential is issued, written or invalidated.          *)

(* What happens around the servers: new names are not in use yet.          *)
World ==
  /\ UNCHANGED <<provider, job, lock, entry, loaded>>
  /\ issued' \in {issued, issued + 1} /\ events' \in 0 .. MaxEvents
  /\ live' \subseteq 1 .. issued' /\ valid' \subseteq 1 .. issued'
  /\ expired' \subseteq 1 .. issued' /\ ended' \subseteq 1 .. issued'
  /\ Kept \subseteq Kept' /\ expired \subseteq expired'
  /\ \A c \in 1 .. issued : c \in valid' => c \in valid
  /\ file' \in {file, 0} \/ (issued' = issued + 1 /\ file' = issued' /\ file' \in live')
  /\ cookie' \in [Server -> 0 .. issued']
  /\ \A t \in Server :
       cookie'[t] = cookie[t] \/ (issued' = issued + 1 /\ cookie'[t] = issued')

LEMMA WorldOK == ASSUME IInv, World PROVE IInv'
<1>1. 0 .. issued \subseteq 0 .. issued' /\ issued' \in Nat \ {0} /\ issued \in Nat
  BY DEF World, IInv, TypeOK
<1>2. TypeOK'
  <2>1. job' \in [Server -> Jobs']
    BY <1>1, Typed DEF World, Jobs
  <2>2. file' \in 0 .. issued' /\ loaded' \in [Server -> 0 .. issued']
    BY <1>1, Typed DEF World, IInv, TypeOK
  <2> QED BY <1>1, <2>1, <2>2 DEF World, IInv, TypeOK, Jobs, Steps
<1>3. \A t \in Server : job[t].got \in 0 .. issued /\ job[t].cred \in 0 .. issued
  BY Typed DEF Jobs
<1>4. SaveOK'
  BY <1>1, <1>3 DEF World, IInv, SaveOK, At
<1>5. NeededOK'
  BY <1>3 DEF World, IInv, NeededOK
<1>6. LockOK'
  BY DEF World, IInv, LockOK
<1>7. SignedInStays'
  BY DEF World, IInv, SignedInStays, Kept, At
<1>8. ExchangedOnce'
  BY DEF World, IInv, ExchangedOnce, Kept, At
<1> QED BY <1>2, <1>4, <1>5, <1>6, <1>7, <1>8 DEF IInv

LEMMA AroundWorld ==
  ASSUME IInv,
         \/ ToolWrites
         \/ \E c \in 1 .. issued : (c \in valid /\ Lapse(c)) \/ (c \in live /\ Revoke(c))
         \/ \E s \in Server : Push(s)
  PROVE  World
<1>1. /\ issued \in Nat \ {0} /\ 1 .. issued \subseteq 1 .. (issued + 1)
      /\ live \subseteq 1 .. issued /\ valid \subseteq 1 .. issued
      /\ expired \subseteq 1 .. issued /\ ended \subseteq 1 .. issued
      /\ file \in 0 .. issued /\ cookie \in [Server -> 0 .. issued]
  BY DEF IInv, TypeOK
<1>2. events' \in 0 .. MaxEvents
  BY CredentialAssumption DEF ToolWrites, Lapse, Revoke, Push, Event, IInv, TypeOK
<1>3. CASE ToolWrites
  <2>1. CASE file \in live /\ Issue({file}) /\ file' = issued + 1 /\ ended' = ended \cup {file}
    BY <1>1, <1>2, <1>3, <2>1 DEF ToolWrites, World, Issue, Kept
  <2>2. CASE Issue({}) /\ file' = issued + 1 /\ UNCHANGED ended
    BY <1>1, <1>2, <1>3, <2>2 DEF ToolWrites, World, Issue, Kept
  <2>3. CASE file' = 0 /\ UNCHANGED <<remote, ended>>
    BY <1>1, <1>2, <1>3, <2>3 DEF ToolWrites, World, remote, Kept
  <2> QED BY <1>3, <2>1, <2>2, <2>3 DEF ToolWrites
<1>4. ASSUME NEW c \in 1 .. issued, Lapse(c) \/ Revoke(c) PROVE World
  BY <1>1, <1>2, <1>4 DEF Lapse, Revoke, World, Kept
<1>5. ASSUME NEW s \in Server, Push(s) PROVE World
  <2>1. cookie' \in [Server -> 0 .. issued']
    BY <1>1, <1>5 DEF Push, Issue
  <2> QED BY <1>1, <1>2, <1>5, <2>1 DEF Push, Issue, World, Kept
<1> QED BY <1>3, <1>4, <1>5

(* The provider takes the token and answers.                               *)
LEMMA RequestOK ==
  ASSUME IInv, NEW s \in Server, Request(s), job[s].cred \in live
  PROVE  IInv'
<1>1. /\ issued' = issued + 1 /\ live' = (live \ {job[s].cred}) \cup {issued + 1}
      /\ valid' = valid \cup {issued + 1} /\ At(s, "request")
      /\ job' = [job EXCEPT ![s].at = "save", ![s].got = issued + 1]
      /\ UNCHANGED <<provider, expired, lock, entry, file, loaded, cookie, ended, events>>
  BY DEF Request, Issue
<1>2. /\ issued \in Nat \ {0} /\ 0 .. issued \subseteq 0 .. issued' /\ 1 .. issued \subseteq 1 .. issued'
      /\ issued + 1 \notin 0 .. issued /\ file \in 0 .. issued
      /\ \A t \in Server : /\ job[t].got \in 0 .. issued /\ job[t].cred \in 0 .. issued
                           /\ cookie[t] \in 0 .. issued /\ loaded[t] \in 0 .. issued
  BY <1>1, Typed DEF IInv, TypeOK, Jobs
<1>3. \A t \in Server : /\ t # s => job'[t] = job[t]
                        /\ job'[t].cred = job[t].cred
  BY <1>1, Typed DEF Jobs
<1>4. job'[s].at = "save" /\ job'[s].got = issued + 1 /\ job[s] \in Jobs
  BY <1>1, Typed DEF Jobs
<1>5. TypeOK'
  <2>1. job' \in [Server -> Jobs']
    BY <1>1, <1>2, Typed DEF Jobs, Steps
  <2>2. lock # NoServer => job'[lock].at \in {"request", "save"}
    BY <1>3, <1>4 DEF IInv, TypeOK
  <2>3. /\ live' \subseteq 1 .. issued' /\ valid' \subseteq 1 .. issued'
        /\ expired' \subseteq 1 .. issued' /\ ended' \subseteq 1 .. issued' /\ file' \in 0 .. issued'
    BY <1>1, <1>2 DEF IInv, TypeOK
  <2>4. loaded' \in [Server -> 0 .. issued'] /\ cookie' \in [Server -> 0 .. issued']
    BY <1>1, <1>2 DEF IInv, TypeOK
  <2> QED BY <1>1, <1>2, <2>1, <2>2, <2>3, <2>4 DEF IInv, TypeOK, Jobs, Steps
<1>6. Kept \ {job[s].cred} \subseteq Kept' /\ issued + 1 \in Kept'
  BY <1>1 DEF Kept
<1>7. SaveOK'
  <2> SUFFICES ASSUME NEW u \in Server, At(u, "save")'
               PROVE  /\ job'[u].got \in Kept' /\ job'[u].got # 0 /\ file' # job'[u].got
                      /\ \A t \in Server :
                           /\ job'[t].cred # job'[u].got /\ cookie'[t] # job'[u].got
                           /\ loaded'[t] # job'[u].got
                           /\ t # u /\ At(t, "save")' => job'[t].got # job'[u].got
    BY DEF SaveOK
  <2>1. CASE u = s
    <3>1. job'[u].got = issued + 1 /\ issued + 1 # 0
      BY <1>2, <1>4, <2>1
    <3>2. job'[u].got \in Kept' /\ job'[u].got # 0 /\ file' # job'[u].got
      BY <1>1, <1>2, <1>6, <3>1
    <3>3. \A t \in Server : job'[t].cred # job'[u].got
      BY <1>2, <1>3, <3>1
    <3>4. \A t \in Server : cookie'[t] # job'[u].got /\ loaded'[t] # job'[u].got
      BY <1>1, <1>2, <3>1
    <3>5. \A t \in Server : t # u => job'[t].got # job'[u].got
      BY <1>2, <1>3, <2>1, <3>1
    <3> QED BY <3>2, <3>3, <3>4, <3>5
  <2>2. CASE u # s
    <3>1. job'[u] = job[u] /\ At(u, "save")
      BY <1>3, <2>2 DEF At
    <3>2. /\ job[u].got \in Kept /\ job[u].got # 0 /\ file # job[u].got
          /\ \A t \in Server : /\ job[t].cred # job[u].got /\ cookie[t] # job[u].got
                               /\ loaded[t] # job[u].got
                               /\ t # u /\ At(t, "save") => job[t].got # job[u].got
      BY <3>1 DEF IInv, SaveOK
    <3>3. \A t \in Server : t # s /\ At(t, "save")' => At(t, "save") /\ job'[t] = job[t]
      BY <1>3 DEF At
    <3>4. job[u].got # issued + 1
      BY <1>2
    <3>5. job'[u].got \in Kept' /\ job'[u].got # 0 /\ file' # job'[u].got
      BY <1>1, <1>4, <1>6, <3>1, <3>2, <3>4
    <3>6. ASSUME NEW t \in Server
          PROVE  /\ job'[t].cred # job'[u].got /\ cookie'[t] # job'[u].got
                 /\ loaded'[t] # job'[u].got
                 /\ t # u /\ At(t, "save")' => job'[t].got # job'[u].got
      <4>1. CASE t = s
        BY <1>1, <1>3, <1>4, <3>1, <3>2, <3>4, <4>1
      <4>2. CASE t # s
        BY <1>1, <1>3, <3>1, <3>2, <3>3, <4>2
      <4> QED BY <4>1, <4>2
    <3> QED BY <3>5, <3>6
  <2> QED BY <2>1, <2>2
<1>8. NeededOK'
  <2>1. \A t \in Server : job'[t].at \in {"refresh", "request"} => job'[t] = job[t]
    BY <1>3, <1>4
  <2>2. \A t \in Server : job'[t].cred # 0 \/ job'[t].at = "idle"
    BY <1>1, <1>3, <1>4 DEF IInv, NeededOK, At
  <2>3. \A t \in Server : job[t].cred \notin valid => job[t].cred \notin valid'
    BY <1>1, <1>2
  <2>4. expired' = expired /\ provider' = provider
    BY <1>1
  <2>5. provider # "cursor"
    BY <1>1 DEF IInv, NeededOK, At
  <2> QED BY <2>1, <2>2, <2>3, <2>4, <2>5 DEF IInv, NeededOK
<1>9. LockOK'
  BY <1>1, <1>3, <1>4 DEF IInv, LockOK, At
<1>10. SignedInStays'
  <2>1. CASE file \in Kept /\ file # job[s].cred
    BY <1>1, <1>6, <2>1 DEF SignedInStays, Kept
  <2>2. CASE file = job[s].cred
    BY <1>1, <1>3, <1>4, <1>6, <2>2 DEF SignedInStays, Kept, At
  <2>3. CASE provider # "cursor" /\ file # 0 /\ file \notin Kept
    <3>1. PICK t \in Server : At(t, "save") /\ job[t].cred = file /\ job[t].got \in Kept
      BY <2>3 DEF IInv, SignedInStays, Kept
    <3>2. t # s /\ job[t].got # job[s].cred
      BY <1>1, <3>1 DEF IInv, SaveOK, At
    <3> QED BY <1>1, <1>3, <1>6, <3>1, <3>2 DEF SignedInStays, Kept, At
  <2> QED BY <1>1, <2>1, <2>2, <2>3 DEF SignedInStays
<1>11. ExchangedOnce'
  <2> SUFFICES ASSUME NEW t \in Server, provider = "grok", At(t, "request")'
               PROVE  job'[t].cred \in Kept'
    BY <1>1 DEF ExchangedOnce, Kept
  <2>1. t # s /\ At(t, "request")
    BY <1>3, <1>4 DEF At
  <2> QED BY <1>1, <2>1 DEF IInv, LockOK, At
<1> QED BY <1>5, <1>7, <1>8, <1>9, <1>10, <1>11 DEF IInv

(* The answer is written; it was good, and nobody else's.                  *)
LEMMA SaveOKStep ==
  ASSUME IInv, NEW s \in Server, Save(s), ~(file = 0 /\ ~NeedsLock(s))
  PROVE  IInv'
<1> DEFINE got == job[s].got
           r == IF job[s].tried = "forced"
                THEN [Idle EXCEPT !.at = "ensure", !.cred = got, !.tried = "yes"]
                ELSE [Idle EXCEPT !.at = "send", !.cred = got, !.tried = job[s].tried]
<1>1. /\ file' = got /\ loaded' = [loaded EXCEPT ![s] = got]
      /\ job' = [job EXCEPT ![s] = r] /\ lock' = (IF lock = s THEN NoServer ELSE lock)
      /\ At(s, "save") /\ UNCHANGED <<remote, entry, ended, cookie, events>>
  BY DEF Save, Saved, Retry, Goto, Release
<1>2. got \in 0 .. issued /\ got # 0 /\ got \in Kept /\ job[s].tried \in Tried
  BY <1>1, Typed DEF IInv, SaveOK, Jobs
<1>3. r \in Jobs /\ r.at \in {"send", "ensure"} /\ r.cred = got
  BY <1>2, IdleTyped DEF Idle, Jobs, Steps, Tried
<1>4. \A t \in Server : job'[t] = IF t = s THEN r ELSE job[t]
  BY <1>1, Typed
<1>5. TypeOK'
  <2>1. job' \in [Server -> Jobs']
    BY <1>1, <1>3, Typed DEF Jobs, remote
  <2>2. lock' \in Server \cup {NoServer}
        /\ (lock' # NoServer => job'[lock'].at \in {"request", "save"})
    BY <1>1, <1>4, CredentialAssumption DEF IInv, TypeOK
  <2> QED BY <1>1, <1>2, <2>1, <2>2 DEF IInv, TypeOK, Jobs, Steps, remote
<1>6. SaveOK'
  <2> SUFFICES ASSUME NEW u \in Server, At(u, "save")'
               PROVE  /\ job'[u].got \in Kept' /\ job'[u].got # 0 /\ file' # job'[u].got
                      /\ \A t \in Server :
                           /\ job'[t].cred # job'[u].got /\ cookie'[t] # job'[u].got
                           /\ loaded'[t] # job'[u].got
                           /\ t # u /\ At(t, "save")' => job'[t].got # job'[u].got
    BY DEF SaveOK
  <2>1. u # s /\ job'[u] = job[u] /\ At(u, "save")
    BY <1>3, <1>4 DEF At
  <2>2. /\ job[u].got \in Kept /\ job[u].got # 0 /\ got # job[u].got
        /\ \A t \in Server : /\ job[t].cred # job[u].got /\ cookie[t] # job[u].got
                             /\ loaded[t] # job[u].got
                             /\ t # u /\ At(t, "save") => job[t].got # job[u].got
    BY <1>1, <2>1 DEF IInv, SaveOK
  <2>3. \A t \in Server : At(t, "save")' => At(t, "save") /\ job'[t] = job[t]
    BY <1>3, <1>4 DEF At
  <2>4. Kept' = Kept
    BY <1>1 DEF Kept, remote
  <2>5. \A t \in Server : job'[t].cred \in {got, job[t].cred}
    BY <1>3, <1>4
  <2>6. file' = got /\ cookie' = cookie /\ \A t \in Server : loaded'[t] \in {got, loaded[t]}
    BY <1>1 DEF IInv, TypeOK
  <2> HIDE DEF got
  <2> QED BY <2>1, <2>2, <2>3, <2>4, <2>5, <2>6
<1>7. NeededOK'
  <2>1. provider # "cursor"
    BY <1>1 DEF IInv, NeededOK, At
  <2>2. /\ provider' = provider /\ valid' = valid /\ expired' = expired
        /\ job'[s].at \in {"send", "ensure"} /\ job'[s].cred # 0
    BY <1>1, <1>2, <1>3, <1>4 DEF remote
  <2>3. \A t \in Server : t # s => job'[t] = job[t]
    BY <1>4
  <2> QED BY <2>1, <2>2, <2>3 DEF IInv, NeededOK
<1>8. LockOK'
  BY <1>1, <1>3, <1>4, CredentialAssumption DEF IInv, LockOK, remote
<1>9. SignedInStays'
  BY <1>1, <1>2 DEF SignedInStays, Kept, remote
<1>10. ExchangedOnce'
  BY <1>1, <1>3, <1>4 DEF IInv, ExchangedOnce, At, remote
<1> QED BY <1>5, <1>6, <1>7, <1>8, <1>9, <1>10 DEF IInv

-----------------------------------------------------------------------------
(* The invariant holds at first.                                           *)
LEMMA InitOK == Init => IInv
<1> SUFFICES ASSUME Init PROVE IInv
  OBVIOUS
<1>1. \A s \in Server : job[s] = Idle /\ Idle.at = "idle"
  BY DEF Init, Idle
<1>2. TypeOK
  BY CredentialAssumption DEF Init, TypeOK, Idle, Outcome, Tried
<1>3. SaveOK /\ NeededOK /\ LockOK /\ ExchangedOnce
  BY <1>1 DEF SaveOK, NeededOK, LockOK, ExchangedOnce, At
<1>4. SignedInStays
  BY DEF Init, SignedInStays
<1> QED BY <1>2, <1>3, <1>4 DEF IInv

(* Every step preserves it.                                                *)
LEMMA NextOK == IInv /\ [Next]_vars => IInv'
<1> SUFFICES ASSUME IInv, [Next]_vars PROVE IInv'
  OBVIOUS
<1>1. CASE UNCHANGED vars
  BY <1>1 DEF vars, remote, IInv, TypeOK, SaveOK, NeededOK, LockOK, SignedInStays,
              ExchangedOnce, Kept, At
<1>2. ASSUME NEW s \in Server, Fetch(s) PROVE IInv'
  <2>1. CASE Request(s) /\ job[s].cred \in live
    BY <2>1, RequestOK
  <2>2. CASE Save(s) /\ ~(file = 0 /\ ~NeedsLock(s))
    BY <2>2, SaveOKStep
  <2>3. CASE \/ FetchStart(s) \/ Ensure(s) \/ Refresh(s) \/ (Request(s) /\ job[s].cred \notin live)
             \/ (Save(s) /\ file = 0 /\ ~NeedsLock(s)) \/ Send(s) \/ Web(s)
    BY <2>3, FetchPasses, EnsurePasses, RefreshPasses, EndingPasses, SendPasses, WebPasses, PassesOK
  <2> QED BY <1>2, <2>1, <2>2, <2>3 DEF Fetch
<1>3. CASE Around
  <2>1. ASSUME NEW s \in Server, Crash(s) \/ RequestFails(s) \/ SendFails(s) \/ WebFails(s)
        PROVE  IInv'
    BY <2>1, CrashPasses, EndingPasses, WebPasses, PassesOK
  <2> QED BY <1>3, <2>1, AroundWorld, WorldOK DEF Around
<1> QED BY <1>1, <1>2, <1>3 DEF Next

(* So it holds always.                                                     *)
LEMMA Inductive == Spec => []IInv
BY InitOK, NextOK, PTL DEF Spec

(* Every variable keeps its type, and the lock is held for a refresh only. *)
THEOREM TypeCorrect == Spec => []TypeOK
<1>1. IInv => TypeOK
  BY DEF IInv
<1> QED BY <1>1, Inductive, PTL

(* The sign-in in the file is good, or about to be replaced by its         *)
(* successor, as long as nobody else spoils it.                            *)
THEOREM SignedIn == Spec => []SignedInStays
<1>1. IInv => SignedInStays
  BY DEF IInv
<1> QED BY <1>1, Inductive, PTL

(* What one server exchanged with Grok, no other presents.                 *)
THEOREM RotationAdopted == Spec => []ExchangedOnce
<1>1. IInv => ExchangedOnce
  BY DEF IInv
<1> QED BY <1>1, Inductive, PTL

(* Nothing that works is spent.                                            *)
THEOREM RefreshNeeded == Spec => OnlyNeededRefresh
<1>1. IInv /\ [Next]_vars
        => [\A s \in Server : Request(s) => job[s].cred \in expired \/ job[s].cred \notin valid]_vars
  BY DEF IInv, NeededOK, Request, At
<1> QED BY <1>1, Inductive, PTL DEF Spec, OnlyNeededRefresh

=============================================================================
