# Headroom: specifications of updates, installs, services, pairs, sign-ins and the usage reset

Headroom shows the usage of AI subscriptions. A small Go server polls the
providers; a Qt desktop client, a terminal dashboard and a legacy Windows tray
client show what it returns; a Go *package manager* installs, updates, repairs and
launches all of it. This directory holds TLA+ specifications of the parts whose
correctness depends on the order of events: TLC checks them on small instances and
TLAPS proves theorems about them for all instances.

    tlc -workers 2 -config DesktopSafety.cfg MCApplyTransaction
    tlc -workers 2 -config PairedUpdate.cfg MCPairedUpdate
    tlapm PairedUpdateProofs.tla

Seven parts are modelled:

* the **apply transaction**, which replaces an installation under a running application;
* the **managed service**, the `headroom serve` processes that an update stops and starts
  again, by itself or through the unit `headroom.service`;
* the **install transaction**, the installer and the entry migration on the same install
  root, with the recovery and the superseding of what others left open;
* the **update service**, the way of an update from the release to the commit: the
  desktop's child processes, its buttons, `headroom update` and the staging directory;
* the **paired update** of a Windows desktop and a WSL server, with their handshake;
* the **provider sign-ins**, token files that several servers and the provider's own
  tool refresh and replace;
* the **Codex reset**, which spends a banked credit of the user and which, as its
  comments say, no test may ever run.

## The system

Paths are relative to `src/`; `contract/` is `packaging/headroom-manager/contract/`,
`pairing/` is `packaging/headroom-manager/pairing/`, `providers/` is
`server/internal/providers/`.

| component | state | operations | why it is hard | what makes it correct |
|---|---|---|---|---|
| apply transaction `contract/transaction.go` | install root: `install-state.json`, `versions/*`, stable entries (launchers, CLI), `transactions/apply-*/{journal,bootstrap-backup,commit}.json`, `last-apply-result.json` | PrepareApply, CommitPreparedApply, ApplyPrepared (with recoverFailure), RecoverInstall | a crash or an error at every step, recovered by another process; recovery itself interrupted; two-step authorisation with timeouts | the entries and the active generation agree whenever no transaction is open; the active generation is never removed; one transaction at a time; nothing changes without a commit; an open transaction is closed eventually |
| install transaction `contract/install.go` | the same root, `transactions/{install,migrate}-*` | InstallArchiveWithCLIEntry, MigrateManagedEntries, superseding, RecoverInstall on their journals | runs over an installation in any state of an interrupted update; its undo may fail too; releases the lock between recovery and work | the active generation stays; closed transactions leave complete entries; what was superseded is never undone |
| launcher `cmd/headroom-manager/launch.go` | none | recover, verify, start the active executable | races with an update | starts only a complete generation |
| managed service receipt `contract/service*.go` | `runtime/managed-serve.json`, the processes | register, ready, unregister, supervised handoff | lock-free checks and reads next to locked writes; dead processes; restarts by systemd | at most one registered service; an update replaces it; a dead receipt is harmless |
| staging `contract/update*.go` | stage directories | check, download, verify, clean up | several processes use one directory; a download that is cut short | what someone holds ready stays, a stage is applied only when verified |
| update service `clients/desktop/updateservice.cpp` | the child's operation, the verified stage, the waiting command, the coordinator | inspect, check, stage, repair, apply, cancel; requests of `headroom update` | replies, queued calls, buttons and requests in any order; a coordinator that calls back | what is applied is verified; commands are answered, and truly; a pair is not left unasked |
| paired update `pairing/`, `cmd/headroom/pairing.go` | `pairing/{windows-wsl,prepared-update,update-progress}.json` of both ends | pair, prepare, commit and verify peer, commit local; resume; reconcile | lost and late requests, an exit between the two commits, either side advancing alone, rollbacks, crossing offers | both ends agree on the pair; the local side follows the peer; neither end goes back; an unfinished pair resolves |
| manifest, archive, materialize | none | verify, extract | none (sequential validation) | — |
| server `server/app`, `internal/server` | listeners, desktop session | start, shut down, end with the parent | shutdown order | no orphan server |
| poller `internal/poller` | entry and last good reading per provider | periodic poll, poll of one provider | concurrent polls, errors over good readings | one fetch at a time per provider; an error shows as one |
| provider clients `providers/*`, `credstore` | token files and their locks, cached credentials, pushed cookies | fetch, refresh, adopt, write back, push | refresh tokens are good for one use; several servers and foreign tools share the file; requests run outside locks | the user stays signed in; no working credential is spent; a server comes back once the file is good |
| Codex reset `providers/codex/reset.go`, `api/handlers.go` | attempted ids, the gate (latest attempt, its account, whether its effect was observed) | status, poll, consume, observe usage, delayed refresh | ambiguous outcomes, replays, old readings, an account that changes meanwhile, restarts | every request id reaches the provider at most once; no second credit before usage has fallen; the confirmed account pays; the gate opens again |
| desktop reset action `clients/desktop/resetaction.cpp` | the receipt file of an account, the confirmation, the pending reply | prepare, cancel, confirm, observe usage, quit | the application or the server dies between any two steps; readings from several servers | the receipt stands from before the request until usage has fallen, and not for ever |
| SSH access `sshaccess` | private Unix socket | claim, recover stale, serve | replacement races | one owner |
| desktop client `clients/desktop` | owned server, single instance, settings | start, adopt, stop, push credentials | asynchronous processes and replies, generations of requests | replies of an earlier configuration are ignored |
| presentation, legacy client, scripts | — | — | — | — |

Components interact through files under the install root (guarded by one install
lock), process creation and exit, the server's HTTP API, and standard input and
output of helper processes. The desktop client calls PrepareApply, starts the
detached transaction manager (ApplyPrepared), waits for its acknowledgement, writes
the commit and quits. Every launcher, installer and migration runs RecoverInstall before
anything else. A coordinator reaches its own end through the desktop or the package
manager, and the other end through a helper process there.

`PROJECT.json` lists every component with its status, and the hazards with the lines
at which they bite.

## The modules

| module | models |
|---|---|
| `InstallRoot` | constants, state of the install root, its journals and processes; writes that may fail; crash, release of the lock; rollbackJournal and the relaunches, which two callers share |
| `ApplyPrepared` | PrepareApply, CommitPreparedApply, every step and every error exit of ApplyPrepared, recoverFailure |
| `RecoverInstall` | RecoverInstall on apply journals and prepared directories, and the launcher's start of the active executable |
| `ApplyTransaction` | their composition with applications that exit and a managed service that registers, dies and unregisters; Spec, the properties, the refinement mapping |
| `AtomicInstall` | the abstract specification: a switch of the active generation that looks atomic |
| `ServeProcess` | a `headroom serve` process: its launcher, registration, the handoffs past the install lock, readiness and end |
| `ManagedService` | the holder of the install lock as far as the service is concerned: update, rollback and recovery stop it, start it and wait for it; Spec, the properties |
| `InstallTransaction` | installs, migrations and (coarser) updates on one root, the recovery of all three kinds of journals, superseding; lost backups and components |
| `UpdateService` | the desktop's update service, its child process and the staging directory, `headroom update`, the coordinator of a pair as the desktop sees it; releases, reinstalls, restarts |
| `PairedInstalls` | the two ends of a pair: their installations with native transactions (committed, switched, rolled back), pairing files and the peer's handlers |
| `PairHandshake` | `headroom pair` of both ends |
| `PairedUpdate` | the coordinator (Coordinator.Run), at either end; Spec, the properties |
| `ProviderCredentials` | the four provider clients on one sign-in: cached and pushed credentials, expiry, refresh, adoption, retry, the file and its lock; the provider; its tool and a user |
| `CodexReset` | the provider, and on every server the sign-in, poller, reset handler and the Codex client's attempts and gate; Spec, the properties |
| `DesktopReset` | extends it with the desktop's reset action and with servers that restart |
| `MC...` | the instances TLC checks, one module per specification |
| `ApplyTransactionProofs` | types of `ApplyTransaction`, the active generation, one open transaction |
| `ApplyRollbackProofs` | on top of it: entries, backups, processes, the refinement of `AtomicInstall` |
| `ManagedServiceProofs`, `InstallTransactionProofs`, `UpdateServiceProofs`, `PairedUpdateProofs`, `ProviderCredentialsProofs` | inductive invariants and theorems about the module of that name |
| `ResetProofs` | theorems about `CodexReset` and, on top of them, about the desktop's receipt |

### From the code to the model: the apply transaction

* PrepareApply, ApplyPrepared and RecoverInstall run under the install lock, so there
  is at most one of them at work: `pc`, `by`, `cur`, `mem`, `idx`, `origin`,
  `cleanupErr` and `todo` are its program counter and its local variables. `mem` is
  the in-memory `ApplyJournal`, `journal[t]` the one on disk; they differ after a
  failed write, and recovery in another process only has the latter.
* One action is one durable effect (a journal write, one replaced entry, a removed
  directory, a started or stopped process) with the code up to the next one; so a
  crash (`Crash`) strikes between any two effects. A write that reports an error may
  or may not have happened (rename before the fsync that fails), and the action
  chooses.
* The error exits are those of the code: before the application has exited an error
  just returns (`"return"`); after it, the deferred recoverFailure runs (`"fail"`);
  three errors first undo the entries or drop the generation, ignoring the outcome
  (`"undo"`, `"discard"`).
* A generation is named by the transaction that created it (createGeneration draws a
  fresh random directory). `gens` are those whose manifest verifies. `boot[x]` is the
  generation whose file stands at entry x. `Auxiliary` are entries whose mismatch
  ActiveExecutableForRole tolerates (isAuxiliaryPath): all launchers, but not the CLI.
* `PrepareApply` is one step: it writes its journal last, and what it writes before is
  not looked at by anyone. Its `Version` guard and the pinned prior state are kept.
* `AtomicInstall` sees three things: the active generation, the one generation at all
  entries (or `Mixed`), and where the open transaction started. The mapping is at the
  end of the properties of `ApplyTransaction`; a transaction is open while its journal
  is, and while the holder of the lock works on it.

### What is abstracted there

* Durability: a completed write survives (the code fsyncs files and directories); the
  crashes are crashes of processes. RemoveAll removes a directory or leaves it.
* Applications: one process per generation, `apps` is a set. One managed service.
* The service's registration and its readiness are one step, as are the end of a
  launcher's recovery and its start of the executable.
* Services under a systemd supervisor are left to `ManagedService`; install and migration
  journals are left out, and with them RecoverInstall's `obsolete` branch, which needs a state that
  is neither the transaction's prior nor its candidate. `Decide` has no step for that
  state, and as deadlock is checked the runs show that updates alone never reach it.
* `Checked`, the entries whose mismatch a launch does not tolerate, are those that are not
  auxiliary; auxiliary ones are still replaced and restored with the others.
* Digests, nonces and paths are identities of what they name. Timeouts are choices: the
  commit's is not counted as a failure when no commit has been written, the exit's is.

### From the code to the model: the managed service

* `proc[p]` is a `headroom serve` process. Launcher and service are one process, since the
  launcher execs the active executable (launch_unix.go): `"launch"`, `"waiting"` and
  `"recovering"` are its launcher, `"exec"` the program before it has a receipt,
  `"accepting"`, `"registering"` and `"marking"` stand between a check and the write that
  relies on it, `"up"`, `"bound"` and `"ready"` are the server. `sup` says that systemd
  started it, `token` that a manager did and gave it a token.
* `receipt` is `managed-serve.json`, `intent` `supervised-restart.json`; `unit` is
  systemd's view of `headroom.service`: its main process, and whether it is to run
  (server/deploy/wsl/headroom.service has Restart=on-failure).
* `journal.claim` is the service that PrepareApply found, `journal.svc` the candidate's
  that was recorded. `child` is the process `launchManagedService` waits for.
* `by`, `pc` are the holder of the lock: the detached manager, a launcher of the
  application or `headroom-package recover` (`Launcher`), or the launcher of a service
  process, which then goes on as that service. The manager's steps around the service are
  as in `ApplyPrepared` and `RecoverInstall`, those in between are one step each (`copy`,
  `switch`).
* `StopService` sends the signals or runs `systemctl stop`, which return when the processes
  are gone (`Stopped`): a service on its way out must unregister, and while the lock is
  held it leaves the receipt instead (`Unregister`, "Service shutdown must never wait on
  that updater").
* A deadline may pass at any time; it counts as a fault as long as faults are left, and
  stays possible afterwards, so that no wait can block for ever.
* Left out: the launcher that stays beside a service on Windows; the comparison of the
  process's arguments, environment and owner; a process identifier that is used again
  while a file still names it.

What the model shows beside the properties: a service that registers between PrepareApply
and the lock of ApplyPrepared is no participant and survives the update, on the old
generation (service.go:175 checks the generation before it takes the lock). When a holder
dies after it has started the prior generation's own service, the next recovery starts a
second one that cannot bind, and its launch keeps failing while the first one lives. A
holder that dies during a restart through the unit leaves the intent; after a later update
without a claim it names an older generation, and every start of the unit fails
(`AcceptSupervised`). After a crash, a service whose receipt was overwritten between check
and write may serve unregistered; that is why `ServingIsRegistered` asks for `faults = 0`. And
acceptance by the unit's main process is a check and a later write, both without the lock
(`AcceptSupervised`, `WriteAccepted`): after a restart through the unit has failed, and a
second update has begun, the process of the first may write its receipt over that of the
service the second one has just found ready. `ServiceFollows` therefore speaks of the moment
when the holder reads the receipt, and not of the moment when it closes the journal.

### From the code to the model: the install transaction

* A directory under `transactions/` is a `d \in Dir`; its transaction creates generation
  `d`. `pc` and `cur` belong to the holder of the install lock, `todo` is what its
  recovery has still to look at. `proc` is the process that runs RecoverInstall: the lock
  is released when that returns and taken again for the installer's or the migration's own
  work (`at = "waiting"`), and whatever gets the lock in between runs there. `failed`
  is the error that InstallArchive keeps as `recoveryErr`.
* `boot[x]` is the file at a public entry, with the generation it belongs to and whether
  it is a GUI launcher or the router; the layouts differ in the entries they manage and
  in which file stands there (stableBootstrapTargets).
* `Baseline` and `Intact` are what inspectState reports (rollback baseline, complete
  installation); `Readable` is readInstallJournal and validateApplyJournal, which refuse
  a journal whose generation is gone. The three kinds are walked in the order of their
  directories' names (`Rank`).
* A recovery sets aside a journal whose two states the install has left ("obsolete"). An
  install stays so (`Passed`, transaction.go:935), an update is judged afresh by every
  recovery (`SetAside`, `Pending`; 986-1034): back at its candidate it would be rolled
  back, back at its prior state lose its generation. That it never is either, unless an
  installer or a migration has begun over an open install, is part of what is proved.
* The phases "bootstrap-intent" and "state-intent" (for a migration "entry-intent") are
  recovered alike and are one, "intent". The copy of a package into its generation is one
  step with the journal's first write; a generation that no journal names is looked at by
  nobody.
* An update is `Apply`: the part of it that this composition needs. Its processes, its
  commit and its relaunches are in `ApplyTransaction`, which in turn knows no installer.
* `base` and `beside` are histories that no step reads. `base[d]` is what stood at the
  entries when `d` began, for what began since the last update or install that completed;
  `beside` says that since then an installer or a migration began over an open transaction
  that it did not supersede.

What the model shows beside the properties: a reinstall is refused when a usage-server
entry exists and the installation is no baseline (install.go:185-210; `install.sh` always
asks for a CLI entry), although packaging/README.md:106-108 recommends a reinstall for
repair; and an installer supersedes only journals whose generations verify and whose state
is one of their two (transaction.go:375-424), fewer than packaging/README.md:108-112 says.

### From the code to the model: the update service

* `app` holds the fields of UpdateService that decide something: `st` is m_state,
  `verified` m_verifiedStage, `isRepair`, `autoStage`, `autoPending`, `autoStarted` and
  `suppress` the flags of the same names, `seen` m_latestVersion. `tool` is its QProcess
  with the operation, whether cancel or the timeout has asked it to stop, and the answer
  that is on its way. `asked` is m_cliReply, `due` the queued call of restartToApply,
  `pair` m_pairProcess and whether it has called back.
* One action is one slot or callback with all that it calls: `ToolAnswers` is the child's
  end with handleInspection or handleUpdateResult, which may start the next child at once
  (an automatic check that finds something stages it). `Fail` is fail() with the refusal
  of the waiting command.
* The child's own work (`ToolChecks`, `ToolDownloads`, `ToolVerifies`, ...) happens at any
  time before its answer is read. A directory of a download exists before it is verified;
  a killed child leaves it, one that notices the cancellation removes it (`LeftStages`).
  CleanupAbandoned removes unverified directories that are an hour old (`Age`). Names of
  directories are random and interchangeable; the least free number is taken (`NewStage`).
* `CommandStages` is a `headroom update` that has staged the release itself and hands it
  over (`CommandAsks` with a stage); without one the desktop checks first.
* `Relaunch` is the next start of the desktop: of the new generation if the committed
  update was applied, of the old one after a rollback. `Reinstall`, `Damage`, `Publish`
  are what others do.
* `paired` is what the desktop finds at `pairing/windows-wsl.json` when it starts a paired
  update: nothing, a file that is no active record (startPairedUpdate then only shows a
  message), or an active pair. It does not change while the model looks. `app.cli` is
  m_cliAvailable of the inspection (nothing missing, and a CLI entry); without it
  startPairedUpdate fails and the stage is forgotten.
* Left out: the pause of public traffic, that is setPublicTrafficAllowed
  (updateservice.cpp:112-149), its effects on the end of a child (381-387, 402-409),
  restoreAllowedState and the tests of m_allowed. main.cpp:141 calls it with
  `!capture && !isolated`, which the command line fixes and which the constructor is given
  too (101), so every call returns at 119 (or defers the same value while an apply is
  prepared), and a desktop that has public traffic has it until it ends. If that were to
  change, one branch would break `RequestAnswered`: a child that fails to start while
  traffic is paused (381-386) leaves a waiting `headroom update` without an answer, where
  the branch beside it (387) and finish (406, 409) give one.
* Also left out: the text of messages, and the details of one download.

What the model shows: an automatic check between a request that was accepted with a
prepared stage and the queued restartToApply replaces the stage that will be applied;
`ReplyTrue` holds because the answer names what is committed. Cancelling the inspection at start leaves
the application "not official" until it is restarted. Verified stages are never removed by
anyone, so the staging directory grows with every update (`StageKept` relies on it). A
restart pressed on a stage that fail() has just forgotten does nothing (updateservice.cpp:296).

### From the code to the model: the paired update

* `inst`, `tx`, `stage`, `config`, `progress` are functions over the two ends. A native
  update is committed, switched and then applied or rolled back (`NativeStep`,
  `RollBack`): ApplyTransaction has the detail. `Secured(e)` is what an end keeps even if
  its transaction is undone.
* `co[e]` is Coordinator.Run: `pc` its place between two saves or requests, the others its
  local variables. A request is in `calls` from when it is written until its handler at the
  peer ran (`HandlePrepare`, `HandleCommit`) or it is lost; a coordinator that dies
  or gives up leaves it there, so it may be handled late, after any other event.
* `Start` is the beginning of a command, up to the record of the pair; `Lock` takes the
  pairing lock afterwards (cmd/headroom/pairing.go:79, 86), so that a `pair` command of the
  same end may come in between and the record be pending again. A handler, too, looks at its
  generation and its record before the lock (209-217, 276): `Looks` is what it may have
  found, when its process started (`paired`) or just before it takes the lock. A commit
  checks the generation once more under the lock (lifecycle.go:178).
* Every error return of Run is a guard that does not hold (`Hopeless`, `GiveUp`)
  or an `Abort`. `--reconcile` inspects the peer afresh, a plain run verifies it through
  the manager that it probed before its commit (`Confirms`).
* A handshake is taken apart where both ends can get in between: the offering end's
  record, the handler's comparison before any lock, its probe and record under the lock,
  the answer. Identifiers of pairings and operations are random in the code; the model
  takes the least that nothing refers to, as they are interchangeable.
* `Home` is the end whose user runs `headroom update`; what the other end runs by itself,
  what is aborted, rolled back or lost is counted by `MaxFaults`.

What the model shows: after a crash between "complete" and `last-apply-result.json`
(transaction.go:815 ignores the write's error) the plain command never confirms its peer,
and only `--reconcile` goes on; a peer that was rolled back fails verification until it is
updated by itself; two `pair` commands that are both cut off with different identifiers
refuse each other until a file is removed (cmd/headroom/pairing.go:140-143, 230).

### From the code to the model: the sign-ins

* A credential is a number: an access token with its refresh token, or a cookie. `live`
  are those whose refresh token the provider takes (once: `Issue` spends it), `valid`
  those it answers a usage request with, `expired` those whose recorded time is near.
* `provider` is chosen in the initial state and selects the client's behaviour: what is
  cached and when it is read again (`FetchFile`, and `Ensure` before each of Claude's two
  attempts), whether the file's lock is held across the request (Grok, which then writes
  back what it read under the lock even if the file was removed meanwhile) or only the
  write (`lock`), whether the answer is compared with the file before it is written, what
  a refusal leads to, and whether a cookie may be pushed (Cursor, Grok).
* `tried` is Claude's attempt: "no" for the first, "forced" while its refusal is dealt
  with, "yes" for the second; the others only tell "no" from "yes".
* `Discovering` are the servers that listen on loopback only: the others do not read
  Cursor's own file (app.go:182, cursor/client.go:132) and depend on what is pushed.
* Grok's second source (`Web`) is asked after an error, a refusal, and a good reply
  without a weekly bucket, which the model leaves open; a timeout ends the fetch without
  it (`Fails`), and one of the second source itself ends it in an error.
* `job[s]` is the fetch of a server (the poller runs one at a time), `entry[s]` how the
  last one ended. `ToolWrites` is the provider's own tool: it signs in anew or refreshes,
  at any time.
* `ended` are credentials that were revoked, whose successor was lost with a crash or
  a lost reply, or that the provider's tool has spent: for those nobody can keep the
  user signed in.

What the model shows: Claude and Codex write their reply back without comparing the
file again (refresh.go:54), over a sign-in that the tool has made meanwhile; Codex spends
a token even if the file is gone; two servers may show AUTH_EXPIRED until the next poll
when they refresh at once; Cursor's refusal of an old cookie clears a newer one
(client.go:99), where Grok compares first; a client that disconnects during a forced poll
leaves an error in the entry, as the poll runs in its request's context.

### From the code to the model: the Codex reset

* `attempts[s]` are the keys of `resetAttempts`; `gate[s]` is `resetAttemptID`,
  `resetAccountID` and `resetUsageObserved`; `req[s]` is the request that holds the
  handler's `resetMu` (TryLock: others get 409), `fetch[s]` the GET that holds the
  poller's `fetchMu`, `cache[s]` the poller's entry. `sent[s]` counts submissions; the
  code has no such variable, it is there to state `SubmittedOnce`.
* The handler takes its steps apart where others get in between: `Accept`
  (ResetAttemptStatus), `HandlerPoll`, `FetchRead` (the sign-in is read, the provider
  answers), `FetchEnd` (observeResetUsage, the entry, eligibility), then `Submit` or
  `Decline` (ConsumeResetCredit under the client's lock), and `SubmitEnd`. While a
  submission is out, the client's lock keeps observeResetUsage waiting, which is the
  guard of `FetchEnd`.
* `fetchStartedAt.After(resetStartedAt)` becomes `fetch[s].old`, set when a submission
  overtakes a fetch in progress.
* A reading is the account, whether weekly usage is at least 95%, and whether a credit
  is left. Below 95% the model tells "near" from "low": an account rises to 95% from
  "near", and falls to "low". `spent[a]` counts credits taken since it last rose.
* The provider redeems a request (`Redeem`) or not (`Lose`) at any later time, and usage
  falls at any time, at the end of the week or as the effect of a redemption, however
  late. The outcome it names decides only how a repeated id is answered; left out.
* An error leaves the last good values in the entry, with `Error` set; both readers
  check `Error` first, so the entry is `NoReading`.
* `SignIn` is the provider's own tool that replaces the credential file.
* In `DesktopReset`, `receipt[a]` is the receipt file, `confirm` and `busy` are
  `m_resetConfirmation` and `m_resetBusy`, `shown` the reading of the last snapshot while
  the status is "ready" (a failed request or a change of settings takes it away). The
  receipt is written before the request leaves; `AppRestart` may follow at once, and the
  request in `posts` be lost (`LosePost`): that is the crash between the two.
* `Restart(s)` forgets everything a server process knows; requests in flight arrive.

Two assumptions about time replace clocks. Usage does not climb from "low" while a
redemption of the account is under way (`Underway`), or, with the desktop, while a
reading of 95% from before the fall is still cached or shown (`Outlived`): weekly usage
takes hours to climb, a request has deadlines of 60 seconds (server) and 100 seconds (desktop), the cache is polled
every minute and the button ignores a snapshot older than two intervals. Receipts that
cannot be read, and those of releases before account binding, keep the button disabled
for good and are left out. There is one desktop; arbitrary clients are in `CodexReset`.

## Properties and runs

The safety of the update is stated in `ApplyTransaction`:

| property | says | aimed at |
|---|---|---|
| `ActiveGenerationPresent` | the generation `install-state.json` names is on disk | removals by three clean-ups that decide from phases |
| `SingleOpenTransaction` | at most one journal is open | recovery that reopens a rolled-back journal |
| `QuiescentConsistent` | with the lock free and no open journal all entries are the active generation's | crash anywhere, then recoveries |
| `RestoreHasBackup` | entries are restored from a backup of the prior generation's | backup missing or taken too late |
| `CandidateStopped` | a rolled-back transaction's recorded candidate does not run | crash between kill and record |
| `ServiceStopped` | nor its service when the rollback is recorded | the same |
| `RolledBackRestores` | "rolled back" is recorded only with prior state and entries in place | resumed rollback |
| `CompleteReplaces` | "complete" is recorded only with the candidate active and its entries in place | an undo that is passed over, a missed entry |
| `CommitBeforeChange` | without a commit nothing of the installation changes | expiry, recovery of an expired transaction |
| `ImplementsAtomicInstall` | the refinement | all of the above, as one promise |
| `LockReleased` | the holder of the lock returns | journals recovery cannot use |
| `OpenTransactionEnds` | an open transaction is closed by some later launch, unless its journal stopped validating | blocked updates |
| `CommittedUpdateCompletes` | unless something fails, a committed update is applied | order of acknowledgement, commit, exit |

Of the service, in `ManagedService`:

| property | says | aimed at |
|---|---|---|
| `ServiceFollows` | the holder goes on when the receipt names a ready service of the active generation, and not the claimed one, and closes a journal only when the claimed one is gone | a receipt or a service of before that is taken for the new one |
| `ServingIsRegistered` | unless something failed, whoever serves while nobody holds the lock is the one the receipt names | checks and writes of the receipt outside the lock |
| `HandoffCompletes` | an update that stops the service reaches its end without one of its timeouts | the manager and the services waiting for each other |
| `RecoverySparesItself` | a recovery never stops the launcher that runs it | violated, see below |

Of the installer, in `InstallTransaction`:

| property | says | aimed at |
|---|---|---|
| `ActivePresent` | no clean-up of an install, migration, update or recovery removes the active generation | undos that fail half way and are repeated by others |
| `ClosedMeansComplete` | with the lock free and nothing open, the entries that the layout manages are the active generation's, unless an installer or a migration has begun over an open install (see below) | superseded, obsolete and undone transactions of three kinds over each other |
| `SupersededStays` | what a completed install superseded is never undone | a crash before its journals are removed |

Of the update service, in `UpdateService`:

| property | says | aimed at |
|---|---|---|
| `StageKept` | what the desktop holds ready and what it has committed to is on disk and verified | clean-ups by other commands |
| `ReplyTrue` | the version in an answer "accepted" or "current" is the one committed, or not newer than the running one | automatic checks and calls between request and answer |
| `PairKeepsStep` | a paired desktop commits unasked only a repair of its version | the remembered kind of a stage |
| `RequestAnswered` | every accepted request is answered | failures, cancellations, timeouts, a desktop that quits |

Of the pair, in `PairedUpdate` and `PairHandshake`:

| property | says | aimed at |
|---|---|---|
| `ActivePairAgrees` | the peer of an end with an active pair recorded the same pair | crossing, cut off and late offers |
| `ProgressTrue` | what the progress file says was reached at both ends stays reached | rollbacks after the record, lost replies |
| `LocalAfterPeer` | the local commit comes when the peer keeps that release for good | resumption with either side advanced |
| `NoDowngrade` | no end goes back behind what it ran | commits handled late |
| `UnfinishedResolves` | an unfinished run is resolved by a user who repeats it and also reconciles, see "Fairness" | journals that no command accepts |

Of the sign-ins, in `ProviderCredentials`:

| property | says | aimed at |
|---|---|---|
| `SignedInStays` | the refresh token in the file is good, or about to be replaced by its successor, unless it was revoked or spent in vain | refreshes of two servers and the tool at once |
| `ExchangedOnce` | a refresh token of Grok that a server exchanged for its successor is not presented again by a server; one that was spent without an answer, or by Grok's tool (`ended`), may be | the check before and the write after the request |
| `OnlyNeededRefresh` | no credential that works is refreshed | a refusal of what the file no longer holds |
| `Recovers` | once the file is good for good, every server that reads it shows usage again (of Cursor, those in `Discovering`) | caches, refused cookies, adopted rotations |

Of the reset, in `CodexReset` and `DesktopReset`:

| property | says | aimed at |
|---|---|---|
| `SubmittedOnce` | a server process submits an id at most once | repeated requests after an uncertain outcome |
| `NoSecondSpend` | an account loses at most one credit per time its usage rises to 95% | old readings, readings of other accounts, replays, restarts |
| `SpendsConfirmedAccount` | a redemption is for the account that was confirmed | a sign-in that changes while the handler polls |
| `GateReleased` | the gate opens once usage stays below 95% | submissions that never arrived |
| `LatchHolds` | from a redemption under way until usage falls the receipt exists | crashes of application and server, lost replies |
| `LatchReleased` | the receipt is gone once usage stays below 95% | a button that is disabled for ever |

Each specification has one type invariant (`TypeOK`, `DesktopTypeOK`) that also says who
may wait or hold a lock. All of them are proved, and therefore in no run.

| run | instance | shows |
|---|---|---|
| `DesktopSafety` | two transactions, three entries (a launcher, which is auxiliary, a CLI and a server), up to 3 failures | the invariants, action properties and the refinement of `ApplyTransaction`; 1.9 million states |
| `Progress` | one transaction, up to 3 failures | its three liveness properties; 47 thousand states |
| `Service` | four service processes, one update, one fault | the properties of `ManagedService`; 398 thousand states |
| `Install` | three transactions of any kinds, over nothing or a legacy layout, up to 3 failures | the properties of `InstallTransaction`; 2.1 million states |
| `Update` | two stage directories, two releases, one failure, each kind of pair | the properties of `UpdateService`; 555 thousand states |
| `PairedUpdate` | two releases, two pairings, one failure, abort or command of the other end | the properties of the pair; 115 thousand states |
| `Credentials` | two servers on one file, of which one may read Cursor's, each provider, up to 3 events | the properties of `ProviderCredentials`; 1.5 million states |
| `ResetClients` | one server process, any clients, two accounts with two credits, three ids of which two can be remembered | the four invariants; 207 thousand states |
| `DesktopLatch` | one server that may restart at any time, the desktop, two accounts, two presses of the button | `LatchHolds`, and `NoSecondSpend` in spite of the restarts; 1.5 million states |
| `LatchProgress` | one server, one account with one credit, one press | `GateReleased` and `LatchReleased`, restarts included; 6 thousand states |
| `DeadReceipt`, `SelfStop` | | violations, see below |

Deadlock is checked where some process always goes on. It is not in `Install`, `Update`,
`PairedUpdate`, `Credentials` and `Service`: there everything may rest once the user is content and
the bound on events is reached.

### Bounds

*Update transaction.* Two transactions: the second starts from whatever the first left,
and a prepared journal meets an open one. The second package is older than the first and
as old as the initial one, so the version guard decides. Three entries
allow a mixture among those a launch depends on, beside an auxiliary one that may stay behind. Three failures (a failing call, a timeout, a
crash) let an error, the failure of its clean-up, and a crash of the recovery combine; the
violations below need two.

*Managed service.* Four processes: the claimed service, the one that replaces it, and two
that users or the unit start in between. One update with its rollback and recoveries; one
fault is a death, a failed step or a deadline at any point, and what follows it, including
further deadlines, is free. Without its temporal properties the instance was also checked with
two and three updates and with two faults. A dead process's number may be taken again once no file names
it, so the number of starts is not bounded.

*Install.* Three transactions: one that is left open, one that supersedes it and a third
that meets the remains of both, in any kinds and layouts. Three failures: the step, its
undo, and the loss of a backup or a crash in the next recovery. A fourth failure and the
absence of the exception `beside` are what it takes to see the entries spoilt behind an open
install, as described below; with it, the theorems of `InstallTransactionProofs` cover
any number of failures.

*Update service.* Two stages are the desktop's and the one a command prepared beside it;
with two releases one of them can be outdated. One failure cancels, times out, quits,
damages, reinstalls or withdraws a release once at any point; the other races are between
steps that need none.

*Pair.* Two releases give one end the chance to advance alone; two pairings the least for
a disagreement. An operation identifier is kept in at most four places, two per end, so
four suffice. One failure: a lost request, an abort, a rollback or a crash at any point;
commands of the other end count as one, too. The inductive invariant was checked with
three releases as well.

*Sign-ins.* Two servers, and the tool as a third party. Three events: an expiry or refusal
that starts a refresh, a foreign write that gets in between, and a failure or crash.

*Reset.* Two accounts are the least for a reading of the wrong one and for a
sign-in that changes between poll and submission. Two credits make a second spend
possible; a third would only repeat it. Three ids with a memory of two reach the limit
that is 1024 in the code, and leave one to repeat and one to be new; the desktop draws a
fresh id for every press, and two presses are a spend and a second one. Safety runs are
without fairness and explore every order of the steps.

### Fairness

*Update transaction.* `WF_vars(Work)`: the holder of the lock is a running program all of
whose waits have timeouts (WaitTimeoutMS, CommitTimeoutMS, ReadyTimeoutMS, 5 seconds for
kills). `WF_vars(RecoverStart)`: the user, or a service manager, starts a launcher
again and again; without it nothing recovers. The application that committed an update
quits by itself. Nothing is assumed of the environment otherwise. Failures are bounded
by `MaxFaults`, so the liveness properties say what happens once they stop.

*Managed service.* `WF(Work)`, `WF(Run(p))`: the holder of the lock and the services are
running programs, whose waits have timeouts. `WF(unit.on /\ UnitStarts)`: systemd restarts
a unit that is to run. `HandoffCompletes` speaks of updates in which no timeout and no
failure has happened, so it cannot hold because of a deadline.

*Update service.* The child works or ends: its timeout is two and a half minutes
(updateservice.cpp), after which it is killed. A queued call is made. Nothing is assumed
of the user, of the coordinator or of the release service.

*Pair.* Native transactions, handlers and coordinators end, since their waits are bounded.
The user at `Home` runs `headroom update` and `--reconcile` again, completes an interrupted
`pair` (docs/cli.md:175-178 asks for that before updates), or updates the peer by itself.
That is more than the messages ask for: the one of a run that cannot verify its peer
(pairing.go:245) suggests `--reconcile` only "if either side has advanced past that
version", but after a crash between "complete" and `last-apply-result.json`
(transaction.go:815) no side has, and yet only `--reconcile` goes on. `UnfinishedResolves`
says that a way out exists and works, not that the messages lead to it. These are strong
fairness assumptions, because each of the
commands may be refused in between; without the user nothing would ever be resumed. Each
end repeats only its own interrupted pairing: with three releases, a pairing that is done
anew from the other end while `headroom update` is repeated at this one may get in its way
every time, and the property would fail for that reason alone.

*Sign-ins.* `WF_vars(Fetch(s))`: the poller's ticker, and the timeout of every request.

*Reset.* `WF(PollStart)`: the poller's ticker. `SF(FetchRead)`,
`SF(FetchEnd)`: a server that polls every minute does not fail for ever; without this
no reading can ever prove anything. `WF(SubmitEnd)`: the handler's deadline.
`WF(ReplyFinished)`: the desktop's 100 second deadline. `SF(RefreshGood)`: its polling
timer, which also reaches a server that answers, again and again. Nothing is assumed of
the user, of lost requests or of restarts: `GateReleased` and `LatchReleased` hold
whether or not the request arrived.

### Where the code does not do what the documentation says

Two runs end in a violation; `PROJECT.json` quotes the sentences they contradict.

* `DeadReceipt`. The receipt of a killed service of an earlier generation makes
  PrepareApply refuse every update until another service registers. (ManagedService shows
  the same for the receipt of a service that died before it was ready.)
* `SelfStop`. The manager dies in the middle of an update whose service belongs to
  `headroom.service`, and the next launch is that of the unit itself. Its launcher runs
  RecoverInstall, which stops the recorded supervisor with `systemctl stop`, and so itself:
  the lock is released with the journal as open as before, and the unit, stopped by
  request, is not started again. Only another launch recovers the installation.

Further behaviours have no run of their own:

* An error after the copy removes the new generation, the process dies before the journal is
  closed. The journal names a generation that is gone, validateApplyJournal
  rejects it: RecoverInstall passes it over for ever, while
  rejectIncompleteTransactions still counts it, and so does a reinstall (install.go:189).
  `OpenTransactionEnds` excepts it by name (`Unrecoverable`).
* If the undo of the entries fails as well as the update, RecoverInstall passes the
  journal over in the same way and reports success over a mixture of entries
  (transaction.go:768, 957); the transaction stays open.
* An installer or a migration may begin over an open install, and what it saves of the entries
  is then a mixture. An install crashes half way through its entries; the restoration in the next
  recovery fails; a second installer supersedes it and crashes before it changes
  anything. The next recovery undoes the second one, leaves the first one alone
  because an open install has superseded it (transaction.go:882-898), and
  returns no error. So the third installer does not supersede, and
  rejectIncompleteTransactions does not stop it, since it looks at `apply-` directories
  only (transaction.go:354-373, called at install.go:189). It saves the mixture; if it
  crashes after it has written the state, a recovery meets both journals in the order of their
  random names, and when it takes the older one first it sets that aside, because the state is
  neither of its sides any more; then the undo of the other puts the mixture back. Every
  journal is closed and recovery reports success over entries that are not the active
  generation's, where packaging/README.md:105-106 says that the journal "restores the
  prior state and every stable entry after interruption". It takes four
  failures: with `MaxFaults = 4` and `~beside` taken out of `ClosedMeansComplete`, TLC finds these
  31 states after 6.4 million. `ClosedMeansComplete` excepts it, until the next
  update or install completes; `ClosedIsComplete` below shows that nothing else has to be excepted.
* Without an entry that is not auxiliary the relaunch of the previous
  generation does not notice the candidate's launchers, and an interrupted rollback ends
  as rolled back with them in place: `"rolling-back"` has overwritten the phase that would
  have called for the restoration (1018). With a CLI entry the failed
  relaunch keeps the transaction open; the theorems about entries and the refinement
  assume one (`Auxiliary # Targets`).
* observeResetUsage of the desktop removes the receipt at any reading below
  95%, and does not ask when that reading was taken. After a change of connection to a
  second server of the same account, whose last poll came before usage rose to 95%, the
  receipt goes; after that server's next poll the button is offered again, with usage still
  at 95% (resetaction.cpp says "Never offer another spend while usage is still >= 95%"). The
  server's own gate asks for a later reading (`fetchStartedAt`), but it is the first
  server's. With one server readings cannot go back, which is what `LatchAlwaysHolds`
  proves; with a second one in `MCServer` TLC finds the rest.

## Proofs

### The update

`ApplyTransactionProofs` proves, from `ApplyAssumption` alone (distinct names, at least
one entry, versions are numbers) and so for any number of transactions, entries,
versions and failures:

* `TypeCorrect`: `Spec => []TypeOK`;
* `ActiveGenerationSafe`: `Spec => []ActiveGenerationPresent`;
* `SingleOpen`: `Spec => []SingleOpenTransaction`.

None of the last two is inductive: that removing `cur` is harmless depends on where the
holder of the lock stands and on what its journal and the disk say. The invariant
`IInv` adds

* `JournalsOK`: a journal whose phase calls for a restoration, or whose candidate is
  the active one, has its backup; a transaction not yet prepared has no generation; its
  prior generation is another one;
* `HolderOK`: the transaction under work is the only one that may be open, its prior
  generation exists, and the in-memory phase, too, has a backup if it calls for one;
* `StepsOK`: at the program counters before the switch and at those that remove a
  generation the prior state is active; after the copy the candidate exists; after the
  backup the backup does; and which error exits lead to recoverFailure with which
  `origin`.

The steps fall into three kinds with a lemma each (`FrameOK`, `RecordOK`,
`GenerationOK`): those that leave installation and journals alone, those that record a
journal, and those that create, remove or switch a generation. One lemma per group of
actions (`BeforeSwitchOK`, `FromSwitchOK`, `RecoverFailureOK`, `RollbackJournalOK`,
`RecoverExaminedOK`, ...) has one case per action; `NextOK` joins them and `Inductive`
is the temporal step. TLC checked `IInv` on the instance of `DesktopSafety` first.

`ApplyRollbackProofs` goes on from there, and assumes besides only that some entry is not
auxiliary (`Auxiliary # Targets`), where entries matter:

* `NoMixtureLeft`: `Spec => []QuiescentConsistent`; `BackupHoldsPrior`: `[]RestoreHasBackup`;
  `NoCandidateLeft`, `ServiceGone`: `[]CandidateStopped`, `[]ServiceStopped`;
* `RollbackRestores`, `CompletionReplaces`, `NothingUncommitted`: the action properties
  `RolledBackRestores`, `CompleteReplaces` and `CommitBeforeChange`;
* `AtomicSwitch`: `Spec => ImplementsAtomicInstall`, the refinement.

Its invariant `JInv` says what a journal on disk means, whoever reads it: up to the phase
after the copy the prior state is active with its entries; a backup holds the prior
entries; whatever is past the wait has its commit; a closed rollback has neither generation
nor recorded process (`DurableOK`). `ClosedOK` is the quiet state: with nothing open the
entries are the active generation's. `PcOK` follows the holder through the same facts while they
are only true of its memory: how many entries have been replaced (`idx`), that a stopped
process stays stopped until the phase is recorded, that a restore that got to the end has
all of them. The entry that is not auxiliary is needed at one place: a launch of the
prior generation after an undo that was passed over can only succeed if the entries agree,
and that is what makes an early return harmless. The refinement is then one lemma per
kind of step: begin, switch (the step that activates the candidate, with its entries already in
place), roll back, or a stutter.

### The install transaction

`InstallTransactionProofs` proves, from `InstallAssumption` alone (distinct names, a bound
that is a number, `None` is no state) and so for any number of transactions, entries and
faults:

* `InstallTypeCorrect`: `Spec => []TypeOK`;
* `ActiveAlwaysPresent`: `Spec => []ActivePresent`;
* `SupersededNeverUndone`: `Spec => SupersededStays`;
* `ClosedIsComplete`: `Spec => []ClosedMeansComplete`.

An undo removes the generation that its transaction created and makes the prior one active.
That the prior one is still there depends on every transaction in between: each may have
been undone, superseded or left open, and the undo of an older one may come after that of a
newer one or after none. So the invariant orders the generations by their creation. There
is a numbering (`rank`, `Timeline`) in which each transaction starts from an older
generation than its own and supersedes older ones; and nothing goes back behind one that is
complete: what is active, and what any newer transaction would go back to, is at least as
new (`Forward`). And there is a set of generations on disk that contains the active one and, with
each of its members, the one that was started from (`Lineage`). An undo stays in that set; a
removal takes a generation out of `gens` only after nothing on disk descends from it
any more, since everything newer has gone (`NeverUsed`), or is older than the
active one (superseded). The existential over `rank` and the set is what makes this an
invariant of states, and a step chooses new ones where it creates a generation.

`ClosedIsComplete` needs to know what an undo brings back, and that depends on what stood
at the entries when its transaction began: perhaps what another one had left half done. Its
invariant, `ChainInv`, is about the transactions of `Unfinished`, the open ones
since the last that completed. They are in a linear order, given by what superseded what
(`InOrder`), and they are undone newest first: a recovery does not look at what
an open install superseded, and `TodoOK` carries this through its list. Entries and
state are at every moment explained by the newest that the state is one side of (`Explained`):
they are what this one may have made of its `base`. Each `base` in turn is explained by
those that began earlier (`PastOK`). So an undo hands
the entries to the next older one (`NewestUndone`), and when none is left, `Explained` says
that they are complete. A transaction that is set aside because the state is neither of its
sides cannot be the newest, which the state always concerns (`NewestKnows`). What began
before the last completion will never be concerned again, and of the updates only such are
set aside (`PassedOK`): that every recovery judges them again changes nothing
(`SetAsideStays`). A backup holds what `base` says (`BackupOK`). Where `beside` is true the order is lost, which is the
exception. Two of the parts, on migrations and on the steps of an undo (`MigrateOK`, `NewestOK`), had
to be strengthened when a case did not go through; TLC checked all of them on the instance of
`Install`.

### The managed service

`ManagedServiceProofs` proves, from `ServiceAssumption` (distinct names that are no
processes, bounds that are numbers, `MaxFaults` positive, since deadlines are counted by
it) and so for any number of processes, updates and failures:

* `ServiceTypeCorrect`: `Spec => []TypeOK`;
* `ServiceFollowed`: `Spec => ServiceFollows`;
* `ServingRegistered`: `Spec => []ServingIsRegistered`.

`ServiceInv` is the invariant of the first two. From the moment that its stop has been
waited for, the claimed service is dead (`ClaimOK`), whichever program holds the lock and in
whichever phase it took over; its identifier is not given to another process as long as the
journal names it. So the process that the holder starts is another one (`ChildOK`), and
a start through the unit, which has taken the receipt away, cannot be answered by the claimed
service (`ReceiptOK`), although processes write the receipt without the lock. A holder
that stops the whole unit stops the claimed service because that is the unit's only process
(`UnitOK`).

`ServingRegistered` needs more, and only while `faults = 0` (`CalmInv`): the manager goes
straight on and nobody recovers (`StraightOn`); the claimed service has the receipt until
its successor is started (`ClaimRegistered`); a process with a token is the holder's child,
and the receipt is its own (`ChildRegisters`); only the main process of the unit may be
past the lock, and only while the intent stands (`UnitRegisters`). Then every write of the
receipt finds it empty, with a dead service or its own (`OwnersOK`). `CalmHolder` shows that
no step that undoes anything is ever enabled, and `CalmInductive` goes through the rest. TLC
checked both invariants on three instances first, which corrected `ServiceFollows`, see
above.

### The pair

`PairedUpdateProofs` proves, from `EndsAssumption` and `NamesAssumption`, and so for any
number of releases, pairings, operations and failures:

* `TypeCorrect`: `Spec => []TypeOK`;
* `PairAgrees`: `Spec => []ActivePairAgrees`;
* `ProgressHolds`: `Spec => []ProgressTrue`;
* `PeerFirst`: `Spec => LocalAfterPeer`;
* `NeverDowngraded`: `Spec => NoDowngrade`.

The invariant adds three parts. `InstallsOK`: a native transaction goes from the running
release to a newer one, and a stage is newer than what it was prepared over; so
`Secured`, what an end runs or would fall back to, never decreases. That gives
`NeverDowngraded`, and makes whatever has been seen of a peer true for good. `PairOK`
follows an offer from end to end: the pairing that a waiting command has on record is the
one it offered, and an accepted offer is on record at the end that accepted it.
`CoordinatorsOK` says what a coordinator knows: the peer has secured what was probed and
what the progress file says of it, its own end the generation it started from, and at
`local` the peer has secured the target. Every step of a
coordinator puts such a record in `co` and a true one in `progress` (`Moves`).

### The sign-ins

`ProviderCredentialsProofs` proves, from `CredentialAssumption`, for any number of servers
and events: `TypeCorrect`, `SignedIn` (`[]SignedInStays`), `RotationAdopted`
(`[]ExchangedOnce`) and `RefreshNeeded` (`OnlyNeededRefresh`). The invariant adds
`SaveOK` (the reply a server is about to write is good or ended, and nobody else has it
yet, neither the file nor a fetch, a cache nor a cookie), `NeededOK` (what is on its way to
a refresh has expired or was refused) and `LockOK` (a server of Grok between the request and
the write holds the file's lock). With `LockOK` the credential it presents is the one the
file held under the lock, which only the provider's tool can replace meanwhile, and the
tool ends what it replaces.

### The update service

`UpdateServiceProofs` proves, from `UpdateAssumption`, for any number of releases, stage
directories and failures, `TypeCorrect`, `StagesKept` (`[]StageKept`), `RepliesTrue`
(`[]ReplyTrue`) and `PairKept` (`PairKeepsStep`). A clean-up spares
what is verified, but a failed download removes its directory by name; so the invariant
adds that the directory the child works on is neither the one held ready nor the one
committed to (`ToolOK`), and that a clean-up of another process cannot have taken it and
given its name to somebody else meanwhile, because it is not old (`DownloadOK`). A reply waits for what its request was about, through
a queued call and other answers; the invariant ties the waiting command to the state of the
service that will answer it, and the flag of a repair to the version of the stage it came with.

### The reset

`ResetProofs` proves, from `ResetAssumption` (distinct names, bounds that are
numbers) and so for any number of servers, accounts, ids and credits:

* `ResetTypeCorrect`: `Spec => []TypeOK`, with the bound on remembered ids;
* `AtMostOneSubmission`: `Spec => []SubmittedOnce`;
* `ConfirmedAccountOnly`: `Spec => []SpendsConfirmedAccount`;
* `AtMostOneSpend`: if there is one server, `Spec => []NoSecondSpend`.

The first three share an invariant: an id that was sent is remembered, the id at the
gate too, and the handler's request has an id and an account. `AtMostOneSpend` is the
argument behind the comment on observeResetUsage. While usage is high and a credit is
spent or on its way, the gate of the account is closed (`GateCloses`). It is opened by a
fetch begun after the submission, and a reading below 95% in such a fetch means that
usage has fallen (`ReadingProves`). Whoever is about to submit was taken on with the gate
open (`PollingOpen`), and then read at least 95% for its account; so this account has
neither lost a credit nor is about to (`Unspent`), and what flies is alone (`OneFlying`).
None is inductive without the others; TLC checked each on the instance of `ResetClients`
first. The
hypothesis that there is one server is needed, since gates are not shared between
servers; that is what the desktop's receipt is for. `Climb` obeys the first of the two assumptions about time; the proof uses it.

It proves besides, from the same assumption and `DesktopSpec`, where servers restart
at any time and forget everything:

* `DesktopTypeCorrect`: `DesktopSpec => []DesktopTypeOK`;
* `LatchAlwaysHolds`: if there is one server, `DesktopSpec => []LatchHolds`;
* `LatchSpendsOnce`: if there is one server, `DesktopSpec => []NoSecondSpend`.

The gate of `AtMostOneSpend` is no help here, since a restart opens it; the receipt does it
alone. The invariant has four parts per account. At most one press counts, in one
place at a time: on its way, at the handler, at the provider, or spent (`OnePress`). Just
below 95% nothing is left of an earlier rise (`NearOK`, by the assumption about time). At
95% a press that counts has its receipt, and a reading below 95% that would remove it must
be older than the rise, so that no press can have been made on what the button knew then
(`HighOK`). After a fall the receipt may go, but then no reading of the high is left that
would enable the button (`LowOK`). The hypothesis of one server is needed for `HighOK`: the cache of a
server that the desktop does not follow may be arbitrarily old.

### What is only model-checked

* Liveness under fairness, which is outside the prover: `LockReleased`,
  `OpenTransactionEnds`, `CommittedUpdateCompletes`, `HandoffCompletes`, `RequestAnswered`,
  `UnfinishedResolves`, `Recovers`, `GateReleased`, `LatchReleased`.

## What is left

Every safety property that a passing run checks is proved, and so is the refinement; what TLC
alone checks is liveness.
Further models that would be worth their runs: the claim and stale recovery of the
SSH socket; the desktop's owned server and its single instance; a service and its launcher
as two processes, as on Windows.

### Not modelled

* Manifest and archive validation, configuration, usage normalisation, the transport of
  one download: sequential checks and conversions without state over time.
* Platform calls (locks, process tokens, file modes): their outcomes are choices of the
  actions that make them.
* The SSH socket, the desktop's owned server, settings and start-up entry: see above.
* Presentation, the terminal dashboard, the legacy Windows client, and scripts that run
  once, in order.
