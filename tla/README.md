# Shellius: verification project

Shellius is a gateway for SSH and RDP access. A person asks for access to a
server, somebody approves it, the backend signs a short-lived SSH certificate
or opens a browser terminal, and everything ends when the grant ends. This
directory models the backend's protocols (Node.js, PostgreSQL through Prisma,
Redis, BullMQ), model-checks them with TLC and proves theorems about them with
TLAPS.

Paths below are relative to `src/backend/src/` unless they start with `docs/`.

- [1 The system](#1-the-system)
- [2 How the code is modelled](#2-how-the-code-is-modelled)
- [3 Modules](#3-modules)
- [4 Runs, bounds and results](#4-runs-bounds-and-results)
- [5 Fairness](#5-fairness)
- [6 Proofs](#6-proofs)
- [7 Disagreements between code and documentation](#7-disagreements-between-code-and-documentation)
- [8 What is not modelled](#8-what-is-not-modelled)
- [9 Plan](#9-plan)

## 1 The system

One Node.js process serves HTTP and WebSockets and runs the background jobs.
State lives in three places: PostgreSQL rows (durable), Redis keys with a
lifetime (durable across a restart, gone when they expire), and maps in the
memory of the process (gone with it).

| component | state | operations | talks to | what is hard | what makes it correct |
| --- | --- | --- | --- | --- | --- |
| Access requests (`services/accessRequestService.js`) | `AccessRequest`, approver rows | submit, review, generateSshCredentials, revoke, markExpired, markPendingExpired | policies, CA, terminals, notifications | two reviewers at once; sweeps writing rows they read earlier; revocation against issuing | one decision, by somebody entitled; final states stay final; expiry is taken back |
| Certificates (`services/caService.js`, `certificateService.js`) | `Certificate`, `CaKeyPair` | sign, revoke, expire, verify, rotate | access requests, hosts | a certificate signed for a grant that is being taken away | no certificate is accepted after its grant; revoked means rejected |
| Account disabling (`services/userService.js`) | `User.status` | updateUser, softDeleteSelf, revokeAllAccessFor | requests, certificates, refresh tokens, terminals | the cascade against what is in flight | nothing of a disabled account stays usable |
| Terminals (`services/terminalService.js`, `terminalHub.js`, `sessionService.js`) | map `sessions` in memory, `Session` rows | open, attach, detach, end, terminate, expiry watcher, boot sweep | requests, users, ssh2 | connections opened in awaited steps, timers, crash with open rows | timers exactly while detached; ended sessions hold nothing; rows follow reality |
| Browser sessions (`services/authService.js`) | `RefreshToken` rows, `User.sessionsValidFrom` | login, refresh, logout, sign out everywhere | users | two rotations of one token, logout against a rotation | single use, absolute lifetime, signed out means signed out |
| Break-glass (`accessRequestService.js`) | two Redis keys per challenge, pre-approved `AccessRequest` | start, verify | policies, second factors | parallel verifications, counters with lifetimes | bounded guessing; nothing granted twice; within the policy |
| Policies (`services/policyService.js`) | `AccessPolicy`, subjects, role permissions, organisation switch | evaluate, evaluateBulk, findBreakGlassPolicy, editing | requests, lists | one decision implemented several times | DENY wins; production is reviewed; list and decision agree |
| CA key pair (`caService.js`) | active `CaKeyPair` | generate, rotate | signing | two rotations | exactly one active key |
| Device authorisation (`deviceAuthService.js`) | `DeviceAuthRequest` | create, poll, approve, deny, clean up | browser sessions | approve, deny and polls on one row | one session per approval |
| Second factors and lockout (`mfaService.js`, `authService.js`) | columns of `User`, `UserToken`, Redis counters | login, completeMfaLogin, send a code, regenerate backup codes | browser sessions, break-glass | lost updates of lists and counters; a counter without its expiry | codes are single-use; guessing is bounded across challenges |
| WebSocket tickets (`wsTicketService.js`) | Redis keys | issue, consume | terminals | none beyond one `GETDEL` | single use |
| RDP (`rdpService.js`, `rdpRecordingService.js`) | connection maps, recording files | connect, terminate, ingest | guacd | maps against rows; ingest retried | every recording ingested once |
| SSO, SAML (`ssoService.js`, `samlService.js`) | provider configuration, replay store | log in, link | identity providers | replay of an assertion | one login per assertion |
| Directory sync (`services/directory/`, `jobs/directorySync.js`) | findings and runs, `User.status`, a Redis lock | sync by the job or by hand, suspend and cut off | directory, disable cascade | incomplete reads; a crash between suspending and cutting off; two runs at once | a bad read suspends nobody; nobody is suspended inside the grace period; who is suspended is cut off |
| Roles and scope (`roleService.js`, `customerService.js`, `groupService.js`) | roles, groups, customers | edit, assign | every permission check | cycles and last administrators | there is always a super administrator |
| Audit (`auditService.js`, `services/audit/`, `jobs/auditExport.js`) | `AuditLog`, `AuditSink` with its cursor, archives, a Redis lock per sink | write, stream to sinks, archive and delete whole days | external sinks, object storage | rows committed behind the cursor; stale cursors of another instance; retention against a slow sink | delivery is at least once; nothing owed and nothing unarchived is deleted |
| Notifications (`services/notify/`, `mailer.js`) | `Notification`, delivery attempts | create, deliver, retry | e-mail, chat | retried and repeated interactions | best effort only |
| Posture (`posture*Service.js`, `collector*Service.js`, `jobs/collectorRollout.js`) | snapshots, alerts, `CollectorRollout` and `CollectorUpdateAttempt` rows, a Redis lock | ingest, escalate, roll out in steps, halt, cancel | collectors on hosts | silent hosts; a job cut off between offers and the record of the step; late reports | a step widens on evidence only; a bad version stops; an ended rollout owes nobody an answer |
| Servers and keys (`serverService.js`, `keyDeploymentService.js`, ...) | servers, deployments | onboard, deploy, check | hosts over SSH | a remote step fails half-way | rows say what is on the host |
| Keystore, vault, API tokens | encrypted rows | store, use, revoke | sessions | access checks | only the owner reads |
| Jobs (`jobs/`) | BullMQ queues | repeatable jobs | all of the above | a job overlapping or dying | a sweep is run again |

They interact by function calls inside the process, by the rows they share and
by what time does to them. The most important chain is: `submit` asks the
policies, `review` decides, `generateSshCredentials` asks the CA, a terminal
refers to the request, `revoke`, the sweeps and the disable cascade end all of
it. The models cut the system along the rows that the parts share.

## 2 How the code is modelled

**Interleaving.** JavaScript runs one callback at a time; another handler can
run at every `await`. A handler is therefore a sequence of actions, one per
database statement or transaction, and what it has read is kept in its entry
of `call` until it is used. Helpers whose statements touch one row and
only repeat an earlier answer (read-then-write inside
`caService.revokeCertificate` and `sessionService.terminate`) are one action.

**Restarts.** `Restart` (or `Crash`) drops the local state of all handlers,
sweeps and maps at any moment and leaves rows and keys.

**Time.** Where durations are compared, a clock ticks up to the bound
`MaxTime` and `now` is read at the point where the code reads it. Terminals
abstract time: an armed timer may fire, a grant may lapse, at any moment.

**Inputs.** Requests, users, codes and policies come from small sets with
`\E`. Whether a caller may call an operation at all (permission and
organisation scope) is decided before the modelled state is touched and is left
out, except where the decision is part of a property (reviewers).

**Wording, mails, audit text** are left out. The audit rows of decisions are
kept, as they are the record of who decided.

**Locks.** The jobs' Redis locks (`withLock`) are keys with a lifetime that the
last holder deletes. Where the code's lifetime outlasts any run, the key
expires only when nobody holds it; where a lock fails open (the export job), so
does the model.

**Stopping.** Models end when their finitely many rows, sockets or ticks are
used up, and users are under no obligation to act, so deadlock is switched off
where that stops everything (`AccessRequests*`, `TerminalSessions` and the
configurations that look for one counterexample). The other runs are checked for
deadlock.

## 3 Modules

**`AccessRequests`** is the core. State: the columns of requests
(`status`, `requester`, `reviewer`, `approvers`, `createdAt`, `expiresAt`,
`certificate`) and certificates (`certStatus`, `certRequest`, `validBefore`, and `signedUntil`, the
life in the signed key itself),
the recorded `decisions`, the handlers (`call`) and the two sweeps
(`expireTodo`, `expireCert`, `expireNow`, `pendingTodo`).

| actions | code |
| --- | --- |
| `SubmitForApproval`, `SubmitAllowed`, `CreatePending`, `CreateApproved` | `submit`, `resolveApprovers` |
| `ReviewRead`, `ReviewCheckApprover`, `ReviewClaim`, `ReviewLost`, `ReviewAudit` | `review`: the claim is `UPDATE ... WHERE status = 'PENDING'` |
| `CredentialsRead`, `Sign`, `CreateCert`, `LinkCert`, `SignFails` | `generateSshCredentials` |
| `RevokeRead`, `RevokeWrite`, `RevokeCertOf` | `revoke` (its `endSessionsForRequest` is in `TerminalSessions`) |
| `AdminRevokeCert`, `MarkCertsExpired` | `certificateService.revoke`, `markExpired` |
| `ExpireFind`, `ExpireWrite`, `ExpireRevokeCert`; `PendingFind`, `PendingWrite` | `markExpired`, `markPendingExpired` |
| `DisableStart`, `DisableMark`, `DisableRevokeRequests`, `DisableRevokeCerts` | `updateUser`, `softDeleteSelf`, `revokeAllAccessFor` |
| `Tick`, `Restart` | time, process |

A certificate has two ends. The row's `validBefore` counts the remaining life
from the read of the request (`ValidUntil`, `accessRequestService.js:897`); the
key is signed by `ssh-keygen -V +<remaining>s` (`caService.js:237`), which counts
from the signature (`Sign`), a key generation and a look-up of the CA later.
`CertWithinGrant` is about the first, which is what `verify` answers by;
`SignedWithinGrant` is about the second and is refuted (section 7).

`Verifies` is `certificateService.verify`, the question a host asks, with its
three switches as parameters: per-host mode, the failure of the look-up of the
request (which fails open), and the check of the owner. What the
policies answer is an input of `submit`; break-glass rows are in `BreakGlass`.

**`Grants`** is what the lifecycle promises, without handlers, sweeps or
tables: `Ask`, `Grant`, `Close`, `Issue`, `Kill`. `AccessRequests` implements it
under the mapping of its `INSTANCE Grants` (`Promise`): PENDING is "asked",
APPROVED "granted", every final status "over"; a key is withdrawn once its
certificate is revoked or expired. Five actions of the specification stand for
twenty-odd of the implementation; most of the latter are stutters.

**`TerminalSessions`** follows one user's terminals: `phase` is where
`runSsh2Session` is, `hub`, `attached` and `timer` are the hub's map, `row` and
`ending` the `Session` row and the write still to come, `open` and `joining`
the sockets. Actions: `OpenTerminal` to `HubCreate` (opening), `Rejoin` and
`Attach`, `SocketCloses` and `DetachTimeout`, `CloseOwned`, `CheckExpiries`,
`Lapse`, `Revoke`, `MarkExpired`, `FindActive`, `Condemn`, `TerminateSession`
(ending from outside), `DisableAccount`, `DisableRequests`, `EndAllForUser`,
`Shutdown`, `Crash`, `ReconcileFind`, `ReconcileOne`, `MarkStale`. `HubEnd` is
the synchronous first half of `hub.end`, `EndWrite` the second. Any write of
a row that ends may fail, as its callers only log the failure (`RowWritten`), and an
opening whose `client.shell` throws leaves its row ACTIVE (`ShellFails`): such
rows wait for `MarkStale`, the hourly job.

**`RefreshTokens`** follows one user's refresh tokens through `refresh`
(`RefreshRead`, `RefreshUser`, `RefreshRotate`, `RotateFails`, `MarkExpired`,
`CleanupOldRevoked`), `login`/`issueSession`, `logout`, the self-service
revocations and `revokeAllSessions`. `RefreshTokens_proofs` holds its theorems
(section 6). `closed` is a history variable: the
families somebody has revoked.

**`BreakGlass`** follows the challenges for one server: `StartBreakGlass`, one
action per round trip of `verifyBreakGlass` (`VerifyBegin` to `Grant`), the
keys expiring, the policy being edited, grants ending. `wrong` is a history
variable: codes that were checked and wrong.

**`PolicyEvaluation`** states `evaluate`, `evaluateBulk` and
`findBreakGlassPolicy` as operators on the current policies. Because policies of
equal priority come in whatever order the database chooses, an evaluation is
the *set* of possible answers. Actions edit policies, permissions and the
switch, so that the properties are checked in every configuration.

**`SignIn`** follows one account that has an authenticator, e-mail codes and
backup codes, from `login` (`LoginBegin`, `LoginWrong`, `LoginRight`) through
`completeMfaLogin` (`MfaBegin`, `ReadUser`, `Throttle`, `SetExpiry`, then
`CheckTotp`, `CheckEmail` with `UseEmail`, `CheckBackup` with `UseBackup`,
`RecordChallengeFailure`, `ClearChallengeAttempts`) to the session that
`RefreshTokens` takes over, and `sendEmailOtp` (`SendBegin` to `SendMail`).
`INCR` and `EXPIRE` are two actions, as they are two round trips. `checked`
is a history variable: codes checked in the life of the throttle's counter.

**`CollectorRollout`** follows the staged update of the posture collector. The
job's pass is `StartPass`, then `CancelRollout`, `NothingToDo`,
`StartRollout` or `ContinueRollout`, `JudgeAttempts`, `Halt`, `WaitOrDwell`,
`CompleteRollout` or `PlanStep`, one `Offer` for each host and `RecordStep`,
each an await. `Ingest` and `RecordReport` are the two halves of
`recordReportedVersion`; `GoesStale` and the version a host reports are its
own affair. Time is kept as ages that stop growing, so the clock has no end and
liveness can be checked.

**`AuditExport`** follows the audit log of one organization: `Write` takes a
timestamp and `Commit` makes the row visible up to `ReadLag` later. The export
job is `FindDue`, `TakeLock` or `RunUnlocked`, `ReadBatch`, `Deliver`,
`Advance`, `DeliverFails`, `NothingOwed`, `CrashRun`; retention is
`ApplyRetention`, then `ArchiveDay`, `ArchiveFails` or `SkipArchive`, and
`DeleteDay`, day after day. `got`, `start`, `steady` and `waived` are history
variables: what destinations have, where a sink started, which sinks
never stopped, what was deleted without an archive on purpose.

**`DirectorySync`** follows `runSync` for one provider: `ReadDirectory`,
`ReadBadly` (external: entries are missing) or `ReadFails`,
`JudgeIdentities`, `ResolvePresent`, `Upsert`, `CheckLimits`, and for each
account `Ignore`, `Flag`, `SpareLastAdmin` or `Choose`, then `Suspend`,
`RevokeAccess` or `RevokeFails`, and `MarkActed`. It is started by the job
(`FindDue`, `TakeLock`) or by an administrator (`RunNow`, no lock). Beside it,
`updateUser` runs in handlers of its own (`Editors`): `ReadAccount` with its
checks, `WriteStatus`, `RevokeFor`, and `EditStops` at any of its awaits.
`RevokeAccess` may leave live terminals behind, because `revokeAllSessions`
swallows that failure. An identity has a directory id (`Linked`), an
e-mail the directory lists too (`Mailed`), both or neither; `Known` is what the
code judges by, either of them.

The `MC*` modules define symmetry sets, the candidate policies, the order of
hosts, and the specifications without restarts (`CrashFreeSpec`, `SteadySpec`,
`SmoothSpec`) that show a counterexample needs none. The `*_proofs` modules
hold the theorems of section 6.

## 4 Runs, bounds and results

| run | instance | shows |
| --- | --- | --- |
| `access_requests` | 3 users, 1 request, 1 certificate, 2 handlers, times 0 to 2 | `OneDecision`, `DecisionOnRecord`, `CertWithinGrant`, `FinalStaysFinal`, `GrantFixed`, `ImplementsGrants` |
| `access_requests_liveness` | 2 users, 1 request, 2 certificates, 1 handler, fairness | `ExpiryIsSwept` |
| `verify_after_revocation` | 2 certificates of 1 request, no restarts | violation, section 7 |
| `terminal_sessions` | 1 terminal, 2 sockets, 1 request, 1 crash, fairness | `TimerIffDetached`, `EndedHoldsNothing`, `RevokedStaysClosed`, `OverIsRecorded` |
| `refresh_tokens` | 2 tokens, 2 families, 2 handlers, times 1 to 5 | `SignedOutIsUnused`, `WithinAbsoluteLifetime` |
| `break_glass` | 1 challenge, 3 verifications, 2 grants, 1 restart | `WrongCodesBounded`, `GrantedIsBurned` |
| `policy_evaluation` | 7 policies, 3 servers, all subsets and switches | `DenyWins`, `ProductionIsReviewed`, `BulkAgrees`, `BreakGlassIsAuthorised` |
| `sign_in` | 2 requests, 1 challenge, 1 e-mail code, 2 sets of backup codes, limits of 2 | `CodesPerWindowBounded` |
| `collector_rollout` | 2 hosts, 2 instances, 1 version, 1 host out of service | `OneStepAtATime`, `NothingOfferedAfterEnd`, `EndedIsFinal` |
| `collector_liveness` | 2 hosts, 1 instance, fairness | `SilentIsJudged`, `BadRolloutEnds` |
| `audit_export` | 2 rows, 1 sink, 2 instances, days of 2 ticks, times 0 to 3 | `NothingSkipped`, `OwedIsKept`, `DeletedIsArchived` |
| `directory_sync` | 2 accounts, both super admins, one without a directory id, 1 process, 1 administrator, 1 bad read, times 0 to 2 | `BadReadIsHarmless`, `NoHastySuspension` |

Each passing run also checks its module's `TypeOK` (`PolicyTypeOK` in
`policy_evaluation`), except the two liveness runs.

Why the bounds are enough. The races here are between two handlers, or a
handler and a job, on one row, so two handlers in flight plus the jobs
reach every pair of steps; a third verification in `break_glass` lets one
be mid-way while two others count and burn. Three users are a requester and
two reviewers. Several certificates of one request are needed by
`verify_after_revocation`; for `CertWithinGrant` they are
independent, and the theorem covers any number. Durations and ages are scaled
down (`MinRemaining` = 1 tick for 60 s, `PendingTTL` = 1 or 0 so that a request made
at time 0 may be swept at time 2); each comparison in the code is then both
true and false within the bound.

- `access_requests` has at most one of its three accounts disabled
  (`OneDisabled`), so that both handlers, the sweeps and the cascade fit into
  one run and overlap in every order, also under the refinement.
- `refresh_tokens` uses a second of two ticks, so that a family can start in the
  second of a sign-out, before and after it; two tokens are one rotation, and
  `WithinAbsoluteLifetime` says of each rotation that it hands the start of the
  session on.
- In `policy_evaluation` the seven policies differ in each aspect that the filter
  or the ranking looks at, two of them tie in priority, and every subset of them
  is reached.
- `terminal_sessions` has one terminal because its temporal properties are
  about one; two terminals of one request share sockets and sweeps in
  `TerminalPair.cfg`, which passes too.
- In `sign_in` the throttle (`ThrottleMax` = 2) is met by one request being
  admitted while another waits, across expiries of the challenge and of the
  counters.
- Two hosts are the least for a canary and a step after it. With
  `CanaryPercent` = 10 the canary is one host; in `collector_liveness`
  both hosts may fail, which is what halts a rollout (`MIN_FAILURES_TO_HALT` = 2).
- `audit_export` has two rows that may lie in one day or in two, in either order
  of id and time, and a sink that reads them one at a time.
  `MaxBatches` = 1 because a run of two batches does nothing that two runs do
  not, except to hold a stale cursor longer; with `MaxBatches` = 2 TLC finds no
  error either, in about half as much time again.
- In `directory_sync` one account may leave the directory for real, the other
  one is vouched for all the time; `MaxPercent` = 50 and
  `MaxCount` = 1 are both met. The `VIEW` leaves `cutOff` out of what
  tells states apart: nothing reads it but `SuspendedIsCutOff`, which the run does
  not check. Two processes are in `DirectoryOverlap.cfg` (one account,
  `JobRunsAlone` and `NoHastySuspension` pass); the theorems have any number.

The largest runs have a few million states (`directory_sync`: 4.6 million).

Each property has a mutant: a plausible mistake in one definition (a dropped
`WHERE`, a timer not cleared, a counter that forgets, ...) under which the
same run fails. The mutated forms stand next to the definitions they change.

More configurations are kept beside the runs: those that pass are
`TerminalPair`, `DirectoryOverlap` and `AuditLiveness` (`EverythingShips`: a
sink that stays active ships every row, under the fairness below); the others
belong to section 7.

## 5 Fairness

`AccessRequests!Fairness`: the event loop resumes a handler whose database
answer has arrived (weak fairness of `Finishes`), the jobs are repeated every
minute or five minutes by BullMQ (weak fairness of the sweeps), time goes on.
The sweep's write of a row is strongly fair: a restart may cut off any number
of runs, each is started again, and not every one of them is cut off before
it reaches the row. Nobody is obliged to review, revoke or request.

`TerminalSessions!Fairness`: an attempt to connect ends one way or the other
(ssh2 has its own timeouts), timers and the 30 s watcher fire, writes and sweeps
under way are carried out, and a shutdown leads to the exit (the code
forces it after 10 s). The hourly job that closes rows older than 24 h is
repeated and in the end writes each of them (weak fairness of `MarkStale`): a row
whose write has failed has nothing else to rely on. Users, administrators and
networks owe nothing.

`CollectorRollout!Fairness`: some instance starts the job again and again and
goes on with a pass it started; the steps of the pass that a restart could cut
off for ever, and time, are strongly fair; a lock that nobody holds expires and a report that
came in is recorded. Hosts and administrators owe nothing; the properties
are conditional on auto-update staying on.

`AuditExport!Fairness`: the export job is repeated, and a batch that is read is
delivered or fails; strong fairness says that not every run is cut off or finds
the lock taken. Transactions commit, locks expire. Destinations may fail for
ever, and a sink that gives up is no longer bound by `EverythingShips`.

`SignIn!Fairness` (only for `ThrottleEnds`, section 7): a request the process
does not lose goes on, and a key with an expiry expires.

`DirectorySync`, `RefreshTokens`, `BreakGlass` and `PolicyEvaluation` state no
fairness: their properties are about safety.

## 6 Proofs

Eight modules hold the proofs; each is checked for all values of the constants
under the `ASSUME` of the module it extends. The listed theorems follow a
common shape: an inductive invariant, one lemma for each action or group of
actions that could disturb it, and a temporal step.

**`AccessRequests_proofs`** (`ConstantsAssumption`: the markers `NoUser`,
`NoRequest`, `NoCert` are outside the sets, durations and ages are natural
numbers):

- `TypeCorrect`: `Spec => []TypeOK`.
- `FinalIsFinal`: `Spec => FinalStaysFinal`. Every action that writes a status
  either writes a final one or writes a row it has just seen to be
  PENDING or absent. The blind writes (`revoke`, both sweeps) only write final ones.
- `GrantIsFixed`: `Spec => GrantFixed`. Only the claim writes these columns
  of an existing row, and its `WHERE` requires PENDING.
- `CertsStayWithinGrant`: `Spec => []CertWithinGrant`. The property alone is
  not inductive: a handler between the read and the signature would be free
  to write anything. `GrantInv` adds that such a handler names a request
  that was approved, with an expiry time no earlier than the one it will
  write, and that it signs for no less than it will write; `GrantIsFixed`'s argument keeps that true while other handlers run.
- `DecidedOnce`: `Spec => []OneDecision`. `DecisionInv` counts: for a
  request, the recorded decisions and the handlers that have claimed it and have yet
  to record are together at most one, and none if it is still PENDING or absent.
- `RecordIsTrue`: `Spec => []DecisionOnRecord`. `RecordInv` says what a handler
  carries between its awaits: the team `submit` resolved leaves the requester
  out, a review under way is by one of the row's approvers, and between the
  claim and the audit row the request's columns are the ones the handler wrote.
  It needs `DecisionInv`: a second handler in that place would overwrite them.
- `Refinement`: `Spec => ImplementsGrants`. Initial states map to initial
  states; every step maps to a step of `Grants` or a stutter. The blind writes
  need `KnownInv` (a handler or a sweep that has taken up a request or a
  certificate found it there, so it closes or kills nothing that is
  new), and issuing needs `GrantInv` (the key ends within the grant).

**`RefreshTokens_proofs`** (`TokenAssumption`: `NoFamily` is not a family, a
second is at least one tick, the times are natural numbers):

- `TypeCorrect`: `Spec => []TypeOK`. `TypeInv` adds that the clock is past 0
  and that the token of a rotation in flight has a family, though its row may be gone.
- `SignedOutStaysUnused`: `Spec => []SignedOutIsUnused`, and
- `LifetimeIsAbsolute`: `Spec => []WithinAbsoluteLifetime`, both from
  `SafeInv`. Neither is inductive: the rotation writes the clock reading of the
  lookup two awaits earlier. `HandlerInv` says what that reading is worth while
  it waits: it is not in the future and lies within the session's lifetime, and
  if the family has been signed out since the user check, it was taken before
  the second of the sign-out ended. `ClockInv` (no recorded time is in the future)
  makes the new `sessionsValidFrom` itself harmless, by `CutToSecond`. A new
  row is safe for the rotations in flight because its token is not theirs (`CreateSafe`).

**`BreakGlass_proofs`**:

- `TypeCorrect`: `Spec => []TypeOK`.
- `BurnedBeforeGranted`: `Spec => []GrantedIsBurned`. `BurnInv`: a verification
  that is about to grant has removed the challenge's key, and a key that is gone
  never comes back, because a challenge is started once.
- `WrongCodesAreBounded`: `Spec => []WrongCodesBounded`. The invariant counts
  the wrong codes of a challenge against its counter, the verifications
  between their check and their `INCR`, and those that were lost in a restart.

**`SignIn_proofs`** (`SignInAssumption`):

- `TypeCorrect`: `Spec => []TypeOK`.
- `CodesAreBounded`: `Spec => []CodesPerWindowBounded`. `WindowInv`: the codes
  checked and the requests admitted and waiting are together at most the
  counter plus the number of handlers. When the key expires, those waiting stay
  admitted, which is why the bound is not `USER_THROTTLE_MAX` alone.

**`CollectorRollout_proofs`** (`RolloutAssumption`; any number of hosts,
versions and instances). `Inv`: the lock keeps all but one pass idle
(`OnePass`), at most one version is rolling (`OneRolling`), a pass works on a
version that is rolling, and while it makes offers nothing is offered but what
it offered itself (`OnRolling`); only a rolling version has offers
(`OfferedRolling`), and a report under way answers an offer that was made
(`ReportsAnswer`).

- `TypeCorrect`: `Spec => []TypeOK`; the cohort sizes need only that
  `NextPercent` stays within 1..100.
- `NothingStaysOffered`: `Spec => []NothingOfferedAfterEnd`, from `OfferedRolling`.
- `WidensOnEvidence`: `Spec => OneStepAtATime`, from `OnRolling`: the hosts the
  pass may find offered are its own, those of a pass that was cut off keep
  the next one from planning a step.
- `EndsForGood`: `Spec => EndedIsFinal`.

**`TerminalSessions_proofs`**. `Core`: the hub holds exactly the live sessions,
an open channel belongs to one that is opening or live, the sockets
of a record belong to it and are wired, an open socket leads to a session being
opened, to a live one that knows of it or to `hub.attach`, and an opening
session still has its opener.

- `TypeCorrect`: `Spec => []TypeOK`; `TimerTellsDetached`:
  `Spec => []TimerIffDetached`; `OverLetsGo`: `Spec => []EndedHoldsNothing`.

`BreakGlass_proofs` also holds the proofs about **`PolicyEvaluation`**, which
it extends next to `BreakGlass`: the emergency path starts from what that module
answers. (The names of the policies' specification are therefore `PolicyInit`,
`PolicyNext`, `PolicySpec` and `PolicyTypeOK`.) The invariants are about what the
operators answer in any configuration, so the state only has to be of its type.

- `PolicyTypeCorrect` needs that `evaluate` always answers: among the matching
  policies one is best (`BestExists`, from the ranks being natural numbers).
- `ProductionReviewed`, `EmergenciesAreAuthorised` and `DenialsWin` follow
  the two implementations case by case; `ListAgrees` shows them equal for
  every set of policies, ties included.
- `CeilingIsPositive`: every policy that `findBreakGlassPolicy` finds has a
  maximum of at least a minute, so that `BreakGlass` may write 0 for "no policy".

**`AuditExport_proofs`** (`AuditAssumption`: finitely many rows, the reading lag
is at most the retention). `Inv` rests on two ideas. A cursor is *low* when
no row can be written behind it any more, and it *covers* when whatever lies
behind it is delivered; both must hold of the cursor in the table and of every
cursor a run still carries (`SinksSound`, `RunSound`), for a run may write back
a cursor that is older than the table's. A batch covers up to its last row
because the rows are taken in the order of the log (`FirstRowsSegment`,
`LastRowIsLast`, `BatchCovers`). A retention pass acts on a limit it read
earlier: `RetainSound` says that what lies below it was shipped by every steady
sink and is committed, and `LogSound` that days are deleted whole.

- `TypeCorrect`: `Spec => []TypeOK`; `NothingIsSkipped`:
  `Spec => []NothingSkipped`; `OwedRowsAreKept`: `Spec => []OwedIsKept`;
  `ArchivedBeforeDeleted`: `Spec => []DeletedIsArchived`. The last one needs
  `LogSound`: were a day deleted in part, archiving it again would overwrite its object.

**`DirectorySync_proofs`** (`SyncAssumption`: finitely many accounts and
processes, `MaxPercent` in 1..100; any number of bad reads and overlapping runs):

- `TypeCorrect`: `Spec => []TypeOK`.
- `NobodyIsHasty`: `Spec => NoHastySuspension`. `Grounds` says what every run may
  hold against an account at the place where it is: those found are known, those
  already upserted have a finding, those left to act upon are overdue. Findings
  never go away and keep their first date (`FindingsKept`), and the
  clock stands while a run is under way, so what one run found stays true
  whatever the others do (`SoundKept`).
- `BadReadSuspendsNobody`: `Grace > 0` and `Spec` give `BadReadIsHarmless`.
  `VouchedFor` follows the one incomplete read: before it nobody of the staff is
  suspected, and the run that holds it has made findings of this very moment, which
  are not overdue. With a grace period of 0 the statement is false
  (the settings allow it), hence the hypothesis. The percentages of valve 8 are not
  needed: the grace period alone protects against one bad read.
- `JobIsAlone`: `Spec => []JobRunsAlone`, from `Locked`.
- `SuspendedIsCutOffUnlessInterrupted` and `UnknownIsSparedWithoutMail`: see the
  table below.

### One overlap each

Section 7 lists sentences of the documentation that TLC refutes, each by a
trace of one kind. These theorems show that this kind, or the two the table
names, is the only one: in every behaviour that is free of it, with any number
of handlers, crashes and rows, the sentence is true. The hypothesis stands next to the property in the module
and says which two steps must not overlap; the code does not ensure it.

| theorem | sentence | what must not happen | invariant |
| --- | --- | --- | --- |
| `AccessRequests_proofs!ApprovedLastsWithoutOverlap` | `ApprovedUntilExpiry` | a request is approved while the pending sweep holds it (`NoGrantOfSwept`) | `SweepInv`: what the sweeps hold is still as they read it, or final |
| `AccessRequests_proofs!SweepIsRightWithoutOverlap` | `SweepTakesApproved` | that, or a revocation of what the expiry sweep holds (`NoRevocationOfSwept`) | `FoundApproved` |
| `AccessRequests_proofs!RejectedWithoutReissue` | `RejectedOnceNotApproved` | a second certificate of one request (`OneCertPerRequest`), or a restart before the link is written (`EveryCertIsLinked`) | `LinkInv`: a certificate is linked, or its handler is about to link it |
| `AccessRequests_proofs!SignedWithinGrantIfInstant` | `SignedWithinGrant` | time passes between the read of the request and the signature (`SigningTakesNoTime`) | `SignedInv` |
| `RefreshTokens_proofs!SingleUseWithoutOverlap` | `SingleUse` | two refreshes holding one token (`OneRefreshPerToken`) | `OneUsable`: at most one token of a family is usable |
| `RefreshTokens_proofs!RevokedForGoodWithoutOverlap` | `RevokedFamilyIsDead` | a refresh of a family that is being revoked (`NoRefreshOfRevoked`) | `ClosedInv` |
| `BreakGlass_proofs!SingleUseWithoutOverlap` | `OneGrantPerChallenge` | two verifications using one challenge (`OneUsePerChallenge`) | `UseInv` |
| `BreakGlass_proofs!NoOverlapWithoutRace` | `NoOverlap` | two verifications between the look and the grant (`OneAdmittedAtATime`) | `AdmitInv` |
| `BreakGlass_proofs!CeilingHoldsAboveFloor` | `WithinPolicyCeiling` | a policy whose maximum is below the floor | the type of the handlers |
| `SignIn_proofs!LockStandsWithoutOverlap`, `FailuresCountWithoutOverlap` | `LockStands`, `EveryFailureCounts` | two passwords compared at once (`OneLoginAtATime`), for the second also an unlock meanwhile (`NoUnlockMeanwhile`) | `ComparedUnlocked`, `FreshCount`: the copy a login holds is current |
| `SignIn_proofs!BackupCodesWithoutOverlap` | `BackupCodeOnce`, `OldCodesStayDead` | another request holding a copy of the list that is written (`OneUseOfCodes`, `NoNewCodesMeanwhile`) | `CopiesAreFresh` |
| `SignIn_proofs!EmailCodeWithoutOverlap` | `EmailCodeOnce` | two requests that have found one code valid (`OneUseOfMail`) | `FoundUnused` |
| `SignIn_proofs!BurnedWithoutOverlap` | `BurnedIsRefused` | two requests trying one challenge (`OneTryPerChallenge`) | `BelowLimit` |
| `SignIn_proofs!OneCodeWithoutOverlap` | `OneActiveCode` | two sends between the delete and the create (`OneSendAtATime`) | `ActiveAlone` |
| `TerminalSessions_proofs!UnattendedIsTimedWhenHeard` | `UnattendedIsTimed` | a socket drops before its listener is wired (`DropsAreHeard`) | `WiredAreOpen`: sockets that are attached, joining or waiting for their session are up |
| `TerminalSessions_proofs!ChannelsLiveWhenHeard` | `HubHasChannels`, by which `DeadChannelEnds` has nothing left to end | the channel closes between the shell callback and `hub.create` (`ClosesAreHeard`) | `ShellHasChannel` |
| `TerminalSessions_proofs!OnlyOrphansWhenSweptFirst` | `OnlyOrphansReconciled` | a terminal is opened before the boot sweep has looked (`SweepBeforeOpening`; `server.js` listens first) | `SweepInv`: the rows found are of sessions that are over |
| `TerminalSessions_proofs!CutOffBetweenOpenings` | `CutOffHasNoShell`, the safety half of `DisabledHasNoShell` | the account is disabled while one of its terminals is being opened (`DisabledBetweenOpenings`) | `CutInv` |
| `DirectorySync_proofs!AbsencePersistsWhenNew` | `AbsenceMustPersist` | a closed finding is opened again (`ClosedStaysClosed`) | `Dated`: the first date is that of the last opening |
| `DirectorySync_proofs!AnAdminStaysWithoutOverlap` | `AnAdminStays` | two runs overlap, or an administrator suspends a super admin between check and write (`NoAdminSuspendedMeanwhile`) | `Chosen` |
| `DirectorySync_proofs!SuspendedIsCutOffUnlessInterrupted` | `SuspendedIsCutOff` | a cascade fails, leaves terminals or is cut short (`CascadesComplete`) | the property itself, with `Complete` of each step |
| `DirectorySync_proofs!UnknownIsSparedWithoutMail` | `NullIsNotAbsence` | an identity without a directory id has an e-mail to match (`Mailed` within `Linked`) | `Grounds` |
| `AuditExport_proofs!OnceWithoutOverlap` | `NotDeliveredTwice` | two instances working for one sink (`OneRunPerSink`), or a run lost, or a transaction that fails, after a delivery (`DeliveriesAreRecorded`) | `CursorIsCurrent`, `Recorded`: a destination has what is behind the cursor and what the run has in hand |
| `AuditExport_proofs!FloorHoldsWithoutLateSinks` | `FloorIsHard` | two instances working for one sink, or a sink activated behind the limit of a pass (`NoLateSink`) | `AboveLimit` |

Each hypothesis leaves the interesting behaviours in: runs, handlers and
crashes still interleave everywhere else, and TLC checked each invariant on
small instances of the specification so restricted before it was proved.

Only model-checked: the liveness properties (`RevokedStaysClosed`,
`OverIsRecorded`, `ExpiryIsSwept`, `SilentIsJudged`, `BadRolloutEnds`,
`EverythingShips`). Liveness under fairness, `ENABLED`, induction over
recursive definitions and anything about `RECURSIVE` operators are out of the prover's
reach (there are no such operators). Of the refuted sentences of section 7, those
about `CollectorRollout`, `GivesUpAfterFailures` and `ThrottleEnds` (a liveness
property) have no such theorem; the others do (`JobIsAlone` for
`OneRunAtATime`: no two runs overlap without a "Run now"). `FloorIsHard` needs
both its hypotheses: besides the sink activated late, TLC finds a floor broken by a
second instance that started from an older cursor and sets the table's back to
it (three rows and two instances). What is deleted then had been delivered.

## 7 Disagreements between code and documentation

One run is expected to be violated: a host is said to reject a certificate once
its request is no longer APPROVED (`docs/rbac/access-policies.md`), but
after issuing twice and revoking, the first certificate is linked to nothing and
verifies (`verify_after_revocation`).

Section 6 proves, for most of these sentences, that the overlap in the trace
is the only cause. More sentences are stated in the modules and refuted the same way, by
`tlc -config X.cfg` with the named configuration of the module's MC module.

| configuration | property | sentence | trace |
| --- | --- | --- | --- |
| `AccessRequestsPending` | `ApprovedUntilExpiry` | APPROVED becomes EXPIRED at `expiresAt` (`docs/rbac/access-policies.md`) | the sweep reads PENDING, a reviewer approves, the sweep writes EXPIRED |
| `AccessRequestsSweep` | `SweepTakesApproved` | the sweep moves APPROVED requests (`markExpired`) | it reads APPROVED, an administrator revokes, it writes EXPIRED |
| `TerminalDeadChannel` | `DeadChannelEnds` | the hub owns ending after the shell callback (`terminalService.js`) | the channel closes while the recording is being opened |
| `TerminalUnattended` | `UnattendedIsTimed` | with the last socket gone a timer starts (`docs/terminal-workspace.md`) | the socket drops before its listeners are wired |
| `TerminalReconcile` | `OnlyOrphansReconciled` | the boot sweep closes rows of sessions that can no longer exist (`terminalService.js`) | a terminal is being opened while the sweep runs |
| `AccessRequestsSigned` | `SignedWithinGrant` | the TTL of the certificate equals the request's remaining time (`docs/rbac/access-policies.md:131`) | the remaining time is computed, time passes, the key is signed for that long from then |
| `RefreshSingleUse` | `SingleUse` | a refresh token is single-use (`docs/auth-hardening.md`) | two refreshes read the same live token |
| `BreakGlassSingleUse` | `OneGrantPerChallenge` | a challenge is burned on success and cannot be replayed (`accessRequestService.js`) | two verifications read it, both grant |
| `BreakGlassOverlap` | `NoOverlap` | no two overlapping break-glass sessions on a server (`accessRequestService.js`) | two challenges, both find nothing active |
| `BreakGlassCeiling` | `WithinPolicyCeiling` | the ceiling is the policy's maximum (`routes/accessRequests.js`) | a policy below the floor of 300 s |
| `SignInThrottle` | `ThrottleEnds` | the window of the throttle ends | the process stops between `INCR` and `EXPIRE`; under `SteadySpec`, without restarts, it passes |
| `AuditFloor` | `FloorIsHard` | an active sink's cursor is a hard floor (`retentionService.js`) | the sink is created, or activated again, with an old cursor after the floor was read |
| `AuditTwice` | `NotDeliveredTwice` | the lock keeps a sink from being delivered the same batch twice (`auditExport.js`) | a sink's row is read before its lock is taken |
| `DirectoryReappears` | `AbsenceMustPersist` | absence must persist past `graceHours` (`docs/directory-sync.md`) | a finding opened again keeps its first date |
| `DirectoryLastAdmin` | `AnAdminStays` | the last active super admin is never suspended (valve 9) | between the check and the write another administrator suspends the other one |
| `DirectoryRunNow` | `OneRunAtATime` | every sync holds a Redis lock (`jobs/directorySync.js`) | "Run now" takes none |

Others need only another property in a configuration that is there (its
`SYMMETRY`, `INVARIANTS` and `PROPERTIES` replaced):

| configuration | property | trace |
| --- | --- | --- |
| `RefreshSingleUse` | `RevokedFamilyIsDead`: logout revokes the family (`docs/auth-hardening.md`) | a rotation that had read its token writes a new one afterwards |
| `TerminalDeadChannel` | `DisabledHasNoShell`: a disabled account keeps no open shell (`userService.js`) | a Quick Connect terminal is being opened while the cascade runs |
| `SignIn` | `EveryFailureCounts`, `LockStands`: failures are counted, a lock stands | counters and lock are written from a copy read earlier |
| `SignIn` | `BackupCodeOnce`, `EmailCodeOnce`: codes are single-use; `OldCodesStayDead` with `BackupSets <- MCBackupSets` | checked and used in two statements; the list is written back |
| `SignIn` | `BurnedIsRefused`: five attempts, then it is burned | several requests pass the check together |
| `SignIn`, two mails and sends | `OneActiveCode`: single active code (`mfaService.js`) | two sends both delete, then both create |
| `CollectorLiveness` | `CanaryBoundsDamage`: the canary bounds the damage (`docs/collector-updates.md`) | a failed step of one host widens once it has dwelt |
| `CollectorLiveness` | `CompleteLeavesNobody`: complete with nothing left to offer | a candidate that appears at the last step is passed over |
| `CollectorLiveness` | `SilenceIsJudged`: a host that goes silent is judged | one report inside the grace period, then silence |
| `CollectorLiveness` | `TurnedOffIsCancelled`: turned off, it is cancelled on the next tick | the job visits only organizations with auto-update on |
| `AuditFloor` | `GivesUpAfterFailures`: gives up after failures in a row | failures are counted from the row read before the lock |
| `DirectorySync` | `NullIsNotAbsence`: a user whose directory id is unknown is never judged (`docs/directory-sync.md:79`, `:100`, `directorySyncService.js:27`) | where the directory has e-mails, line 531 lets an identity without a directory id be missed by its e-mail (the document's next sentence has it match by e-mail only in its favour) |
| `DirectorySync`, without its `VIEW` | `SuspendedIsCutOff`: an account no longer allowed in also loses certificates and requests (`userService.js:588`) | the status is written, the process stops before `revokeAllAccessFor`; the sync judges only active accounts, and suspending once more is no change |
| `PolicyEvaluation` | `BypassIgnoresDenials`: super admins off production, or where they may bypass it, are not bound by DENY (`docs/rbac/access-policies.md:54`, `:121`, `:127`, and G12 at `:195`) | `evaluate` looks at the denials before it grants the bypass (`policyService.js:201-237`), which is what `DenyWins` says |
| `PolicyEvaluation` | `EmergencyIgnoresPolicies`: the break-glass endpoint reaches any server and ignores policies and DENY (`docs/rbac/access-policies.md:148`, and G5 at `:188`) | `findBreakGlassPolicy` finds nothing without a policy marked for it, or against a DENY, which is what `BreakGlassIsAuthorised` and `DenyWins` say |

`docs/rbac/access-policies.md` describes the code of a date it names, before
custom roles, and the last two rows are where the code has moved on: comments in
`policyService.js` (`:202`, `:531-537`) state what it does now. So it is with two
remarks that need no trace: G7 (`:190`) calls `isBreakGlass` dead, and
`findBreakGlassPolicy` reads it; G5 says that break-glass ignores the
organization's setting for production, and `assertBreakGlassProdAllowed`
(`accessRequestService.js:2034`) checks it. Lines 94 and 131, by contrast, describe a
part of the code that still works as the document says around them.

## 8 What is not modelled

Each component and the reason is in `PROJECT.json`. Within modelled components:
certificates issued without a request (`certificateService.issue`), RDP, the
terminal's ring buffer and recordings, `deleteUser` and role changes,
access tokens (minutes of life, checked against the user row on each call),
e-mail and chat output, draft policies, enrolment of factors, the formats of
audit sinks, directory adapters, posture alerts. The rotation of the CA key and
device authorisation are listed as hazards and left out: neither meets the
modelled components but in one call. Half of the repository is the
frontend and the terminal client, which repeat the server's decisions for
display only; most of the rest of the backend is validation, queries and
adapters around single statements.

Smaller things left out of modelled parts, or simplified there:

- refresh tokens from before families existed (no `familyId` or
  `sessionStartedAt`): nothing creates them and they expire within
  `REFRESH_TTL_MS`;
- the lock of the collector's job and of the directory job expires only while no
  pass is under way: a pass that outlives its lock is not exercised;
- the hourly job's find and its write of a row are one step, and its clock is
  abstract;
- the `EXPIRE` after the `INCR` of a break-glass challenge is part of `CountWrong`: its
  key may expire at any time in the model, or never, so a step of its own would
  add no behaviour;
- a late report that overwrites the outcome of a collector's attempt already
  closed is possible in the model and no property speaks of it;
- the settings of the directory sync (`graceHours`, the limits) do not change
  during a behaviour.

## 9 Plan

Done: the access-request lifecycle and the abstract `Grants` it implements,
terminals, browser sessions, sign-in, break-glass, policies, the collector's
rollout, audit export and retention, directory sync; every safety property of
the runs is proved for all constants,
and most refuted sentences are proved to need the one overlap that refutes them.

Left, in this order: device authorisation and the CA's rotation; posture
alerts; the recording ingest; an abstract specification of the export (at
least once, in order) for `AuditExport` to implement; a composition of `AccessRequests` with `TerminalSessions` on the same
rows, in place of the two actions by which each now stands in for the other.
