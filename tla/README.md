# StarLoader: TLA+ models, checks and proofs

StarLoader is a license server in Go (`backend/`, over PostgreSQL) and a Windows
client in C++/Qt (`license-client/`, with code shared with `hwid-obtainer/` under
`shared/`). A user logs in, the client answers a device challenge with a key held
in the TPM, the server binds the device to the user's license and issues a
ten-minute session token bound to that key, and the client uses the token, with a
DPoP proof per request, to read its profile and to open a dashboard that launches
a game.

This directory holds TLA+ models of that system, TLC configurations that check
them on small instances, and TLAPS proofs of the most important results for
every value of the constants. Paths below are relative to the repository root.
`PROJECT.json` is the index: components, runs, mutants, the map from definitions
to source lines, findings, hazards, theorems.

## 1. Inventory

### Server (`backend/`)

| Part | State | Operations | What is hard | What makes it correct |
|---|---|---|---|---|
| Device matching (`internal/domain/device_score.go`, `matchDevice` in `internal/service/device_verify.go`) | none | score a machine against the stored rows; refuse, match or create | early returns and a running maximum over rows whose order is the clock of whichever instance inserted them | the loop decides what the rule says, in any order; no match without the TPM key |
| Login and verification (`internal/service/login.go`, `device_verify.go`, `internal/store/auth_sessions.go`, `devices.go`, `licenses.go`) | tables users, licenses, auth_sessions, device_challenges, devices | `/v1/auth/login` creates a pending session and its challenge; `/v1/device/verify` redeems it in one transaction | concurrent requests of one license, lock order, a policy time read before the locks are waited for, unacknowledged commits, operators changing rows | device limit, single use, binding of token to key, nobody waits for ever |
| Protected API (`internal/httpapi/auth.go`, `me.go`, `internal/security/`, `internal/store/dpop_replays.go`) | table dpop_replays | check token and proof, consume the proof, load and judge the profile | duplicates, cleanup in the same statement as the insert, two clocks, revocation of a subject whose token still lives | a proof counts once, somebody taken out is not served |
| Rate limiter (`internal/httpapi/middleware.go`) | a table of buckets under a mutex | `allow(key)` | fixed windows, lazy cleanup, a full table | bounds on the table and on what passes |
| `clientIP` (same file) | none | find the address a request is counted under | headers written by clients and by a chain of proxies, two spellings of an address | a client is counted under its own address or one of the proxies' |
| Migrations (`internal/store/migrations.go`) | schema and ledger | up, down | one advisory lock per version, not per run | ledger and schema agree |
| Process (`cmd/server/main.go`) | listener, stop signal | serve, drain | listener error, signal and drain deadline race | its exit status is truthful; no transaction is cut off |
| Administration, configuration | rows | single inserts | nothing concurrent | - |

### Client (`license-client/`, `shared/`)

| Part | State | Operations | What is hard | What makes it correct |
|---|---|---|---|---|
| `AuthManager` with `ApiClient` | state, attempt number, secrets, token, expiry timer, one request slot, two futures | login, sign-out, results of workers, replies, the timer | everything is asynchronous: results of an abandoned attempt arrive during a later one, aborted replies finish late, the token expires in between | tokens guarded by a timer, only fresh results admitted, every login settles |
| `LaunchController` with `LaunchPanel` | controller state, timer, attempted ids, owned process, worker | select, cancel, poll, worker result, watch, close | worker thread and timer against buttons, session expiry, deletion of the window, processes that exit and ids that return | one attempt per process, no late load, nothing left running |
| `LoginWindow`, `UserDashboard`, `HwidDialog` | which window exists, is visible, is about to be deleted; the clipboard | show, hide, delete, open dialogs | deferred deletion, nested event loops, one hardware collector for two workers | a dashboard belongs to the running session; the collector has one user; the user always has one window |
| TPM identity (`shared/security/`) | a persisted key, shared by processes | open, create, configure, finalize, validate, roll back; export, sign | two processes at once; a crash in the middle; every use opens the key anew | what is left behind conforms; a rollback removes its own key; a proof carries its token's key |
| One request (`ApiClient`, `TlsPinPolicy`) | the reply and its marks | start, TLS signals, redirect, timeout, cancel, finish, word the error | the signals come in any order; marks are read after the abort | nothing sent to an unpinned peer; no success from a marked reply; only local text on the screen |
| Token verifier and proof builder (`license-client/src/security/`) | none | read a token twice, scan JSON, judge claims | two independent readers, doubled members, two clocks, a key ring | the readers agree; no doubled member passes; bounded sessions |
| Hardware collection (`shared/hardware/`, `Fingerprint`) | COM apartments, buffers | two-call reads, ten COM calls, a table parser, a hash | sizes that change between calls, failure at every call, damaged tables, spelling | no byte read that was not written; threads given back; a stable, unambiguous fingerprint |
| HWID obtainer (`hwid-obtainer/`) | identity, status line, buttons, workers | refresh, copy, export, TPM test | stale identities, failing saves, throwing workers, a key replaced meanwhile | the status lines say what happened; a passed test used one key |
| Native module mapper | none between calls | one load operation | - | - |

### How they interact

Client and server exchange four JSON requests over HTTPS (`/v1/auth/login`,
`/v1/device/verify`, `/v1/me`, `/healthz`). Server requests interact only through
PostgreSQL rows and the limiter's mutex. In the client, AuthManager calls
ApiClient, whose signals call back synchronously; workers run on a thread pool and
answer through queued `finished()` signals. The dashboard receives the token's
expiry and gives it to the launch controller.

## 2. Modules

| Module | Models | Variables correspond to |
|---|---|---|
| `DeviceMatch` | `ScoreDevice` and the decision of `matchDevice`, declaratively | (operators only) |
| `DeviceMatchLoop` | the loop of `matchDevice` as coded | `devices`, the list that `ListDevices` returned; `presented` |
| `DeviceVerification` | login and verification; composes `DeviceMatch` | rows of the tables; `req`: where each goroutine stands and its local variables; `tokens` issued |
| `Activation` | the abstract promise of verification: redeem, revoke and grant as atomic steps | refinement mapping in `ActivationSpec` |
| `DeviceVerificationProofs` | theorems | |
| `ProtectedApi` | `RequireSession`, `ConsumeDPoP`, `handleMe` | rows; `req` as above, with a record of the request's past |
| `ProtectedApiProofs` | theorems | |
| `RateLimiter` | `ipRateLimiter.allow` | `buckets`, `nextCleanup`; `lastCall` and `allowed` (per address the times of the calls that passed) are history |
| `RateLimiterProofs` | theorems | |
| `Migrations` | `MigrateUp`, `MigrateDown` | `ledger` (schema_migrations), `schema` (versions whose objects exist), `run`: where each process stands |
| `MigrationsProofs` | theorems | |
| `AuthClient` | `AuthManager` and `ApiClient` | their members, the two futures, the replies in flight |
| `GameLaunch` | `LaunchController`, `LaunchPanel`, closing of the dashboard | their members, `worker_`, the operating system's processes; `launched` and `loads` are history |
| `GameLaunchProofs` | theorems | |
| `ClientWindows` | `LoginWindow`, the dashboard it owns, `HwidDialog`; composes `AuthClient` (a step of it and the slots it calls are one action) | visible windows, `dashboard_`, dashboards awaiting deletion, frames of nested event loops, clipboard |
| `ClientWindowsProofs` | theorems about `ClientWindows` with `AuthClient` | |
| `SecureReply` | `TlsPinPolicy`, one `QNetworkReply` of `ApiClient`, the wording of errors in `ApiClient`, `AuthManager::fail`, `LoginWindow` | the build's transport configuration, the reply's properties, `requestActive_`, signals emitted, what is on the screen |
| `CompactToken` | `decodeCanonicalBase64Url` and `validCompactAccessToken`, the two readers of a token's text | the text |
| `JsonScan` | `hasUniqueJsonMembers` | a value, its text, what became of the text |
| `SessionToken` | key ring, claim policy and signature check of `SessionTokenVerifier`; the server's `Issue` | ring, the server's key, both clocks, a token under way, the session |
| `TpmKeyLifecycle` | `ensureKeyLifecycle` with `CngKeyLifecycle` | the key store; per caller its step, handle, guard and result; `vouched` and `removed` are history |
| `TpmIdentity` | login signature and DPoP proof over the store; composes `TpmKeyLifecycle` | what each caller has read so far |
| `TpmProofs` | theorems about both | |
| `HardwareReads` | the two-call reads of disk extents, descriptor, registry, firmware and TPM key | buffer, what was written, how far the code reads |
| `BiosQuery` | `BiosReader::serialNumber` | per thread: apartment, call, what is owned; the process' COM security |
| `SmbiosParser` | `SmbiosParser::parse` and a definition of the table | the table |
| `Fingerprint` | normalisation, `serialSignal`, `collect`, `generate` | two machines |
| `HwidObtainer` | `MainWindow` of the HWID obtainer, its TPM test | its members, the two watchers, file, clipboard, the TPM key |
| `ServerLifecycle` | `serveUntilStopped`, `shutdownServer`, `pool.Close` | context, listener, main goroutine, handlers |
| `ClientIP` | `clientIP` | a request on its way through proxies |
| `Parts` | no code: runs the eleven modules that share no state with another and are proved about (`ServerLifecycle`, `DeviceMatchLoop`, `ClientIP`, `SecureReply`, `SessionToken`, `CompactToken`, `HardwareReads`, `BiosQuery`, `SmbiosParser`, `Fingerprint`, `HwidObtainer`), one at a time | `part`, the module that runs |
| `PartsProofs` | theorems about those eleven | |
| `MCParts` | no code: `Parts` for TLC, with the enumeration `JsonScan` | `part` |

An action is one statement that can wait (server) or one event handled to its end
(client). Locks are not variables: which transaction holds which row follows from
where it stands (`HoldsChallenge`, `HoldsLicense`, `HoldsDevices`), exactly because
PostgreSQL releases them at the end of the transaction.

### Abstractions to know of

* Signals, digests, keys, tokens and proofs are elements of sets; only equality
  counts. Passwords, signatures and malformed bodies appear as verdicts.
* `LoginCheck` is one step for the reads of the user and of the license. Both
  are unlocked reads before an unlocked insert, so the later step sees any change
  between them as a change after them.
* A user owns one license of the product, so the account status is indexed by
  license. Rejected requests end without an effect; error codes are not state.
* `UpdateDevice` writes every signal but the TPM key; a created row's id is fresh.
  A machine whose key is stored but whose score is below the threshold runs into
  the unique constraint (`KeyTaken`) and ends as an internal error, as in the code.
* Operators change rows directly in the database; their statements wait for row
  locks. There is no command for it in the repository.
* `ConsumeDPoP` is one SQL statement with a data-modifying CTE. PostgreSQL does
  not define whether the deletion or the insertion runs first, so
  `CleanupFirst` allows both orders; the violation run uses the insert first only.
* In `ProtectedApi` the license status "revoked" stands for "expired" too:
  `handleMe` refuses both.
* In `Migrations` a script is known by what it needs (`Needs`: version 2 alters a
  table of version 1), what it creates, what it drops, and whether its down script
  says "if exists" (`IfExists`). Dropping a table takes later alterations of it
  along. A missing ledger table is an empty ledger.
* In `AuthClient`, `exp` of an accepted token may equal the clock: the verifier
  looked at the clock before AuthManager does. A coarse timer may fire
  `TimerSlack` early.
* In `GameLaunch` a process that was told to terminate is "dying" until the
  operating system is done with it, and may or may not be found by a lookup. When
  the dashboard is deleted while its file dialog runs, the handler continues on a
  deleted object: undefined, and the model ends the panel there. The launch
  service of `UserDashboard` is always present in the program and so in the model.

External parts, modelled from how the code uses them:

* CNG and the TPM (`TpmKeyLifecycle`): a created key is private to its handle until
  it is finalized; creating or finalizing under a taken name fails, because the code
  gives no overwrite flag; a handle denotes one key; every call may fail. The TPM may
  be cleared and other software may create a key of the name at any time. A call of
  `publicKeyBlob` or `signChallenge` holds one handle and is one step.
* Qt Network (`SecureReply`): `encrypted()` comes before the first byte of a request,
  `abort()` leads to one `finished()` with an error, possibly after other signals.
* The Qt event loop (`ClientWindows`): a `deleteLater` of an object is handled before
  events posted after it; a nested loop delivers events as the outer one does, and
  deferred deletions posted in it.
* Windows' registry, disk and firmware calls (`HardwareReads`) answer with any numbers
  up to the bound; the registry and CNG keep to the size they were given.
* COM (`BiosQuery`): one apartment per thread, one security setting per process.
* net/http, os/signal, pgxpool (`ServerLifecycle`): `Shutdown` takes no new request and
  returns without error only when none is active; `Close` of the pool waits for
  borrowed connections; after `cancelApplication` a second signal kills the process.
* Proxies (`ClientIP`) append their peer to X-Forwarded-For, or replace X-Real-IP and
  drop the chain.

Layouts are scaled down where whole inputs are enumerated: a DWORD, the headers
and the extents of `HardwareReads`, the offsets of an SMBIOS record in
`SmbiosParser`, the 64 bytes of a signature in `CompactToken` (the arithmetic on
groups of four digits and the widths of digits and bytes are the code's). SHA-256 is
injective in `Fingerprint`, and values contain no `|`, which normalisation keeps; of
the letters only `a` and `b` have a lower case there, and white space is the blank.

## 3. Runs

| Run | Instance | Shows |
|---|---|---|
| `device_verification` | 2 requests, 2 sessions, 1 license for 1 device, 2 device ids, 3 machines, clock 0..2 | device limit, single use, binding, late commits, refinement of `Activation` |
| `device_verification_live` | the same with one machine and no time for waiting (the timeout always races) | every request ends |
| `protected_api` | 3 requests, 2 tokens with overlapping lives, 2 proofs, the database clock one unit ahead, both cleanup orders | a proof is admitted once while its token lives; a subject taken out is not served |
| `protected_api_once` | the clocks in step, insert first | violation: the comment on `ConsumeDPoP`, taken literally |
| `rate_limiter` | 3 addresses, a table of 2, limit 2, window 2, clock 0..5 | the bounds on staleness and on any sliding window |
| `migrations` | 3 processes, the repository's 3 versions, one direction at a time | ledger and schema agree, a successful up is complete |
| `client_windows` | `AuthClient` with its windows, up to 9 attempts, clock 0..4, with and without transport and verifier | tokens are guarded by a timer and admitted fresh, every login settles, dashboards belong to their session, one user of the collector, one window |
| `client_windows_expiry` | the same | violation: expiry while the file dialog is open |
| `game_launch` | 3 runs of the game, two under one process id, clock 0..2 with the session ending at 2 | the launch properties |
| `game_launch_exit` | the same | violation: the panel's comment "If the game exits first, stay open and show why" |
| `tpm_identity` | 2 programs, 2 keys, life cycle and use of the key together | what is persisted conforms, reported keys stay, a proof whose two halves disagree is of a removed key |
| `parts` | one module at a time, see below | the properties of twelve modules |

The run `parts` (module `MCParts`) has a variable `part` that selects the module
that runs; the variables of the others stand still. Its state space is the sum of
theirs, and every property is about the states of one of them. The properties are
defined in the parts' modules and restated, for their `part`, in `Parts` (those that
are proved) and in `MCParts` (`AcceptsUniqueOnly`, which TLC alone checks):

| Part | Instance | Property |
|---|---|---|
| `ServerLifecycle` | 3 requests | `CleanExitIsDrained`: an exit without error means a requested stop and nothing in flight |
| `DeviceMatchLoop` | all lists of up to 3 rows with distinct keys, 24 machines that differ in the key, one heavy and one light signal, each collectable or not | `LoopDecidesByDefinition` |
| `ClientIP` | 4 addresses in 2 spellings, headers of up to 2 items, up to 2 proxies | `CountedAsItself`: never an invented address; the client is found |
| `SecureReply` | 2 requests, every pin list of up to 3 entries, every order of signals | `SentOnlyToPinnedPeer`, `MarkedReplyNeverSucceeds`, `ScreenTextIsLocal` |
| `CompactToken` | all texts of up to 9 characters over 2 digits, dot and junk, a signature of 1 byte | `TokensAgree`: both readers take the same texts |
| `JsonScan` | values nested two deep with a limit of one, whole, truncated, followed by more | `AcceptsUniqueOnly` |
| `SessionToken` | rings of up to 2 entries, 2 keys, clocks up to 2 apart with a skew of 1, lifetime 3 | `SessionBounded` |
| `SmbiosParser` | six beginnings with up to 6 arbitrary bytes of 5 values | `ParsesTable`: the loop finds what the format says |
| `HardwareReads` | byte counts and numbers 0..12 in both answers of all five readers | `OnlyWrittenBytes` |
| `BiosQuery` | 2 threads with 2 readings, failure at every call | `ReadingsIndependent`: everything is given back; empty only for a cause |
| `Fingerprint` | pairs of machines with 2 values per signal, 2 disks, 2 extent lists, 2 spellings | `SameFingerprintSameMachine`: stable and unambiguous |
| `HwidObtainer` | 3 collections, 2 tests, 3 keys | `StatusTruthful` |

Why the bounds are enough for the interesting cases:

* Two verifications on one license with a limit of one is the smallest instance
  in which both can count zero devices; two sessions let the second request retry
  either session. The machines are one that matches itself, another one, and the
  second with the first one's board (same key, score below the threshold).
  A lifetime of 1 and a timeout of 1 on a clock of three instants let a commit be
  late for challenge and license. The license's own expiry lies at 2.
* Three requests are needed for the violation of `AdmittedOnce` (first use,
  cleanup, duplicate); the same instance shows what does hold.
* With a table one smaller than the set of addresses and a clock of three
  windows, buckets go stale, are swept, and refuse newcomers.
* Three migrating processes: one ahead, one behind and one that died in between.
  `Exclusive` is a discipline of the operators, not of the code (section 5 says
  what happens without it).
* Nine attempts allow two full logins with failures, sign-outs and late replies
  of each in the other.
* A process id that returns needs two processes; a third one lets a lookup meet
  several matches.

* `CompactToken` needs 8 characters for the smallest token, with two-digit segments,
  and 9 for one with a three-digit segment; of the digits 0 and 4 one has bits that
  must be unused in the first and may be used in the second.
* In `SessionToken` a drift of two exceeds the skew of one in both directions.
* Two callers and two keys: one caller's key may replace the other's, or one that was
  there, at any open.
* A second COM reading on a thread meets what the first one left; two threads meet
  each other's security setting.
* Two requests: the second may start while the aborted first has not finished.

Deadlock is checked in the runs with ever-arriving requests, commands and calls; it
is switched off where the system may really stop: after every request was answered
(`protected_api`), with the clock and the attempts at their bounds or the program
ended (`client_windows`), after the dashboard was deleted (`game_launch`), and in
`parts` after the last request, reading or collection, after the process ended, and at
the longest input of the enumerations.

Every property of a passing run has a mutant in `PROJECT.json`: a plausible bug
(a lock not taken, a guard dropped, a timer not stopped) with which TLC finds the
property violated on the same instance. The mutants stand before the definition
they replace and are marked as such.

### Fairness

* `DeviceVerification`: strong fairness for the steps that wait for a row lock
  (PostgreSQL queues the waiters of a row), weak for steps that only need to be
  scheduled. Arrivals, operators, failures and the clock owe nothing. A request
  that hangs on a lock would be ended by its timeout only if the clock advanced,
  so the property rests on the lock order.
* `GameLaunch`: repeating timers fire, the clock advances, the load operation
  ends (its waits are bounded). Users, games and the window system owe nothing.
* `ClientWindows`: worker threads end, posted events and deferred deletions are
  delivered, replies finish (every request has a timeout of 15 seconds). Users owe
  nothing.

## 4. What is proved

The proofs hold for every value of the constants allowed by the named
assumptions (`SignalAssumption`, `VerificationAssumption`, `ApiAssumption`,
`LimiterAssumption`, `MigrationAssumption`, `LifecycleAssumption`, `PartsAssumption`,
`FingerprintAssumption`, `SmbiosAssumption`, `LaunchAssumption`, `ClientAssumption`,
`WindowAssumption`): sets of any size, any
limit and lifetime. `NoX \notin X` and typing are most of what they ask, and that the
device ids are finitely many, so that a cardinality is a number. For the fingerprint
they ask that no text of the hardware holds the separator `|`, and that the extents
name disks up to some greatest number; for the SMBIOS table that a record's header
has at least two bytes (four in the code), its type and its length.

* **DeviceVerificationProofs.** `DeviceLimit`, `OneTokenPerSession` and
  `TokenBoundToDeviceKey` are not inductive: they depend on what transactions in
  flight know. `IInv` adds `LockInv` (two transactions never hold one challenge or
  one license), `SessionInv` (a transaction's session is pending and its license
  is the session's; ids reserved by inserts are distinct), `DeviceInv` (the target
  of a create is unused and nobody else's; the target of an update is an active
  row with the presented key, by `MatchNeedsTpmKey`: the other signals are worth 50
  points of the 70 needed), `LimitInv` (the room that a creating transaction
  counted is still there, because nobody else holds the license) and `TokenInv`
  (a token about to be issued is the only one of its session). One step of the
  proof per action, and under it one per conjunct the action can disturb.

  Three results build on `IInv`. `CheckedInv` says that what a transaction found on
  its locked rows by its policy time is still so; with the locks of operators'
  statements, `VerifiedOnlyWhileLive` follows for the commit, and with the timeout of
  the request `LateCommitBounded`: the clock may pass an expiry between the check and
  the commit, but by less than the timeout. `KeyInv` says that the rows of a license
  carry distinct TPM keys and that no transaction is about to insert one that is
  there. With it `ImplementsActivation`: the commit of a verification is `Activation`'s
  redemption, operators' statements are its grants and revocations, and every other
  step (locks, reads, inserts, a lost acknowledgement, a timeout) changes nothing
  `Activation` can see.
* **ProtectedApiProofs.** `OnceWhileTokenLive` needs that an admitted proof whose
  token is alive on the database's clock still has its row, and that the row of a
  proof carries the expiry of its token; `OutIsOut` needs that the profile of a
  late request shows the subject out, which nothing undoes. Clocks may differ by
  any integer.
* **RateLimiterProofs.** `StaleBounded` needs that the next sweep is at most one
  window away and that nothing expired before the last sweep is still there.
  `SlidingBound` (of 2 * Limit calls allowed in a row, the last comes at least a
  window after the first) is about the whole history and needs to know how a bucket
  relates to it (`LogInv`): the times of the allowed calls are in order; a bucket
  counts the latest of them, the first of which opened it a window before its expiry,
  and Limit calls before that opener lies a call at least a window older (`Fits`). The bound of twice the limit is the
  best there is: a window that straddles two buckets may meet both in full.
* **MigrationsProofs**, under `Exclusive` (no up and down at the same time).
  `LedgerTruthful` needs that the lock excludes (`RunInv`), that versions behind a
  process stay done (`PassedInv`) and that what was read under the lock is still
  so at the commit (`ReadInv`); with `OutcomeInv` the action property
  `UpMeansCurrent` follows: the last version recorded implies all of them.
* **TpmProofs.** The invariants of `TpmKeyLifecycle` are not inductive: a rollback
  must know that nobody was told of its key. `CallInv` adds that an armed guard is for
  a key neither vouched for nor removed, that a key is finalized only with its whole
  policy, and that a created key under validation is the persisted one unless
  something outside removed it. Since an armed key's maker is the caller, no two
  callers are armed for one key. For the users of the key (`UseInv`), `StoreStep`
  says that a key leaves the store only by being removed and never loses conformity;
  the three properties of `TpmIdentity` follow.
* **GameLaunchProofs.** `OneAttemptPerProcess` and `CancelStopsOwnGame` depend on what
  is under way between the controller, its worker and the operating system. The
  invariant says that `attemptedPids_` remembers every process loaded so far
  (`AttemptsRemembered`), that a worker that has not begun is about a process id no
  load was begun for, and is the current attempt's unless that was cancelled
  (`QueuedFresh`, `QueuedCurrent`), that the poll timer runs only under a visible
  dashboard (`TimerShown`), and that a running game the controller started is the one
  it would terminate, until it was handed over (`OwnsLaunched`, `CancelledOwnsNothing`,
  `LaunchedStarted`). `NoLateLoad` follows as an action property.
* **ClientWindowsProofs**, about the windows and `AuthManager` together; a step of
  `AuthClient` and the slots it calls are one step. `SessionGuarded` (a token is held
  only under a running expiry timer) is inductive with the types; `DashboardOfSession`
  and `NeverStranded` need that the login form is enabled unless something is under
  way, that a hidden dashboard is about to be deleted and that an authenticated
  client shows one; `CollectorHasOneUser` needs that the HWID dialog stands over an
  idle login form (`HwidOverIdleLogin`) and that a collection belongs to the login
  that waits for it (`CollectingForLogin`). `AdmittedFresh`
  is the action property: the client becomes authenticated only with an unexpired token
  and a profile of the present attempt.
* **PartsProofs.** Each part has its own invariant, and a step of another part leaves
  it alone.
  `ServerLifecycle`: `SelectInv`, until the select is left only a signal can have
  cancelled the context, and the listener does not report ErrServerClosed.
  `SecureReply`: `SecureInv`, there are replies only under an allowed transport, and a
  mark on a reply came with the abort that put an error there; both invariants and
  `MarkedReplyNeverSucceeds` follow for any pins and any order of the signals.
  `SessionToken`: `SessionBounded` for any ring, drift, skew and lifetime, by arithmetic
  on the claims. `HardwareReads`: `OnlyWrittenBytes` for any answers of the calls and
  any layout. `BiosQuery`: `BiosInv`, what a reading holds at a call has an owner.
  `HwidObtainer`: `ObtainerInv`, no identity is kept while a collection is under way and
  a verdict on its way is as true as one shown. `ClientIP`: `AddressInv`, behind the
  first proxy the chain ends with the sender and proxies, or was dropped for X-Real-IP;
  so a search from the right meets the sender first, however many proxies there are
  and whatever the client wrote. `DeviceMatchLoop`: `MatchInv`, the loop has a run over
  the list (a sequence of accumulators), and every run decides by the definitions. The
  rows are appended one at a time by the model's steps, so the induction over the list
  is the induction of the temporal proof and needs no rule of its own; what the
  loop's variables mean is carried along: whether a row refuses, the number of active
  rows, and the matched row as the best candidate of the rows seen so far.

  Three parts need induction over their input, which `LeastNumber` and `SetInduction`
  provide for sets of numbers: a set that holds 0 and with each number the next one
  holds all of them, because the least number outside it would have a predecessor.
  Loops are written as recursive functions over the turns, and a lemma per loop says
  that the function has a run (`WithoutRuns`, `JoinRuns`, `KeptDigits`, `StringRuns`,
  `ParseRuns`).
  `CompactToken`: `SegmentsAgree`, encoding the decoded bits gives a segment back
  exactly if all its characters are digits, the length is not one more than a
  multiple of four, and the bits of the last digit that fill no byte are zero;
  with the sizes of the signature (`SignatureSizes`) the readers agree (`ReadersAgree`).
  `Fingerprint`: dropping the empty serials from those of the sorted disks leaves the
  serials of the readable disks in order (`SerialsOfReadable`, for which a set of numbers
  has one ascending list, `OneAscent`); what is hashed is six texts with a separator
  behind each, of which only that of the disks may hold a separator, so the fields can
  be cut off from both ends in one way (`SixApart`), and the joined serials, none of
  them empty, at every separator (`JoinOnce`).
  `SmbiosParser`: the outer loop carries the set of records it has seen (`Seen`): they
  are chained and lie before `recordStart`, the result is what they say, and a record
  that a chain reaches is among them or is the next one. A turn takes the record at
  its offset exactly if the definition has one there (`RecordFound`) and otherwise
  ends; every turn moves on, so after as many turns as there are bytes the set is the
  chain (`ChainSeen`). The string of number k is the one whose start has k - 1 starts
  before it (`StringsCounted`).

`TypeOK` of the proved modules, `TableBounded`, `ScriptsApply`, `RollbackOwnKeyOnly`,
`UsedKeysConform`, `ProofBoundToToken` and `NoTransactionCutOff` are proved and not
listed in a run.

Checked by TLC only:

* the liveness properties `EveryRequestEnds`, `LoginSettles` and `ExpiryEndsAttempt`:
  fairness and ENABLED are out of the prover's reach;
* `AcceptsUniqueOnly`: the scanner of nested values consists of RECURSIVE operators that
  call each other, for which the prover has no backend.

## 5. Findings

* `protected_api_once`: `backend/internal/store/dpop_replays.go:8` says that
  ConsumeDPoP "admits a proof once across all server instances and restarts". A
  duplicate that passed the checks just before the token's expiry and is consumed
  after another request's cleanup removed the expired row is admitted again. What
  does hold, and is proved: never while the token lives on the database's clock.
* `game_launch_exit`: `license-client/src/launcher/LaunchPanel.cpp:78` says that the
  panel stays open if the game exits first. When the game is gone at the first
  look, completion is reported at once and the dashboard closes.
* `client_windows_expiry`:
  `docs/superpowers/plans/2026-09-01-starloader-proof-bound-client.md:151` says that
  "expiry closes the dashboard and restores the credential form with a safe reason".
  When the session expires while the panel's file dialog is open, the dashboard is
  deleted under the dialog's frame, and the handler goes on with the deleted panel's
  controller.

Facts met while modelling, without a statement in the repository to compare with:
a machine with a stored key and a changed board is refused as an internal error
for good; a cancelled controller terminates whatever process has the id it
remembers; the connectivity message that `errorForReply` words never reaches the
screen, because `AuthManager::fail` replaces every message; a `migrate down` that overlaps a `migrate up` can leave version 2 in the
ledger while its constraint went with the dropped table, and no later `migrate up`
restores it.

## 6. Plan

Done in this order: device matching; verification with its abstract specification;
the protected API; the limiter; the client's login; the launch panel; migrations;
proofs about the four server modules; the TPM key and its users with proofs; the
client's windows, requests and token checks; hardware collection and fingerprint;
the HWID obtainer; the end of the server process with proofs; `clientIP`;
proofs about commits and the refinement of `Activation`, the sliding bound, the launch
panel, the client's windows, and the parts, the last
three (token text, fingerprint, SMBIOS table) by induction over their input.

Next:

1. `AcceptsUniqueOnly` for values of any size, with the scanner as a machine over a
   stack of open objects and arrays.
2. Liveness of the parts that now have safety properties only: the end of the server
   process, of a request and of the obtainer's workers.
3. Composition of `DeviceVerification`'s tokens with `ProtectedApi`.

Not modelled:

* the native module mapper: sequential code over another process' address space,
  without state between calls; its verdict is an input of `GameLaunch`;
* administration commands (single inserts) and configuration (read once);
* start-up of the server, which is sequential;
* the device path of the system drive, the JSON form of an identity and the spelling
  of the htu claim: formatting without state;
* layout, dragging and labels of the windows, build scripts.
