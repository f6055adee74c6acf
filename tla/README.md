# Certify: TLA+ models, model checks and proofs

This directory models Certify (the FastAPI service in `src/src/certify`, and the
updater, update-check and TLS scripts in `src/packaging`) in TLA+. Every definition
is translated from the source at the lines that `map` in `PROJECT.json` names; each
run below is a `.cfg` in this directory. Run

    tlc -config <X>.cfg <Module>      # a model check
    tlapm <Module>Proofs.tla          # the proofs of a module

## 1. Inventory of the system

Certify is one FastAPI process (threads of a pool serve the handlers), one SQLite
database in WAL mode, a handful of files in the data directory, and root scripts
that systemd or an administrator starts. Its parts, their state, and how they
interact:

| Part | State it keeps | Operations | Talks to | What is hard | What makes it correct |
|---|---|---|---|---|---|
| Database (`database.py`) | `certify.db`, `-wal`, the write lock, the schema | `connect` (autocommit reads, a transaction from the first write, commit / rollback / close), `initialize` with its migrations | everything | handlers read in autocommit mode and write later; DDL commits by itself, so a migration can stop half-way | one writer at a time, the lock is given back; a migration that returned is complete |
| Audit log (`audit.py`) | table `audit_log`, a keyed hash chain | `append`, `verify` | called by every writing handler: by most behind their own transaction, by the two that queue a request for systemd before the request is filed | concurrent appends, lock timeouts, a tampered table | the chain never forks; `verify` is right |
| Users, passwords (`api.py`) | `users`, `password_history` | create, change, update | sessions, audit | check-then-write across requests, also during a migration | the last 20 passwords are not reused; the age is the present password's |
| Second factor (`api.py`, `security.py`) | two columns of `users` | setup, cancel, confirm, reset | audit | overlapping requests of one dialog | only confirmed secrets are active |
| Sessions (`api.py`, `security.py`) | none: signed tokens | login, `principal`, `roles` | users | the token outlives what it says | staleness is bounded |
| API keys (`api.py`) | `api_keys` | create, list, revoke, use | sessions, users | a request goes on with what was looked up while the key is revoked | a key follows its account and its revocation |
| Certificate orders, CA accounts (`api.py`) | `certificates`, `ca_accounts`, `certificate_users`, `certificate_targets` | create, CSR upload, key generation, assignment, enable / disable / change | audit, secret box | check-then-write; overlapping uploads and generations | key and CSR belong together; orders use their account |
| Notifications (`api.py`, `mailer.py`) | three columns of `users`; the relay has the mails | preferences, send | audit, the local mail relay | one of several mails fails; accounts change meanwhile | only subscribers get mails; an audited mailing reached all of them |
| Backups (`maintenance.py`) | archives, safety snapshots | download, restore | replaces the database file under the service | open connections, stale `-wal`, crashes, names by the second | what was answered survives |
| Automatic backups (`api.py`, `maintenance.py`) | settings file, backup directory | worker, settings, prune | same code in several threads | shared temporary name, racing prunes | retention kept, due backups made |
| Update requests and checks (`api.py`, `web-update.sh`, `check-update.sh`, path units, timer) | request and status files | request, check, run | the web service writes, systemd reacts, scripts answer by file | request during a run, shared temporary file, a killed run | no request lost, reports are true |
| Service update (`update-common.sh`) | `venv`, `venv.new`, `venv.previous`, units, lock file | prepare, exchange, start, health check, roll back | systemd, the service; a git checkout shared by all online updates | `set -e`, kills, a stop that fails, overlapping runs, a checkout that moves, restarts from outside | success and rollback mean what they say |
| TLS configuration (`configure-tls.sh`) | certificate and key file | validate, activate, restart | systemd, the service; takes no lock | two renames, a restart beside an update | the pair matches and is served |
| Adapters, providers, secret box, configuration, installers, CLI, web interface | little or none | | | | |

`PROJECT.json` lists all of them under `components` (the ones not modelled too, with
the reason) and, under `hazards`, what in this code is hard to test, at its line.

## 2. Modules and the code they model

### Audit log: `AuditChain`, `AuditLog`, `AuditTrail`, `AuditVerification`, `AuditedOperations`, `Notifications`

* `AuditChain` holds the rows and digests. A digest is modelled by what it commits
  to: the HMAC over an event and the previous digest is the sequence that ends in
  that event. Equal digests therefore mean equal histories (collision freedom is
  the one cryptographic assumption).
* `AuditLog` is `AuditLog.append`. `Call`, `BeginImmediate`, `BeginTimeout`,
  `SelectTip`, `InsertAndCommit`, `Return` are its lines in order; `Abort` is the
  rollback of `Database.connect`; `HandlerBegins` / `HandlerEnds` are the handlers'
  own write transactions, which compete for the same lock. `InsertAndCommit` also
  lets a writer insert when *nobody* holds the lock: SQLite would take it
  implicitly, so a version without `BEGIN IMMEDIATE` could run and would break the
  chain. That the code's version never gets there is what is checked and proved.
* `AuditTrail` is the abstract specification: a trail of events that only grows,
  and receipts that each commit to a prefix. `ImplementsTrail` is the refinement
  (`trail` is the events of the rows, `receipts` the returned digests).
* `AuditVerification` is `AuditLog.verify`: one `SELECT`, then the loop row by row,
  next to appends and outside changes (`Tamper`). A row whose details have been made
  something else than JSON ends the request without a verdict (`RaiseAtBroken`; such
  a row is always a broken one, since the program has issued no digest for it). Here
  an append is one step, which the proved refinement `AppendIsAtomic` justifies.
* `AuditedOperations` composes the log with the patterns of the writing handlers.
  In most (`create_user`, `update_user`, `revoke_api_key`, ...) the operation commits
  (`Operate`), then `append` runs, then the answer is sent (`Answer`). An operation of
  another kind than a database write (`Mailings`) takes effect by `Operate` too.
  `request_update` and `request_update_check` (`Announced`) call `append` first
  (`Announce`) and file the request afterwards (`CarryOut`), which may fail behind
  the audit entry (`CarryOutFails`: a full disk, or a file that another request has
  taken away). How the request files themselves interact is in `UpdateRequests`.
* `Notifications` composes that with `users`: `SetPreferences`
  (`notification_preferences`), `UpdateUser`, requests that are audited first
  (`QueueRequest`), and `send_notification` as `ReadRecipients`, `SendOne` for each
  mail, `SendFails` (refused, too late for a mail the relay has taken, or the process
  dies) and `Mailed`, which starts the audit entry. `Accepted` is the handler's list
  of levels per category; `Rank` is what the levels mean, and the property compares
  the two.

### Accounts: `PasswordHistory`, `SchemaMigration`, `TotpEnrollment`, `Sessions`, `ApiKeys`

* `PasswordHistory` is `change_password`: `VerifyCurrent` and `CheckHistory` are the
  two SELECTs and their checks, `Write` the transaction with its pruning, `Fail` a
  lock timeout or the end of the process. `past` is a ghost that remembers what
  really was.
* `SchemaMigration` extends it with `Database.initialize` on the database of an
  earlier release, as a restoration leaves it. Python's `sqlite3` commits each
  `ALTER TABLE` by itself (`AddUserColumn`) until the `UPDATE` opens a transaction
  (`Fill`), which ends with the `with` block (`Complete`). `Interrupted` is a
  duplicate column, a lock timeout or the end of the process. `email`,
  `password_changed_at` and `hostname` stand for the columns before, at and after
  that `UPDATE`. A time is the number of the password set then; `createdAt` is 0 for
  an account whose password an earlier release has changed without noting when. The
  ghost `dated` remembers the time that counted for the password the database came
  with. (The history rows that such a password may have are left out: they only
  refuse more.)
* `TotpEnrollment` is one account's `setup_totp`, `cancel_totp_setup`,
  `confirm_totp`, `reset_totp`; the first and third read before they write. The
  ghosts `confirmed` and `released` remember for which secrets a code was shown.

The handlers of passwords and TOTP check first and write later without a
transaction around the two, and some of what they promise is lost when requests of
one account meet. The ghost `overlapped` records whether that happened, so that one
run says both what always holds and what holds for requests one after the other.

* `Sessions` is `login`, `verify_token`, `principal` and `roles` for session tokens,
  with a clock; `heldAt` remembers when the enabled account last had a role.
* `ApiKeys` extends it with `create_api_key`, `revoke_api_key` and the other branch
  of `principal`: `LookupKey` is its SELECT, `KeyRequest` and `RevokeByKey` what the
  handler does with the result, up to `RequestTime` later. `keyUse` shows the use
  to the property.

### Orders: `CertificateOrders`

`create_certificate` (`SelectAccount`, `InsertOrder`), `upload_csr` (`AdmitUpload`,
`StoreCsr`), `generate_key` (`GenerateKey`, `StoreKey`, `AnswerCsr`), the assignments
and the CA accounts. `Access` is `require_certificate_access`, by which administrators
(`Admins`) reach every order. The ghost `raced` records that an account was changed
between the check and the insert of an order.

### Backups: `BackupRestore`, `AutomaticBackup`

* `BackupRestore` keeps every file that ever was `certify.db` (`disk`), the one that
  has the name (`current`), whose log lies beside it (`wal`) and what each handler
  has open (`conn`). `Opened` is what SQLite finds when it opens a file next to a log
  that belongs to another one: any mixture, the worst the file format allows;
  `exposed` tells that the current file has been opened that way, or opened with a
  log that is then unlinked under it. Whoever only reads (`DownloadBackup`,
  `SafetySnapshot`, `Initialize`) opens and closes a connection too, and may apply
  and remove a log (`Visit`). `Validate`, `SafetySnapshot`, `Replace`, `UnlinkLog`,
  `Initialize` are `restore_backup` and the end of `upload_backup`. Ghosts:
  `overlapped` (what has been at work during a restoration: a handler, another
  restoration), `since` (what has been committed to the new file before its
  restoration ended), `told` (what had been answered, and was certain to be found,
  when the upload came in) and `overwritten` (what was in a safety snapshot whose
  name was used again).
* `AutomaticBackup` is the worker, `run_automatic_backup_if_due`,
  `create_automatic_backup` and `configure_automatic_backup` in threads without a
  lock. A file that one thread writes while another renames it keeps its identity
  (`setTmp`, `fd`, `content`), as it does on disk; `filled` tells in which files a
  shorter text can leave the tail of a longer one, which makes the file no JSON.
  The ghost `clashed` records that two requests saved settings at once.

### Updates and TLS: `UpdateRequests`, `ServiceUpdate`, `TlsActivation`

* `UpdateRequests` is the protocol by files: handlers write `<kind>.tmp` and rename
  it, path units start the scripts, which remove the request first, work, and
  report by a status file. `check-update.sh` exists twice (`Runs`), because
  `web-update.sh` calls it outside its unit. What it installs is one step here; an
  installation that ends early may leave the candidate in place and still be reported
  as failed (`LeftInstalled`).
  `web-update.sh` without a readable configuration, which ends before it removes the
  request and is started again up to systemd's limit (`web-update.sh:6`), is left out.
  `KillCheck` and `KillUpdate` end a unit at any point; the ghost `cut` holds the
  kinds whose run was killed and that nobody has asked for since.
* `ServiceUpdate` is `certify_update`, one action per command that changes something.
  An online update merges the one checkout (`MergeSources`, `sharedTree`) before it
  takes the lock, an offline update verifies a package of its own; both `pip install`
  (`Prepare`) and the copy of the units (`InstallFiles`) read that source when they
  run (`Source`), so it may have moved between them (ghost `moved`). `Preflight` is
  before the lock too. `StopService` and `StartService` may fail, which the code
  tests or ignores (`StopIgnored`, `StartFails`, and the same in the rollback); a
  stop that is ignored leaves the process running (ghost `disturbed`).
  `certify.service` and `configure-tls` are one release (`files`); the other units
  and scripts, which the rollback leaves as they are, have no variable. `AbortRun` is
  a failing command that the script does not test (`set -e`), `Kill` a kill or power
  failure. `CandidateHomes` leaves open whether the console script pip has installed
  survives the renaming of its directory: `certify.service` executes that script, and
  this depends on what pip writes into it, which is not in the repository. With
  `"tls"` in `Faults` a start may end at once.
* `TlsActivation` extends it with runs of `configure-tls.sh`: `MoveCert` and
  `MoveKey` are the two renames of `activate_pair`, `CheckActive` and
  `RestartActive` the two commands of `reload_if_running`, `Cut` a kill or failing
  command in between. A start of the service, by an updater, an activation or
  systemd's `Restart=on-failure` (`AutoRestart`), reads both files and fails if
  they do not belong together. Ghosts: `spoiled` (the last activation was cut or
  overlapped another) and again `disturbed` (also when an activation restarted the
  service while an update exchanged environments).

`MCSchemaMigration`, `MCTlsActivation`, `MCBackupRestore` and `MCCertificateOrders` only
add symmetry for TLC: over passwords, requests and migrators; updaters and
activations; writers, changes and restorers; threads, directories and generated
keys. No definition names or orders an element of these sets, and none of these
runs checks liveness, so the reduction is sound.

The operators introduced by a comment "Mutant:" are faulty variants of the
definition that follows them. No specification uses them; each shows that some
property fails if the code has that fault.

## 3. Runs

Every constant is a small set of model values; counters are bounded by constants
named `Max...`. A run marked ✗ shows a disagreement between the code and a
statement of the repository, which `findings` quotes.

| Run | What it shows | Bounds, and why they are enough |
|---|---|---|
| `audit_log` (`Notifications`) | chain, refinement of the trail, answered means audited; audited means happened, and once, or, for a request queued for systemd, announced; an audited mailing reached every subscriber and nobody else; the lock is given back | 2 threads, a request, a mailing and a request audited first, 3 rows, 2 users: two appends race, accounts change between two mails, one of two mails fails, a request fails behind its entry |
| `audit_verification` | `verify` is right next to appends and tampering | 3 rows, 2 outside changes: enough to drop or swap, and to repair a link |
| `password_history` (`MCSchemaMigration`) | the last passwords are not reused, the history stays genuine, the age is that of the password or the one the database came with, a migration that returned is complete | 2 requests, limit 2, 4 changes, 4 passwords: the pruning takes effect twice; 2 migrators from every older schema, the first password with its own time or without |
| `totp` | confirmed, protected by codes and resets; discarded secrets stay discarded | 2 requests, 4 secrets: two complete enrolments and one more |
| ✗ `totp_unconfirmed` | an unconfirmed secret comes into force | as above |
| `sessions` (`ApiKeys`) | staleness of role, password and key | session 2 ticks, age limit 3, login up to 1, key request up to 1, clock to 5: each limit is passed; one login, token, key and key request at a time, which meet nobody but the account |
| `service_update` (`MCTlsActivation`) | lock, what runs, success and rollback under any failure; the pair is served | 2 updaters, 2 updates, 3 releases of which the middle one is broken: an update meets another at every step, or follows one that was cut short; slow starts, failing commands and kills at every step; 2 activations, overlapping or one after the other |
| ✗ `service_update_abort` | a failing command leaves the service down | failing commands only |
| `update_requests` | no request forgotten, reports true | 2 threads, both kinds, 2 requests, 1 timer, 1 kill, 2 releases: a request during a run, two checks at once, a kill in either |
| `backup_restore` (`MCBackupRestore`) | restoration keeps and restores what it should, with handlers at work on either file | 2 handlers with 2 changes, 3 files (two restorations one after the other, tried again after failures), 2 archives, 2 seconds, crashes anywhere; restorations that overlap are left to the proof |
| `automatic_backup` | settings survive, retention, due backups | worker and 2 savers: three overlapping runs; 3 ticks for a retention of 2, two saves, one failing backup |
| `certificate_orders` | key and CSR belong together, orders use their account | 2 threads, an administrator and another user, one order, an account that moves between 2 directories, 2 generated keys and one own: two generations and an upload overlap on it |

`CHECK_DEADLOCK FALSE` stands where a bound (of changes, runs, files, time) lets a
model stop that the program would continue.

### Where the code does less than one would expect

The two ✗ runs are findings. The following behaviours are in the models too: they
are what the conditions `overlapped`, `exposed`, `raced`, `clashed`, `spoiled`, `disturbed`,
`moved` and
`cut` exclude, or what a property was left out for. Each shows when the condition
is dropped from its property.

* `RecentNotReused`: two overlapping changes to the same new password both pass
  (`api.py:555-577`), and the second sets the password the account has by then.
* `ActiveIsProtected`: a setup that began before the first activation replaces the
  active secret without a code of it (`api.py:494-508`); of two confirmations, or a
  confirmation and a cancellation, the later UPDATE writes NULL into `totp_secret`
  (`api.py:531`), both answered 204.
* `AnsweredSurvives`: a handler that commits to the exchanged file after the safety
  snapshot is answered with success, and the change is lost
  (`maintenance.py:121-130`); of two restorations within one second the second
  safety snapshot overwrites the first (`overwritten`, `maintenance.py:122`). Of two
  restorations at once, the one that made its snapshot first exchanges the file
  without what was answered since, also before the other's upload came in.
  `RestoredExactly`: a connection opened between the exchange and the removal of
  `-wal` finds the old log beside the new file (`exposed`).
* `NewOrdersUseAccount`: an account disabled after the check still gets the order
  (`api.py:652-672`). Of two overlapping key generations the first is answered with
  a CSR whose key is overwritten (`api.py:885-892`).
* `SettingsSurvive`: of two overlapping saves one can be lost, put back an old
  password, or leave a file that is no JSON and counts as no settings
  (`api.py:975-989`).
* `RequestServed`: a killed `web-update.sh` has already removed its request and can
  leave "running" behind, until the next request (`web-update.sh:30`).
* `RunsActive`: `configure-tls.sh` takes no lock; restarting the service between the
  two renames of an update, or after a check that is outdated by then, starts what
  is there at that moment (`configure-tls.sh:62-64`). `PairIsServed`: two
  overlapping activations, or a cut one, can leave the certificate of one beside
  the key of the other.
* `KeyUseIsFresh`: a request whose key was revoked after its lookup is carried out.
  A session outlives the deactivation of its account, an API key does not.
* `AuditedIsDelivered` speaks of whom a mailing reached, not how often: a failed
  mailing that is sent again reaches its first recipients twice. `update_user` can
  remove the address of a user who has subscribed; such a user gets no mail.
* An operation can take effect without an audit entry, because its transaction
  commits before that of `append` (`AnsweredIsAudited` has no converse). The other way
  round, the entry of a request for an update or a check says that it was asked for:
  filing it comes later and may fail (`api.py:1009-1013`, `1045-1049`), so
  `AuditedHappenedOnce` does not claim that it happened.
* `AgeIsOfPassword` is about the age the API computes: a migration that ends between
  `ALTER TABLE` and `UPDATE` leaves `password_changed_at` empty for good, and it is
  right only because login and `principal` fall back to `created_at`. A password that
  an earlier release has changed without noting when is taken for as old as its
  account (`database.py:100-104`), until the next change: the property only says that
  this age does not move and is never too small.
* `web-update.sh` may end with "installed version is current" although its own check
  found a newer one: two runs of `check-update.sh` share a temporary file
  (`check-update.sh:18`), and an unreadable result counts as "no update".
* `systemctl stop certify || true` (`update-common.sh:80`, `108`): when the stop fails,
  the environments are exchanged under the running process, and `RunsActive` is
  suspended until the next stop or start (`disturbed`). A rollback that ends so may
  leave the new release running on the old environment.
* Online updates share one checkout and merge it without the lock
  (`update-online.sh:33-50`): one that is then refused can move it between another's
  `pip install` and its copy of the units (`update-common.sh:51`, `63-79`), which then
  ends with success and with units of the newer release (`moved` in
  `SuccessIsReal`). A merge during `pip install` itself, which could mix two releases
  in one environment, is not modelled.
* A rollback restores `certify.service` and `configure-tls`
  (`update-common.sh:112-113`); the other units and scripts stay those of the new
  release. What it restores is what was there when it took the lock, half-installed
  by a killed update or not.
* Where pip writes the path of the interpreter into the console script, the renamed
  environment does not start and a sound release is rolled back
  (`update-common.sh:83`).

### Fairness

* `AuditLog`, and with it `Notifications`: weak fairness for each writer's next step
  (its `BEGIN IMMEDIATE` either gets the lock or times out,
  `sqlite3.connect(timeout=10)`) and for the end of a handler's transaction
  (`connect` commits or rolls back on every path). No call, no mail and no abort is
  forced.
* `UpdateRequests`: systemd starts a path unit while its path exists and the unit
  is inactive, and the scripts run on. Requests, the timer and kills are not fair.
* `AutomaticBackup`: the worker wakes up after every run, also a failed one
  (`api.py:275-282` catches every exception), and threads run on. The clock is not
  fair; failures are bounded by `MaxFailures`, since a backup that always fails is
  never made.

## 4. Proofs

Each theorem holds for every value of the constants that satisfies the named
assumptions of its module: finite or infinite sets of users, secrets, keys,
changes, threads (finitely many writers of the log and savers of settings); any
bound. The assumptions only say that bounds and times are numbers
(limits positive) and that marker values (`None`, `NoSecret`, `Free`, ...) are none
of the values they stand beside. `TlsActivation` further assumes `"tls" \in Faults`
(a start may fail) and that the first release is sound.

An invariant is seldom inductive as it stands. For each module there is one that
is; its parts, and why they are needed:

* **`AuditProofs`**, the log: `TypeCorrect`, `ChainCorrect`, `TipCorrect`,
  `ReturnedCorrect`, `AppendOnlyCorrect`, `RefinesTrail`, `AppendIsAtomic`. `IInv`
  adds `LockInv` (a writer holds the lock exactly between `BEGIN IMMEDIATE` and
  commit), `TipInv` (hence the tip it selected is current), `DigestInv` (a digest
  commits to the events up to its row, so the refinement maps it to a prefix),
  `CommittedInv` (a writer about to return has its row in the table) and
  `ReturnedIsDurable`. `InsertKeepsChain` is the one case with content.
  `RefinesTrail` maps `InsertAndCommit` to `Record`, `Return` to `Acknowledge`, every
  other step to a stutter. `AppendIsAtomic` maps the same transaction to
  `AppendRow` of `AuditVerification`, with no tampering and nobody verifying; it
  needs `CapacityInv` (writers in a transaction and rows stay within the bound) and
  a finite set of writers.
* **`AuditProofs`**, the handlers: `OperationsUseLog`, `AnsweredCorrect`,
  `AuditedOnceCorrect`. `OpInv` adds who holds a request: a thread in `append` has
  one that took effect, unless it is of the kind audited first, and that is not
  audited yet (`HeldInv`), and no two threads have the same one (`ApartInv`).
* **`AuditProofs`**, mailings: `MailingsAreOperations`, `DeliveredCorrect`,
  `NotifyTypeCorrect`. The first is an implementation theorem,
  `NotifySpec => OpSpec`, through which all theorems above hold for mailings. For
  the second, `MailInv` says that what is delivered and what is left make up the
  subscribers, and that no two threads have the same mailing; `RecipientsSubscribe`
  shows that the handler's list of levels is what the levels mean.
* **`AuditVerificationProofs`** (`TypeCorrect`, `ValidCorrect`, `UntouchedCorrect`,
  `BrokenRowCorrect`). `PassedInv` says that each row the loop has passed carries
  the digest of the history up to it, and `expected` the last of them.
  `VerdictInv` carries that to the answer, `UntouchedInv` keeps an untouched table
  and its snapshot genuine while the table grows, and `RowsInv` says which digests
  can be in a row at all.
* **`ApiKeysProofs`** (`KeyTypeCorrect`, `StaleRoleCorrect`, `PasswordAgeCorrect`,
  `KeyUseCorrect`). `KeyInv` dates what is held: a login under way knows a role that
  was held after its SELECT, a token expires no later than its role and password
  allow (`TokenInv`), and what a request with a key knows is at most `RequestTime`
  old (`UseInv`). The one fact it rests on is that an enabled account holds its
  role now.
* **`SchemaMigrationProofs`** (`MigrationTypeCorrect`, `HistoryCorrect`,
  `AgeCorrect`, `CompleteCorrect`, `RecentCorrect`). `Aligned` says that the j-th row
  from the end of the history is the password j before the present one, as long as
  no changes overlapped, whether or not the first password is in the history;
  `WriteAligned` and `RecentIsBlocked` carry it through the append and the pruning
  to the last `HistoryLimit` passwords, by lemmas about `LastOf`. `Progress` says
  which columns a migrator may rely on at each of its steps, `ChangedInv` that an
  empty `password_changed_at` means that the password the database came with is
  still in use, and that it counts from `dated`.
* **`TotpEnrollmentProofs`** (`TotpTypeCorrect`, `ConfirmedCorrect`,
  `ProtectedCorrect`, `DiscardedCorrect`). `CheckedInv` keeps what a request read
  true until it writes, while the account's own requests come one after the other,
  and across resets.
* **`CertificateOrdersProofs`** (`OrdersTypeCorrect`, `KeyCorrect`,
  `NewOrdersCorrect`). `OrdersInv` says of each thread what is still true of what it
  read (`ThreadInv`), unless `raced`; `AppendRow` and `ReplaceRow` are the lemmas
  about rows of the table.
* **`UpdatesProofs`**, updates and TLS: `TlsTypeCorrect`, `OneUpdaterCorrect`,
  `RunsActiveCorrect`, `PairCorrect`, `SuccessCorrect`, `RollbackCorrect`. `Stage`
  says for each phase of an update which environment and unit lie where; since only
  the holder of the lock is past `lock`, it stays true for the others
  (`OutsideStages`). A merge by another updater is the exception: it moves the source
  of an online update, and `Stage` keeps track of it by `moved`. `ServiceInv` says
  that between stop and start nothing runs and systemd starts nothing (unless
  `disturbed`), `PairInv` that an unspoiled activation is alone. `ServiceUpdate`'s
  own properties are proved here, of the composition.
* **`UpdatesProofs`**, requests: `RequestTypeCorrect`, `RequestSuccessCorrect`.
  `SuccessIsCurrent` is about the last step of a run, so what its check announced is
  carried to it: `AnnouncedInv` says that an announced release is still to come, and
  in the checkout from the merge on, `ReleaseInv` that releases are merged before
  they are installed, `NestedInv` that nothing else runs the check of an update,
  `OpenInv` who has a status file open.
* **`BackupsProofs`**, restorations: `RestoreTypeCorrect`, `AnsweredCorrect`,
  `ExactCorrect`. `HandlersApart` and `RestorersApart` say what holds as long as
  nobody was met: every connection has the current file open with its own log, the
  log is gone when nobody is connected, and between two steps of a restoration
  nothing changes. `ExchangeInv` asks for no such peace: while one restoration is at
  work, handlers or not, its file holds the upload and `since`, whatever log lies
  beside it until it is unlinked, and from then on only its own. `ToldInv` needs
  less: what was answered before an upload is certain to be found by whoever opens
  the database next (`Certain`, computed in `CertainIs`), and in a snapshot by the
  time the file is exchanged.
* **`BackupsProofs`**, automatic backups: `AutoTypeCorrect`, `RetentionCorrect`,
  `OutdatedCorrect`, `SettingsCorrect`. `ExpiredInv` says that what a run has listed
  stays outdated whatever the others unlink, and that the list reaches down to the
  oldest backup. A run that finds a backup gone gives up with the rest of its list
  undone, and still the retention is kept: `HandedOver` says that whoever unlinked
  it goes on with the next older one, `AtWorkInv` that the newest outdated backup
  is always at the top of somebody's list. `Own` gives each saver the temporary
  file, `FileFree` (there are more files than savers, by counting) the type of a
  new one. `LeastExists` and `MaxIsTop` are the facts about finite sets of times
  that `Max` rests on.

`KeyTypeOK`, `NotifyTypeOK`, `TlsTypeOK`, `MigrationTypeOK` and `AuditLog`'s `TypeOK`
are proved and have no run; nor have `SelectedTipIsCurrent`, `ReturnedIsDurable` and
`AppendOnly`, the first a part of `IInv`, the others the two sides of what
`ImplementsTrail` says of rows and digests.

Every safety property of a passing run is proved. Only model-checked: the liveness
properties (`LockReleased`, `RequestServed`, `DueIsMade`), since fairness and
ENABLED are outside what the prover handles; and the two ✗ runs, whose properties
are false. A proof says no more than its model: SQLite's rules for a stale log,
systemd's for path units and POSIX's for `rename` are modelled, not derived.

## 5. Not modelled, and why

* Adapters, providers, secret box, configuration: no state, or pure functions of a
  library. The ACME protocol is not in the code.
* Installers, the command line and the web interface: dialogues, rendering and calls
  of what is modelled. What the installer leaves is the initial state of
  `ServiceUpdate` and `TlsActivation`.
* Handlers that only list or download.
* Data: password policy, canonical JSON, HMAC, AES, archive format, TOTP arithmetic,
  X.509 and the wording of mails are abstracted to what the properties tell apart.
* A restoration takes the audit log back with the rest of the database, so the log
  is append-only between two restorations only (the two are separate models); the
  chain that a restored file holds is one the program wrote.
* Several accounts at once: passwords, second factors, sessions and keys of one
  account do not touch those of another.

## 6. Order of the work

The modules were written from the inside out, and each later one extends or
composes earlier ones: the audit log with its abstract trail, then the handlers on
top of it (`AuditedOperations`, `Notifications`); the account modules one by one,
then with the migration of their table (`SchemaMigration`) and with API keys
(`ApiKeys`); orders; backups; update requests; the update itself, then with the
activation of certificates (`TlsActivation`). Names of `UpdateRequests` and
`AutomaticBackup` carry a prefix where a proof module extends them beside another
module. What would come next: a composition of restorations with the audit chain,
and a limit on what is lost when handlers and restorations meet.
