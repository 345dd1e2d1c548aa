# YouthChain: specifications, model checking and proofs

TLA+ models of YouthChain (a job platform for young people in Sierra Leone with
credentials recorded on an Ethereum contract), the TLC configurations that check
them and the proofs TLAPS checks. Every definition is translated from the code;
`PROJECT.json` ("map") names the lines each one stands for.

## The system

| Part | Where | State it keeps | Operations |
|---|---|---|---|
| Registry contract | `blockchain/contracts` | owner and nominee, accredited issuers, credential slots, revocations, the event log | transfer and accept ownership, accredit / revoke issuers, register / revoke credentials |
| Chain scripts | `blockchain/scripts` | none: each run signs one transaction and waits for it, or queries the log | register, revoke, accredit, check, list, hand over to a Safe |
| Credential backend | `backend/app.py` 2100-2560, 3660-3750, 7850-8050 | `Credential` rows, one write lock per worker process, daemon threads in memory | upload, re-upload, revoke, erase, verify, background writes |
| Job scanner | `backend/scanner`, pg_cron migration | `JobSource`, `ScanRun`, scraped `Job` rows, pollers in every worker | queue, trigger, claim, scan, backfill, reap stale runs, reap expired jobs, alerts |
| Applications | `app.py` 4977-5118, 6023-6104, 7203-7295 | `Application` rows, uploaded files | apply (app, portal), erase |
| Gigs | `app.py` 5164-5305, 9250-9530 | status, `Rating`, `RatingFlag` | decide, complete, rate, flag |
| Accounts | `app.py` 5840-7360, 7460-7830 | `User`, `Employer`, `Report`, appeals, flags | suspend, reinstate, report, appeal, resolve, erase |
| Login | `app.py` 640-740, 3340-3660, 4050-4510 | phone codes, sessions, token blocklist, attempt counters | request / verify code, register, log in, reset, log out, revoke devices |
| Messaging | `app.py` 8050-8430 | conversations, messages, notifications, socket rooms | send, read, notify |
| Employer verification | `app.py` 6587-6690 | document and status on `Employer` | submit, decide |
| Backup | `backend/scripts` | archives, local and remote, a status file | create, encrypt, upload, prune, restore |
| Mobile app | `youthchain_app/lib` | session, a queue of applications made offline, cached API answers | submit, queue, synchronise, retry, discard, log in and out |

How they interact: requests of several gunicorn workers share one database and
call each other's work through rows; background threads and pollers live in a
worker's memory and die with it; scripts are child processes that talk to the
chain; the chain knows the backend only by the signing key. `log_event` and
`notify_user` commit the session they are called in, so a handler that calls
them in the middle has more than one commit.

What is hard here: a row read before a wait of seconds or minutes (a script, a
scrape, a detail page) and used after it; checks and inserts in two steps
without a lock or a constraint; threads whose result nothing retries; a lock and
nonces that are per process while the chain account is not; a timeout that takes
a slow worker for a dead one; several commits in one handler.

### What makes each part correct

- **Registry**: the log is a complete history; only accredited issuers register;
  a slot is registered once, revoked at most once, never comes back; ownership
  only passes to an account that claims it.
- **Listing of issuers**: two queries at different blocks still give a right list.
- **Credentials**: what the table says of the chain is true; a document is
  confirmed once; the chain forgets a document only because an administrator
  revoked it; a page never shows a revoked credential as valid; threads end and
  the lock is released; without faults every upload and revocation arrives.
- **Scanner**: a run has one worker; redundant runs do not pile up and a source is
  never blocked for good; no duplicate rows and no lost descriptions while scans
  do not overlap; alerts follow what a scan created.
- **Applications**: what a row names is on disk and is what was uploaded, but for an
  erasure that has not committed; no file is left that nothing names, but for a
  removal or a process that failed.
- **Offline queue**: an entry is not dropped before the server has it or refused it;
  on a shared phone a worker's documents are sent under his own name.
- **Gigs**: whoever is rated was hired; a rating stays; the worker's last notice
  tells the status; answering an applicant never lowers the trust score.
- **Accounts**: an erasure waits for open disputes; a granted case has taken
  effect; rows and files of an account go together; a badge is for a document
  that somebody looked at.
- **Login**: a code is good once; a reset, a suspension or an erasure ends every
  session; a revoked session is refused everywhere; limits hold.
- **Messaging**: a message marked read was sent; attachments and rows agree; each
  message is told of once; after an erasure the text is gone.
- **Backup**: a reported success can be restored; plaintext neither leaves the
  host nor stays; an archive's rows name files it holds; a restore loses nothing.

Each of these holds with exceptions that come from the code's own races and
commits in two steps. They are named: a history variable of the module records
when the exception happens (an account whose erasure died is `halted`, a code that
two requests had read is `raced`), and the property is about everything else. The
exception is then as narrow as the interleaving that causes it, and a reader sees
in the property what the code does not promise.

## Modules

| Module | Role |
|---|---|
| `CredentialLedger` | abstract: slots go absent, valid, revoked; what a verifier relies on |
| `Registry` | the contract; one action per external function, `msg.sender` first; a revert is a disabled action |
| `RegistryLog` | `Registry` with its events, blocks and `listIssuers.js`; `LedgerSpec` is the refinement of `CredentialLedger` |
| `Credentials` | `Registry` (by INSTANCE) composed with the credential table, threads, locks, scripts, transactions, web requests and faults |
| `ScanQueue` | the scanner: tables, pg_cron, pollers, command-line scans |
| `Applications` | the server's side of applying: two routes, files, the unique constraint, erasure in its two parts; `ServerSpec` lets clients do anything |
| `PendingApplications` | the mobile app's queue and session, composed with `Applications` |
| `Accounts` | suspension, cases, uploads and their review, erasure, for both kinds of account |
| `Sessions` | codes, logins, sessions, block list and limiters of one account over several processes |
| `Gigs` | deciding, completing, rating, flagging; the worker's notices; the trust score |
| `Messages` | messages, attachments, read marks, notices, and their erasure |
| `Hiring` | `Gigs` composed with `Messages` (by INSTANCE): one set of request threads, one inbox |
| `Backup` | `backup.py` and `restore.py` beside a backend that goes on writing |
| `RegistryProofs`, `CredentialsProofs`, `ScanQueueProofs`, `ApplicationsProofs`, `AccountsProofs`, `SessionsProofs`, `HiringProofs`, `BackupProofs` | theorems about `RegistryLog`, `Credentials`, `ScanQueue`, `PendingApplications` (with `Applications`), `Accounts`, `Sessions`, `Hiring`, `Backup` |
| `MCRegistryLog`, `MCCredentials`, `MCScanQueue`, `MCPendingApplications`, `MCAccounts`, `MCSessions`, `MCHiring`, `MCBackup` | instances for TLC |

A definition whose comment begins with "Mutant:" is a variant with a plausible
mistake. No specification uses it: it exists to show that a property fails when
the code is wrong.

### RegistryLog

Addresses and hashes are members of small sets; `credentialKey` is the pair
(issuer, hash), taken as injective. `timestamp` is the block's time and stands
for its number: both grow with every block. The log is a set of events ordered by
(block, log index). A query of `listIssuers.js` sees sealed blocks only.
`renounceOwnership` always reverts and is no action. Ownership events are never
queried and left out.

### Credentials

| Code | Model |
|---|---|
| `_issue_credential_internal` | `Issue`, `Reissue` (commit and thread start: one step, nothing can see between them) |
| `admin_revoke_credential` | `OpenRevoke` (read, check), `CommitRevoke` |
| `_erase_user_data` | `Erase`; the rest of erasure belongs to the Accounts module |
| `_write_onchain_tx_for_credential_async`, `_revoke_credential_onchain_async` | `Load`, `Check`, `Acquire`, `Send`, `ScriptEnds`, `Record`, `Notify` |
| `_run_hardhat_script` timing out or dying | `ScriptFails`, which may leave a transaction sent |
| the chain | `Mine`, `Drop`: a transaction is executed some time after it is sent, reverts when it no longer can, or is lost |
| worker restart | `Crash`: threads, requests and the lock go; a script may still send |
| `verify`, `verify_by_id`, `verify.html` | `OpenPage`, `CheckValid`, `RenderPage` |
| issuer console, hand-over to the Safe | `AccreditIssuer`, `RevokeIssuer`, `TransferToSafe`, `SafeAccepts` |

An upload is checked, scanned and inserted long after its login was, so `Issue` does
not ask whether the account was erased meanwhile. A transaction is named by the
thread that sent it. `Registry` is instantiated
with a constant block time. The administrator's issuer scripts are one step: they
take the lock, and their own timeouts are not modelled.

### ScanQueue

| Code | Model |
|---|---|
| pg_cron jobs | `QueueDue` (one row of the INSERT ... SELECT), `ReapStale` |
| `admin_scanner_trigger_source` | `OpenTrigger`, `CommitTrigger` |
| `claim_next_due_scan_run` | `Claim`; the statement is atomic (SKIP LOCKED) |
| `run_scan_for_source` | `Start`, `Read`, `Upsert`, `Backfill`, `Finish`, and `ScrapeFails` |
| `run_forever` around it | `Abort` (its exception handler), `CallbackRaises`, `ReapExpired` |
| `run_scan.py` | `StartDirect`, `Dispatch` |
| `admin_resolve_listing_report` | `RemoveListing` |
| death of a worker | `Crash` |

The listing pass is one transaction: it reads (`Read`) and commits (`Upsert`);
every detail page is a commit of its own. A description is 0 (nothing), 1 (the
listing page's stub) or 2 (a full text). A detail page may say either: its text is
stored whatever it is, unless it is empty. Time is three facts: `due`,
`run[r].old` (over 30 minutes) and `longPast`. A source becomes due again no
earlier than its running runs are old, since the frequency is at least 30 minutes.
Ids of closed runs and deleted rows are used again once nothing holds them;
`queue` keeps the order of ids. No route deletes a source, so the "job_source not
found" branches cannot be reached.

### Applications

| Code | Model |
|---|---|
| `apply`, `portal_apply` up to the check for an existing row | `Open`, `PortalApply`, `TurnAway`, `Unauthorized` |
| validation and malware scan (seconds) | `Refuse`, or nothing |
| naming and writing the files | `SaveFiles` |
| insert, commit, `IntegrityError` | `Commit` with `Cleanup` (the mobile route only) |
| `os.remove` and `_delete_upload_file`, which swallow an `OSError` | `Remove` |
| `_erase_user_data`, rows and files of applications | `EraseFiles` (every file the rows name), then `EraseRows` (the columns are nulled, one commit) |
| death of a worker process | `Crash`, `EraserDies` |

A request reads, writes its files and commits in three steps; the name of both
files is computed once, so they are written in one. A file is (second, user,
name): two jobs' uploads may have the same name. Documents are known by worker,
job and kind, and `by` says whose they are. `saved` and `shared` are history: the
last second in which each worker had files written, and the workers who had one
name written twice within a second, for whom the code itself overwrites or removes
a file that a row names. `found` is what an erasure has gone through: rows whose
files may be gone before the columns are nulled, which a death in between leaves
so until the account is erased again. `leftover` is history: files of portal
requests that lost the race, of workers that died, and files that `Remove` could
not remove, whose column is nulled all the same. `second` is a clock for names
only. Reinstating an erased account is in `Accounts` and `Messages` and left out
here. Who may be erased at all, and once more after an erasure that committed, are
the bounds `ErasableUser` and `AgainErasable`.

### PendingApplications

| Code | Model |
|---|---|
| `submit`, `queueOffline` (job_screen.dart) | `Submit`, `SubmitAnswered`, `SubmitLost` |
| `enqueue` | `CopyFiles`, then `AppendEntry`, or `ReadQueue` and `WriteQueue` with nobody logged in |
| `trySyncAll` (`_syncing`) | `StartSync`, `Proceed` |
| `_trySyncOne` | `DropMissing`, or `SendEntry` and `Answered` or `Unanswered` |
| `retry`, `discard` (my_applications_screen.dart) | `Retry`, `Discard` |
| `saveSession`, `_logout`, `_handleAuthResponse` | `Login`, `Logout`, the 401 case of `Answered` |
| the app is closed | `CloseApp` |

Dart has one thread: an action is what runs between two awaits that wait for the
network, files or secure storage. `SharedPreferences` answers from memory after
its first use, so a read-modify-write of the queue is one action, except where
`enqueue` asks secure storage for the user in the middle. A client (the
synchronisation, or a screen) has one request under way; a client that stops
waiting (`GiveUp`) does not stop the server. A submission from a screen does not
end the session on a 401, one from the queue does, as in the code. `MaxEntry`
bounds the entries ever queued, `ScreenUser` says who applies on a screen, and a
new login counts as one of `MaxFaults`. `overlapped` is history: the workers for
whom a screen or the synchronisation was at work when another one logged in. An
entry keeps who attached its files (`by`) beside whom it belongs to.

### Accounts

| Code | Model |
|---|---|
| `admin_suspend_*`, `admin_reinstate_*` | `SetUserActive`, `SetEmployerActive` |
| reports, flags, duplicate signals and appeals being filed | `StartFiling` (who may, checked), `FileCase` (the insert) |
| decisions of admins | `Refuse`, `ResolveDuplicate`; granting is `LoadLever` (the account is loaded), `PullLever` (the assignment, committed by `log_event`) and `Settle` (the status, committed by the handler); `LoseLever` is `log_event` failing and rolling back |
| `employer_verification`, other uploads | `StartUpload`, `RefuseUpload`, `SaveFile`, `NameFile` |
| `admin_employer_verifications`, the decision | `ShowDocument`, `DecideBadge` |
| `_open_erasure_holds`, `_erase_user_data`, `_erase_employer_data` | `EraseOwnAccount`, `EraseOwnEmployer`, `AdminErase` (the holds are looked at and the files go, but for removals that fail), `EraseRows` (the one commit) |
| death of a worker process | `Crash` |

SQLAlchemy writes a column only when the value assigned differs from the value
loaded: a submission that loaded "pending" writes no status (`NewBadge`), even if
an admin has verified the earlier document in between. In the same way a decision
that loaded an account already as it wants it writes nothing, and a reinstatement
that comes between its load and its commit survives it (`PullLever`); an erasure
writes `active` only if it loaded it set (`EraseRows`). `unremoved` is history:
files that an erasure failed to remove and whose column it nulled. Files are
numbered by their account's uploads; a number stands for the name's time stamp. An
employer has one document column, a worker as many rows as files. The contents of
profiles and the rows erasure deletes in its one commit are not in the model.

### Sessions

| Code | Model |
|---|---|
| `otp_request`, `otp_request_for_reset`, `otp_request_for_registration` | `OtpRequest`, `OtpRequestForReset`, `OtpRequestForRegistration`: `AskForCode` (the limiter is asked), `RequestCode` (it is told; earlier codes marked used), `InsertCode` |
| `_rate_limited` and `_record_attempt` | `Begin` and `AskForCode` ask, and the step that checks the password or the code, or sends one, tells |
| `login`, `portal_login`, `otp_verify` | `Login`, `PortalLogin`; `ReadCode`, `LoginByCode` |
| `otp_verify_for_registration`, `otp_verify_for_reset` | `PeekCode` |
| `register`, `portal_register` | `Register`, `PortalRegister`, `CreateAccount` |
| `_create_user_session` | `CreateSession` |
| `api_revoke_device`, `logout` and the portal's | `RevokeDevice`, `PortalRevokeDevice`, `Logout`, `PortalLogout` |
| `otp_confirm_reset`, `portal_forgot_password` | `OtpConfirmReset`, `PortalForgotPassword`, then `RevokeAll` in a second commit |
| suspension, reinstatement, erasure | `Suspend` and `RevokeAll`, `Reinstate`, `Erase` |
| `jwt_required`, `_current_user_id`, `_current_portal_user_id` | `Accepted` |
| the block list and counters, in Redis or in memory | `StoreOf`; `Restart` clears what is in the memory of a process |
| the limiter's window ends | `WindowPasses` |

An epoch counts the events that are meant to end every session, and a session
carries the epoch in which its password or code was checked: "it was there before
the reset" is then `epoch < signedOut`. The app's tokens are refused by the block
list, the portal's cookies by their row, as in the code. Whether there is a Redis
is chosen in `Init`. Expiry of a code is a choice in `ReadCode`; expiry of a token
only refuses more and is left out.

### Gigs, Messages and Hiring

| Code | Model |
|---|---|
| `employer_applications` (deciding) | `StartDecision`, `CommitDecision`, `ComposeNotice`, `Deliver` |
| `employer_complete_application` | `StartCompletion`, `CommitCompletion`, `Deliver` |
| `rate_employer`, `portal_rate_employer`, `employer_rate_worker` | `StartRating`, `CommitRating`, or `LoseRating` (the unique constraint) |
| `flag_rating` and the two other routes | `FileFlag` |
| `admin_resolve_rating_flag` | `HideRating` (committed by `log_event`) and `MarkFlag`, `LoseHiding`, `DismissFlag` |
| `_employer_trust_summary` | `TrustScore`, a function of the state, the ages of the ratings and a `Context` |
| `_create_message` and its two routes | `SendText`, `SendFile`, `SaveAttachment`, `RefuseAttachment`, `CommitMessage`, `Notify` |
| opening a thread | `OpenMessages` (`_mark_messages_read` commits), `ServeMessages` (the list is read) |
| suspension and reinstatement, of erased accounts too | `SetActive` |
| erasure of either side | `EraseAttachments` (removals may fail), `EraseMessages` |
| death of a worker process, a notice that cannot be committed | `Crash`, `CrashMessage` |

The application is the same one for both modules: one worker, one employer. A
notice is built from the row as it is after `log_event` has committed and expired
it, not from the decision made, which is why composing and delivering are steps of
their own. The score's weights are kept exact: every rating's weight is a power of
two, all sums are integers, and one division rounds half to even as Python does.
`Context` is what other parts determine: the badge, open reports, applications
from other workers and earlier ratings. `Hiring` adds nothing but that both write
to one inbox and share the threads, so a message's notice, a decision's and the
worker's erasure interleave.

### Backup

| Code | Model |
|---|---|
| the command line of `backup.py` | `StartRun` with every combination of options |
| `_dump_postgres`, `create_backup` | `Dump`, `AddDatabase`, `AddUploads`, `CloseArchive` |
| `resolve_backup_encryption`, `encrypt_backup` | `StayPlain`, `Encrypt`, `RemovePlaintext`, `Refuse` |
| `prune_old_backups`, `upload_to_s3`, `prune_remote_backups` | `PruneOne`, `PruneDone`, `Upload`, `PruneRemoteOne`, `PruneRemoteDone` |
| `_write_status_file`, `_backup_last_success_timestamp` (`app.py`) | `Report`, `LastSuccess` |
| a step that fails, a container that is killed | `Fail`, `Kill`, with what is `HalfWritten` |
| `restore_from`, Postgres | `StartRestore`, `SnapshotPostgres`, `ReplayDump`, `Extract` |
| `restore_from`, SQLite | `StartRestore`, `MoveDatabase`, `MoveUploads`, `Extract` |
| the restore is stopped | `AbortRestore` |
| uploads and erasures of the backend | `SaveUpload`, `CommitUpload`, `EraseFile`, `EraseRow` |

`ReplayDump` is one `COPY` per table: a table whose rows meet a duplicate key gets
none of the archive's, so any part of them may arrive, and all do when none is
there yet. A run that fails while it removes the plaintext leaves it (`Fail`). The
kind of an archive is the configuration's, since a behaviour has one database. A
file stands for an upload and the row that names it. The backend's steps are those
of `Applications`, `Accounts` and `Messages`, reduced to their order: file before
row, and in an erasure file before row again. A database copied from a SQLite file
while it is written is taken as consistent.

## Runs

| Run | Instance | Shows |
|---|---|---|
| `registry_contract` | 2 accounts and address(0), 1 document, every order of calls up to the bounds on blocks and events | the two-query listing, the refinement of the ledger |
| `credentials` | 2 users with the same document, 2 rows, 3 threads, 2 workers, 1 administrator, an issuer that loses and regains its accreditation, 1 fault | what the table says of the chain |
| `credentials_liveness` | 1 row, 2 threads, 1 worker, 1 viewer, hand-over to the Safe, 1 fault | threads end; uploads and revocations arrive; the page |
| `scan_queue` | 2 pollers and a command-line scan, 1 listing, 2 runs, 2 rows, no deaths | claims, duplicates and descriptions |
| `scan_liveness` | 1 poller, 1 administrator, 1 listing, 1 death | redundant runs do not pile up, sources are rescanned |
| `applications` | 2 workers who share a phone (one of them on the portal too and erasable), 1 job with two documents, 2 requests, 2 seconds, synchronisation and 1 screen, 1 entry, erasure (again only if it died), 1 fault (a new login, a death or removals that fail) | rows and files agree; the queue drops nothing without a reason; documents stay their owner's |
| `accounts` | 2 workers, 1 employer, 2 cases of all five kinds, 2 threads, 2 files each, 5 requests, 1 fault | erasure and disputes; decisions in two commits; files and rows; the badge |
| `sessions` | 2 sign-ins, 2 codes, 2 threads, 2 processes, with and without Redis, a limit of 2, 4 requests, 1 death | what was ended stays ended; codes; the limiter |
| `hiring` | 1 gig, 1 flag, 1 message, 2 threads, scores 1 and 5, two contexts, ratings that age by one half-life, 5 requests, 1 fault | ratings, notices, read marks, attachments, erasure, the score |
| `backup` | 1 upload, 2 runs that keep one archive or all, 1 restore, 1 fault, every configuration | what a success is worth, plaintext, archives, restores, retention |

Bounds: two of everything that can race is where every race of these handlers
needs no third party; three threads let a second document-holder's write and a
revocation overlap with the first write. One document is the interesting case (two
rows that share a slot); two documents never touch the same slot. One fault shows
every single failure at every point (a death, a commit that fails, the removals of
one step that fail); the properties do not count faults. One listing is enough
where properties speak of one listing's rows; the cap on backfills (`MaxBackfill`)
then never bites. In `applications` two requests race for one row and every pair
of routes is among them; one entry meets both the screen's retry and the
synchronisation; a second worker logs in once, and the exception of `OwnDocuments`
is met (its documents do go out under his name); more users, jobs and requests are
what the theorems add. `scan_queue` has no deaths because its properties are about
processes that overlap; `scan_liveness` has them. In `accounts`, `sessions` and
`hiring` the bound is on requests: five let two people file, decide and erase with
a race in each, or an application be decided twice, completed, rated and messaged
about; four let an account be registered by code, signed in, reset and used, over
both processes; a limit of two is reached and passed. Two workers are needed for a
duplicate signal, two files for a document that replaces another. In `backup` two
runs are where one prunes the other, and one restore meets either of them. Where a
larger instance would only repeat this, the theorems below hold for all values of
the constants. The runs of `credentials`, `scan_queue`, `applications`,
`accounts`, `sessions` and `hiring` use symmetry; those that check liveness do
not. The systems may really stop (all threads used, all requests made), so
deadlock is not checked.

Type invariants but that of `applications`, and some properties that a proof covers (`OwnershipIsClaimed`,
`AuditTrail`, `RegisteredWhileAccredited`, `OneWriterPerProcess`, `LastCodeOnly`,
`RatingsStand`, `CompletedFromAccepted`, `OnlySealedLeaves`), are in no
configuration: the theorems hold for every instance.

Runs that end in a violation state what a comment or docstring says and show what
the code does instead; `PROJECT.json` "findings" quotes both:

| Run | What happens |
|---|---|
| `revoked_comes_back_false` | a revocation before the registration has landed is lost, and the chain keeps calling the credential valid |
| `alerts_follow_scans` | the poller calls its callback with two arguments, the function takes one: no scheduled scan ever alerts anybody |

### Smaller disagreements between comments and code

The models have these as behaviours, and the properties are stated around them.

- Credentials: two administrators can each spawn an on-chain revocation of one
  credential (the second reverts).
- Scanner: a scan slower than 30 minutes is closed as failed, and its source queued
  again, while it runs; a row deleted between the listing pass and its detail page
  leaves the run "running" until the reaper closes it; two trigger requests, or one
  and the schedule, may queue one run each; overlapping scans of a source may
  create a listing twice or replace a description by a stub; a reaped or removed
  listing that is still on its board is created and alerted again
  (`pipeline.py` 97-102).
- Mobile queue: failed entries are sent again by every synchronisation, although a
  comment says this stops; an application whose answer was lost is submitted again
  and its refusal shown as a failure (`pending_applications.dart` 301-312); when
  the account on a shared phone changes during a submission or a synchronisation,
  the next worker applies with the first one's documents (173-176 and 218).
- Applications: one that is being scanned while its account is erased is inserted
  afterwards, with its files. A file whose removal fails is logged and forgotten:
  its column is nulled, or its row never written (`app.py` 5109-5114, 7196-7200).
- Accounts: a verification document that an erasure met half way, or that a later
  one replaced, stays on the disk (`app.py` 6633, 7058); when `log_event` fails it
  rolls the suspension back, and the report is marked actioned all the same (7482);
  when an account is reinstated between a decision's load and its commit, the case
  is actioned and the account active (7478);
  the badge of an employer may pass to a document nobody saw (6635); an erased
  account can be reinstated (7366).
- Login: the portal's registration takes a code of any purpose (5608), although the
  column's comment keeps them apart (1702-1713).
- Gigs: a Completed application can be decided again (9295).
- Messages: the text of an employer's message stays in the worker's notice after
  the employer's erasure (8165); a message that is too long leaves its attachment
  (8119).
- Backup: the metric of the last success is 0 after a failed run, though its help
  text says "0 if none has ever succeeded" (`app.py` 496-500); a failed encryption
  or a killed run leaves plaintext or a dump (`backup.py` 208, 126).

### Known exposures without a property

Seen while modelling; they are in the models as behaviours, or outside them.

- Two appeals of one account open at once (`app.py` 5873); a decision on an
  employer's badge is for the employer, not for a document (6681), which
  `BadgeIsReviewed` excepts.
- File names carry seconds: two writes of one name by one worker in one second
  share a file (5057), which `UploadsKept` excepts (`shared`).
- A reset whose second commit is lost: the password is changed and the sessions
  live on (4504). `SignedInIsCurrent` is about sign-outs that completed. Two
  registrations of one address race, and the unique columns refuse one with an
  error (4112).
- Two entries of the phone's queue written at once by a process without a session
  (`pending_applications.dart` 218); the app closed between copying files and
  writing the entry (213); a body read without a timeout keeps the synchronisation
  waiting (306); a 401 to the last session's request ends the next one's
  (`api_client.dart` 124).
- Ids of created rows live in memory between a scan's last commit and the alerts
  (`poller.py` 112); a reaped listing returns with a new id (`pipeline.py` 96).
- Nonces are resolved by each script on its own (`app.py` 2138): two processes may
  choose the same one, which `Credentials` has as a dropped transaction.
- Backup: configuration is read three times in a run (`backup.py` 399); a SQLite
  file is copied while it is written (121); an archive from before an erasure
  brings the erased rows back (`restore.py` 246); `psql` goes on after errors (130).

## Fairness

`Credentials`: weak fairness of each thread's next step (the OS schedules threads,
scripts have timeouts, the lock is released on every path) and of mining a pending
transaction (the chain is live). `ScanQueue`: weak fairness of both pg_cron jobs,
of time, and of every process's next step. Nothing is assumed of users,
administrators, commands being started, or faults. The liveness properties of
`Credentials` exclude faults because the code retries nothing;
`SourcesAreRescanned` holds with faults because the stale-run reaper repairs them.
The other specifications state no fairness: nothing in those handlers must happen
that a user does not ask for again, and their properties are about safety and
about single steps.

## Proofs

All theorems hold for every value of the constants under the assumptions named in
the modules.

`RegistryProofs` holds for any sets of accounts and documents, any number of
blocks and events. It assumes only `ConstructorAssumption`: the first owner is an
account and the zero values are not.

- `TypeCorrect`: `Spec => []TypeOK`, action by action.
- `LogComplete`, `OnlyAccredited`: `AuditTrail` is not inductive alone, since an
  accreditation is "the newest change", so a step has to know that the event it
  adds is newer than all others. `LogInv` adds `Positions` (every event lies
  before the next position), `TotalOrder` and `AccreditedLatest` (an accredited
  issuer has a newest accreditation: existence of a maximum, which would otherwise
  need an induction over the log). `EmitAppends` is the lemma every emitting
  action uses.
- `ListingCurrent`: `HalfListing` says what the first query's answer is worth
  until the second one: for an issuer that was accredited all along it contains
  an accreditation newer than any revocation the second query can return.
- `ClaimedOwnership`: by the transition relation.
- `ImplementsLedger`: the refinement; a registration maps to `Register`, a
  revocation to `Revoke`, everything else to a stutter, with the invariant that
  revoked slots are registered.

`CredentialsProofs` holds for any sets of users, documents, threads, workers,
requests and administrators and any number of faults, from
`CredentialsAssumption` (issuer, deployer and Safe are addresses, and the values
standing for nobody and nothing are not among the others). Its safety
properties are not inductive: what a row says now depends on what a thread read
minutes ago. `IInv` adds what links them: `Requests` (what an open revocation has
read), `Jobs` (a thread that runs has a row, and one that revokes found
`revoked_at` committed), `Locks` (a lock is held by exactly the thread that runs a
script under it), `Receipts` (a mined transaction has had its effect, which
nothing undoes), `OneMinedWrite` (a document was registered by one transaction),
`Rows` and `Notices` (a hash in the table is a mined one of the row's own thread;
its owner is told once and after it), `Slots` and `RevokedByAdmin`.

The verification pages rest on `PagesInv`: what the chain answered stays true of
the row while the page waits, since a row keeps its document (`Kept`) and a
registration is never undone; `revoked_at` is read as the page is rendered.

- `TypeCorrect`, `Backed`, `ConfirmedOnce`, `OnlyAdminsRevoke`,
  `MutualExclusion`, `PagesAreSound`.

`ScanQueueProofs` holds for any sources, listings, runs, rows, pollers, commands
and administrators, from `ScanQueueAssumption`. That a run has one worker rests on
`QueueInv` (a queued run is queued once and nobody has it) and `HeldInv` (a scan's
run keeps its source). That listings have one row rests on `ReadInv`: what a scan
read of a listing at the start of its pass is still so when it writes, as long as
no other scan of the source ran in between; `overlapped` marks the sources where
one did, `ScannersInv` says there is at most one scanner elsewhere. `TodoInv` says
that the rows a scan completes are its own source's and, while it is alone, have
no full text yet, so that whatever a detail page says replaces none.
`RunsDoNotPile`, for finitely many runs and administrators, counts: a request that
becomes a run moves from one set to the other, and only a source without an open
run adds to either.

- `ScanTypes`, `RunsHaveOneWorker`, `ListingsHaveOneRow`, `FullTextsStay`,
  `RunsDoNotPile`.

`ApplicationsProofs` holds for the server with any clients, from
`ApplicationsAssumption` and `NoneAssumption` (None is no file, document or row).
`UploadsKept` is not inductive: that a cleanup or an erasure leaves a row's files
alone needs that files have one holder (`Apart`), which a request that writes
keeps only because its names are new, since they carry a second later than any the
worker had before (`Stamped`), unless he is in `shared`. `Written` says the same
of files not yet committed, `Requests` that a request has files only between
writing and committing. An erasure comes in two steps with anything in between:
`Cleared` says of the rows it found, until its commit or the next one's, that
their files are gone, could not be removed, or are somebody else's, so that
nulling the columns leaves no orphan.

Of the phone, `PhoneInv` has the types and that a screen holds what its next step
needs, from `PendingApplicationsAssumption`. The server's invariant is kept by any
client's steps, so that it holds with this one takes only that every step of the
phone sends a request, reads an answer, stops waiting or leaves the server's
tables alone (`PhoneStep`). That an entry leaves the queue for a reason needs
`IdsTell` (an id stands for one entry, in the queue, in the lists read from it and
in the one a submission goes through) and `Answers` (an answer belongs to the one
request its client waits for, and a 201 means the row is there). Entries are taken
out of a list by `Where`; what it returns (`WhereTakes`) is an induction over its
positions. Whose documents go out under whose name rests on `OwnHands` (what a
screen or the synchronisation has in hand is the logged-in worker's, unless its
owner was overlapped by a login; the queue's entries belong to whoever attached
their files) and `OwnRows` (so it is of what was sent).

- `ServerTypeCorrect`, `UploadsStay`, `NoOtherOrphans`, `PhoneTypeCorrect`,
  `PhoneKeepsUploads`, `EntriesLeaveForAReason`, `DocumentsStayTheirs`.

`AccountsProofs` holds for any accounts, cases, threads and files, from
`AccountsAssumption` and `NoneAssumption`. Its invariant `AccountsInv` carries the
properties from the check to the commit: `HoldsAreLate` says of an account that is
being erased what `ErasureWaits` says of an erased one; `DecisionsAreEffective`
says of a decision between its two commits what `GrantedIsEffective` says after
them, and of one that has loaded its account that it will write, or found it so
and nobody has reversed it unrecorded; `ReportsAreOfEmployers` keeps the lever in
the table; `FilesAreKnown` (names are numbered, a file being uploaded is its
request's alone) and `FilesAreNamed` are what makes an erasure's list of files
complete but for the exceptions, removals that failed among them.

- `AccountTypes`, `ErasuresWait`, `GrantedCasesAreEffective`, `ErasureLeavesFew`,
  `NamedFilesAreOnDisk`, `BadgesAreReviewed`.

`SessionsProofs` holds for any sessions, codes, processes, and any finite set of
threads (the limiter's bound counts them), from `SessionsAssumption` and
`NoneAssumption`. `SessionsInv` adds `CodesInv` (a spent code is used; what a
request may rely on about a code it has read; the codes a request saw are used by
the time it inserts its own) and `SignInsInv` (a live session older than the last
completed sign-out slipped through it; a revoked one is in the block list; an
epoch being signed out has happened).

- `SessionTypes`, `RevokedSessionsAreOut`, `SignOutsEndSessions`,
  `CodesAreSpentOnce`, `LimiterHolds`, `LastCodeIsTheOnly`.

`HiringProofs` is about the composition, for any applications, flags, messages and
threads, from `GigsAssumption`, `ContextAssumption`, the two about `None`, and
`NoticeAssumption` (a notice of a message is not one of a status).
`HiringInv` is `HiringTypeOK` with one invariant for each half: `GigInv` (who is
Accepted or Completed was hired; requests that rate or complete have checked what
holds still, or overlapped with another) and `MessageInv` (a message under way has
a fresh key; what an erasure found and what it can miss; what is to be notified is
in the table). `GigInvFrame` and `MessageInvFrame` say that the other half's steps
leave it alone. `ToldInv` is the third: one request notifies of a message, and the
inbox holds nothing of a message before that request is over and one notice after.

That the worker's last notice is the status rests on `TellsInv`: one request at a
time speaks of an application, the worker was told of the status until it writes,
and from its write on it has that to tell; what `overlapped`, `untold` and an erasure
excuse is in the invariant.

The trust score is proved for every finite table of applications. A sum over a set
is unfolded by induction over its subsets (`SumSplits`, `SumBounds`), weights are
positive because they count the subsets of a finite set (`WeightIsPositive`), the
weighted average lies between 1 and 5 and rounding keeps order (`RoundedRises`). `FairStep`
says what a step without a reason can do: applicants stay, more of them are
answered, and among the ratings a best one is added, a worst one or one already
hidden is hidden, or none changes. `AverageRises`
and `ScoreRises` carry that to the score, their products taken one at a time.

- `HiringTypes`, `RatingsAreEarned`, `RatingsAreImmutable`,
  `CompletionsAreOfAccepted`, `ReadMessagesWereServed`, `AttachmentsFollowRows`,
  `ErasedTextsAreGone`, `MessagesAreToldOnce`, `LastNoticeIsSo`,
  `TrustNeverFallsForAnswering`.

`BackupProofs` holds for any uploads and values of `--keep`, any number of runs,
restores and faults, from `BackupAssumption`. `BackupInv` adds `JobKnows` (what a
run has done to its archive, by its step: after the pruning nothing plain of it is
left, and what it uploads is sealed), `JobIsConsistent` (what the archived rows
name is still to be archived, is archived, or was erased meanwhile) and
`NoDatabase` (the moments in which a SQLite restore has none) and `NothingLost`
(what was uploaded is on the disk or was moved aside, and a committed upload has
its row in one of the two databases), of which `RestoreLosesNothing` is a part.
`SuccessInv` adds that the run under way is the last, so that its archive is the
newest whole one and pruning does not take it, and that only a restore leaves an
archive without a database. `RetentionInv` counts: names are one archive's, the
sets are finite, and at most `--keep` archives are left when the upload starts. A
set with too many has an oldest archive, and that one is stale.

- `BackupTypes`, `OnlySealedArchivesLeave`, `PlaintextDoesNotStay`,
  `ArchivesHoldWhatTheyName`, `RestoresLoseNothing`, `SuccessesAreRestorable`,
  `RetentionIsKept`.

Every invariant and action property of the passing runs is stated by a theorem.
The library's induction theorems take an operator as a parameter, which the provers
cannot instantiate; where a proof needs induction it is derived from one fact
(`WFMin`: a nonempty set of naturals has a smallest element), applied to the set of
counterexamples.

Only model-checked, because liveness under fairness and ENABLED are outside the
prover's reach: `ThreadsEnd`, `UploadsReachTheChain`, `RevocationsReachTheChain`,
`SourcesAreRescanned`.

## Plan

Done: the contract, its log and the ledger; credentials; the scanner's queue;
applications and the offline queue; accounts; sessions; gigs, messages and their
composition; backup and restore; a proof module for each part, which states every
safety and action property of its passing runs.

What is left, in the order of its use:

1. `ChainWriter`: nonces and per-process locks below `Credentials`, where a dropped
   transaction is now a choice.
2. Employer and administrator logins, which keep no session row, and the other
   limiters; saved jobs and saved searches with their limits.
3. `ScrapedCompany` and its verification in `ScanQueue`.

## Not modelled

- Signer nonces and the script runner: which nonce a script resolves while another
  process sends depends on the node's pool. `Credentials` has the outcome.
- Of the scanner: the get-or-create of `ScrapedCompany`, its verification, and the
  saved jobs and reports that a deletion clears. Extraction prompts and HTTP
  clients: their outcome is a set of listings or a failure.
- Of the accounts: rate limits of reports, wording of notices, profile data.
- Of the logins: employers' and administrators' logins, limiters other than those of
  logins and codes, delivery of codes.
- Of the messages: socket rooms, push and text messages, read marks of notices, the
  download of attachments.
- Saved jobs and saved searches: a limit checked before an insert.
- Page layout, screens and widgets of the mobile app, CSV, PDF and CV generation:
  no state of their own.
- Schema migrations (but for the pg_cron jobs) and deployment of contract and Safe:
  one-shot scripts run by an operator.
- Load balancer, TLS and observability: configuration of third-party servers.
- Platform folders of the mobile app, generated and vendored code.
