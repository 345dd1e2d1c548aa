----------------------------- MODULE Credentials -----------------------------
(***************************************************************************)
(* The backend's credential table and the registry contract, kept in step  *)
(* by background threads (backend/app.py).  A request commits its row and  *)
(* spawns a thread; the thread runs a hardhat script under a lock of its   *)
(* own worker process; the script sends a transaction and waits for it.    *)
(* Threads, scripts, transactions, workers and requests interleave freely, *)
(* and up to MaxFaults of them fail: a script that dies or times out, a    *)
(* transaction that is dropped, a worker process that is restarted.        *)
(***************************************************************************)
EXTENDS Naturals

CONSTANTS
  User, Hash,
  Cred,          \* primary keys of Credential
  Thread,        \* background threads; bounds how many are ever spawned
  Proc,          \* worker processes, each with its own _ONCHAIN_WRITE_LOCK
  Admin,         \* concurrent requests of the admin console
  Viewer,        \* concurrent requests of a verification page
  Address, ZeroAddress, ZeroHash,
  Issuer,        \* account of ISSUER_PRIVATE_KEY
  Deployer,      \* account of DEPLOYER_PRIVATE_KEY
  Safe,          \* the multisig that governance can be handed to
  None,
  Governance,    \* which governance acts take place: "accredit", "transfer"
  MaxFaults      \* bound: faults of one behaviour

ASSUME CredentialsAssumption ==
  /\ {Issuer, Deployer, Safe} \subseteq Address
  /\ ZeroAddress \notin Address
  /\ ZeroHash \notin Hash
  /\ None \notin Thread \cup Proc \cup Cred \cup User \cup Hash
  /\ Governance \subseteq {"accredit", "transfer"}
  /\ MaxFaults \in Nat

VARIABLES
  owner, pendingOwner, accreditedIssuers, credentials, revokedCredentials,
  row,       \* the credential table
  job,       \* what each thread was spawned for
  tpc,       \* where each thread is
  receipt,   \* what became of the transaction each thread sent
  lock,      \* the thread holding each process's _ONCHAIN_WRITE_LOCK
  notified,  \* "credential_onchain_confirmed" notifications per credential
  admin,     \* admin_revoke_credential requests
  viewer,    \* verify / verify_by_id requests
  faults

\* Block times do not matter here: every block is block 1.
Chain == INSTANCE Registry WITH InitialOwner <- Deployer, timestamp <- 1

chainVars == <<owner, pendingOwner, accreditedIssuers, credentials,
               revokedCredentials>>
dbVars == <<row, notified>>
threadVars == <<job, tpc, receipt, lock>>
webVars == <<admin, viewer>>
vars == <<owner, pendingOwner, accreditedIssuers, credentials,
          revokedCredentials, row, notified, job, tpc, receipt, lock,
          admin, viewer, faults>>

Row == [state : {"unused", "live", "erased"}, user : User \cup {None},
        hash : Hash \cup {None}, onchain_tx : Thread \cup {None},
        revoked_at : BOOLEAN, revoke_onchain_tx : Thread \cup {None}]

Job == [kind : {"write", "revoke", "none"}, proc : Proc \cup {None},
        cred : Cred \cup {None}]

\* spawned -> check -> lock -> script -> wait -> record -> notify -> done;
\* a revoke thread has no check and no notification.
InScript == {"script", "wait"}
Ended == {"done", "failed"}
ThreadPC == {"unused", "spawned", "check", "lock", "record", "notify"}
              \cup InScript \cup Ended

Receipt == {"none", "pending", "mined", "reverted", "dropped"}

\* The chain's answer to the last question, and the page last shown.
Page == [pc : {"idle", "checking", "rendering"}, cred : Cred \cup {None},
         chain : {"true", "false", "none"},
         page : {"none", "valid", "invalid", "unknown", "revoked", "error"}]

TypeOK ==
  /\ Chain!RegistryTypeOK
  /\ row \in [Cred -> Row]
  /\ job \in [Thread -> Job]
  /\ tpc \in [Thread -> ThreadPC]
  /\ receipt \in [Thread -> Receipt]
  /\ lock \in [Proc -> Thread \cup {None}]
  /\ notified \in [Cred -> Nat]
  /\ admin \in [Admin -> [proc : Proc \cup {None}, cred : Cred \cup {None}]]
  /\ viewer \in [Viewer -> Page]
  /\ faults \in Nat

NoRow == [state |-> "unused", user |-> None, hash |-> None,
          onchain_tx |-> None, revoked_at |-> FALSE,
          revoke_onchain_tx |-> None]
NoJob == [kind |-> "none", proc |-> None, cred |-> None]
NoRequest == [proc |-> None, cred |-> None]
NoPage == [pc |-> "idle", cred |-> None, chain |-> "none", page |-> "none"]

Init ==
  /\ Chain!Constructor
  /\ row = [c \in Cred |-> NoRow]
  /\ job = [t \in Thread |-> NoJob]
  /\ tpc = [t \in Thread |-> "unused"]
  /\ receipt = [t \in Thread |-> "none"]
  /\ lock = [p \in Proc |-> None]
  /\ notified = [c \in Cred |-> 0]
  /\ admin = [a \in Admin |-> NoRequest]
  /\ viewer = [v \in Viewer |-> NoPage]
  /\ faults = 0

-----------------------------------------------------------------------------
Live(c) == row[c].state = "live"
Doc(t) == row[job[t].cred].hash      \* credential.hash, as the thread read it
Registered(h) == Chain!isRegistered(Issuer, h)
Valid(h) == Chain!isValid(Issuer, h)

Fault ==
  /\ faults < MaxFaults
  /\ faults' = faults + 1

\* threading.Thread(...).start() with the row's id
Spawn(t, k, p, c) ==
  /\ tpc[t] = "unused"
  /\ tpc' = [tpc EXCEPT ![t] = "spawned"]
  /\ job' = [job EXCEPT ![t] = [kind |-> k, proc |-> p, cred |-> c]]
  /\ UNCHANGED <<receipt, lock>>

Goto(t, pc) ==
  /\ tpc' = [tpc EXCEPT ![t] = pc]
  /\ UNCHANGED <<job, receipt, lock>>

-----------------------------------------------------------------------------
(* Requests *)

\* Mutant: the thread is never spawned.
Issue_NoThread(u, h, p, c, t) ==
  /\ ~\E d \in Cred : Live(d) /\ row[d].user = u /\ row[d].hash = h
  /\ row[c].state = "unused"
  /\ row' = [row EXCEPT ![c] = [NoRow EXCEPT !.state = "live", !.user = u,
                                             !.hash = h]]
  /\ UNCHANGED <<chainVars, notified, threadVars, webVars, faults>>

\* _issue_credential_internal, a file this user has not uploaded before.  Whoever
\* uploads was logged in before the file was scanned, and may be erased by now.
Issue(u, h, p, c, t) ==
  /\ ~\E d \in Cred : Live(d) /\ row[d].user = u /\ row[d].hash = h
  /\ row[c].state = "unused"
  /\ row' = [row EXCEPT ![c] = [NoRow EXCEPT !.state = "live", !.user = u,
                                             !.hash = h]]
  /\ Spawn(t, "write", p, c)
  /\ UNCHANGED <<chainVars, notified, webVars, faults>>

\* the same file again: no new row, but a write that never confirmed is retried
Reissue(c, p, t) ==
  /\ Live(c)
  /\ row[c].onchain_tx = None
  /\ Spawn(t, "write", p, c)
  /\ UNCHANGED <<chainVars, dbVars, webVars, faults>>

\* admin_revoke_credential: the row is read and revoked_at checked ...
OpenRevoke(a, c, p) ==
  /\ admin[a] = NoRequest
  /\ Live(c) /\ ~row[c].revoked_at
  /\ admin' = [admin EXCEPT ![a] = [proc |-> p, cred |-> c]]
  /\ UNCHANGED <<chainVars, dbVars, threadVars, viewer, faults>>

\* Mutant: the thread is spawned, revoked_at never committed.
CommitRevoke_NoCommit(a, t) ==
  LET c == admin[a].cred IN
  /\ admin[a] # NoRequest
  /\ admin' = [admin EXCEPT ![a] = NoRequest]
  /\ Spawn(t, "revoke", admin[a].proc, c)
  /\ UNCHANGED <<row, chainVars, notified, viewer, faults>>

\* ... then revoked_at is committed and the thread spawned; the commit fails
\* when the row was deleted in between
CommitRevoke(a, t) ==
  LET c == admin[a].cred IN
  /\ admin[a] # NoRequest
  /\ admin' = [admin EXCEPT ![a] = NoRequest]
  /\ IF Live(c)
     THEN /\ row' = [row EXCEPT ![c].revoked_at = TRUE]
          /\ Spawn(t, "revoke", admin[a].proc, c)
     ELSE UNCHANGED <<row, threadVars>>
  /\ UNCHANGED <<chainVars, notified, viewer, faults>>

\* _erase_user_data deletes every credential of the user; an account may be erased
\* again, when an upload has followed its erasure.
Erase(u) ==
  /\ row' = [c \in Cred |-> IF row[c].user = u
                            THEN [row[c] EXCEPT !.state = "erased"] ELSE row[c]]
  /\ UNCHANGED <<chainVars, notified, threadVars, webVars, faults>>

-----------------------------------------------------------------------------
(* The background threads *)

\* Mutant: a revocation checks isRegistered first too, and stops there.
Load_ChecksRevokes(t) ==
  /\ tpc[t] = "spawned"
  /\ Goto(t, IF ~Live(job[t].cred) THEN "done" ELSE "check")
  /\ UNCHANGED <<chainVars, dbVars, webVars, faults>>

\* db.session.get: the row is gone, or its hash is read
Load(t) ==
  /\ tpc[t] = "spawned"
  /\ Goto(t, IF ~Live(job[t].cred) THEN "done"
             ELSE IF job[t].kind = "write" THEN "check" ELSE "lock")
  /\ UNCHANGED <<chainVars, dbVars, webVars, faults>>

\* _check_onchain_registered, before the lock is taken
Check(t) ==
  /\ tpc[t] = "check"
  /\ Goto(t, IF Registered(Doc(t)) THEN "done" ELSE "lock")
  /\ UNCHANGED <<chainVars, dbVars, webVars, faults>>

\* the check could not be made: None is falsy, the write goes ahead
CheckFails(t) ==
  /\ tpc[t] = "check"
  /\ Fault
  /\ Goto(t, "lock")
  /\ UNCHANGED <<chainVars, dbVars, webVars>>

\* with _ONCHAIN_WRITE_LOCK:
Acquire(t) ==
  /\ tpc[t] = "lock"
  /\ lock[job[t].proc] = None
  /\ lock' = [lock EXCEPT ![job[t].proc] = t]
  /\ tpc' = [tpc EXCEPT ![t] = "script"]
  /\ UNCHANGED <<job, receipt, chainVars, dbVars, webVars, faults>>

\* Mutant: the lock is only released on success.
Release_OnSuccess(t, pc) ==
  /\ lock' = [lock EXCEPT ![job[t].proc] = IF pc = "failed" THEN @ ELSE None]
  /\ tpc' = [tpc EXCEPT ![t] = pc]
  /\ UNCHANGED job

\* the script is over and the lock released; a None result ends the thread
Release(t, pc) ==
  /\ lock' = [lock EXCEPT ![job[t].proc] = None]
  /\ tpc' = [tpc EXCEPT ![t] = pc]
  /\ UNCHANGED job

\* registerCredential(hash) from the issuer's key, revokeCredential(issuer,
\* hash) from the deployer's
Execute(t) ==
  IF job[t].kind = "write" THEN Chain!registerCredential(Issuer, Doc(t))
  ELSE Chain!revokeCredential(Deployer, Issuer, Doc(t))

CanExecute(t) ==
  IF job[t].kind = "write" THEN accreditedIssuers[Issuer] /\ ~Registered(Doc(t))
  ELSE owner = Deployer /\ Valid(Doc(t))

\* gas estimation: a call that would revert is never sent
Send(t) ==
  /\ tpc[t] = "script"
  /\ IF CanExecute(t)
     THEN /\ receipt' = [receipt EXCEPT ![t] = "pending"]
          /\ tpc' = [tpc EXCEPT ![t] = "wait"]
          /\ UNCHANGED <<job, lock>>
     ELSE Release(t, "failed") /\ UNCHANGED receipt
  /\ UNCHANGED <<chainVars, dbVars, webVars, faults>>

\* the script dies or is killed at its timeout, perhaps after sending
ScriptFails(t) ==
  /\ tpc[t] \in InScript
  /\ Fault
  /\ Release(t, "failed")
  /\ \/ UNCHANGED receipt
     \/ /\ tpc[t] = "script" /\ CanExecute(t)
        /\ receipt' = [receipt EXCEPT ![t] = "pending"]
  /\ UNCHANGED <<chainVars, dbVars, webVars>>

Mine(t) ==
  /\ receipt[t] = "pending"
  /\ \/ Execute(t) /\ receipt' = [receipt EXCEPT ![t] = "mined"]
     \/ /\ ~CanExecute(t)
        /\ receipt' = [receipt EXCEPT ![t] = "reverted"]
        /\ UNCHANGED chainVars
  /\ UNCHANGED <<dbVars, job, tpc, lock, webVars, faults>>

\* evicted from the mempool, or replaced by one with the same nonce
Drop(t) ==
  /\ receipt[t] = "pending"
  /\ Fault
  /\ receipt' = [receipt EXCEPT ![t] = "dropped"]
  /\ UNCHANGED <<chainVars, dbVars, job, tpc, lock, webVars>>

\* Mutant: the "Sent tx" line is taken for the MINED_TX line.
ScriptEnds_SentIsMined(t) ==
  /\ tpc[t] = "wait"
  /\ receipt[t] \in {"mined", "reverted", "dropped"}
  /\ Release(t, "record")
  /\ UNCHANGED <<receipt, chainVars, dbVars, webVars, faults>>

\* tx.wait() returned: MINED_TX was printed, or the script threw
ScriptEnds(t) ==
  /\ tpc[t] = "wait"
  /\ receipt[t] \in {"mined", "reverted", "dropped"}
  /\ Release(t, IF receipt[t] = "mined" THEN "record" ELSE "failed")
  /\ UNCHANGED <<receipt, chainVars, dbVars, webVars, faults>>

\* the tx hash is committed; a deleted row makes the commit raise
Record(t) ==
  LET c == job[t].cred IN
  /\ tpc[t] = "record"
  /\ IF ~Live(c)
     THEN Goto(t, "failed") /\ UNCHANGED row
     ELSE IF job[t].kind = "write"
     THEN /\ row' = [row EXCEPT ![c].onchain_tx = t]
          /\ Goto(t, "notify")
     ELSE /\ row' = [row EXCEPT ![c].revoke_onchain_tx = t]
          /\ Goto(t, "done")
  /\ UNCHANGED <<chainVars, notified, webVars, faults>>

\* notify_user, whose arguments are read from the row again
Notify(t) ==
  LET c == job[t].cred IN
  /\ tpc[t] = "notify"
  /\ IF Live(c)
     THEN /\ notified' = [notified EXCEPT ![c] = @ + 1]
          /\ Goto(t, "done")
     ELSE Goto(t, "failed") /\ UNCHANGED notified
  /\ UNCHANGED <<chainVars, row, webVars, faults>>

\* a worker is killed or redeployed: its daemon threads and requests are
\* gone, but a script it had started may still send its transaction
Crash(p) ==
  /\ Fault
  /\ \E orphans \in SUBSET {t \in Thread : /\ job[t].proc = p
                                          /\ tpc[t] = "script"
                                          /\ CanExecute(t)} :
       receipt' = [t \in Thread |->
                     IF t \in orphans THEN "pending" ELSE receipt[t]]
  /\ tpc' = [t \in Thread |->
               IF job[t].proc = p /\ tpc[t] \notin Ended THEN "failed" ELSE tpc[t]]
  /\ lock' = [lock EXCEPT ![p] = None]
  /\ admin' = [a \in Admin |-> IF admin[a].proc = p THEN NoRequest ELSE admin[a]]
  /\ UNCHANGED <<chainVars, dbVars, job, viewer>>

-----------------------------------------------------------------------------
(* Governance: the admin console's issuer page, which runs its script under *)
(* the lock too, and the hand-over of the registry to a multisig. *)
AccreditIssuer(p, a) ==
  /\ lock[p] = None
  /\ Chain!accreditIssuer(Deployer, a)
  /\ UNCHANGED <<dbVars, threadVars, webVars, faults>>

RevokeIssuer(p, a) ==
  /\ lock[p] = None
  /\ Chain!revokeIssuer(Deployer, a)
  /\ UNCHANGED <<dbVars, threadVars, webVars, faults>>

TransferToSafe ==
  /\ Chain!transferOwnership(Deployer, Safe)
  /\ UNCHANGED <<dbVars, threadVars, webVars, faults>>

SafeAccepts ==
  /\ Chain!acceptOwnership(Safe)
  /\ UNCHANGED <<dbVars, threadVars, webVars, faults>>

-----------------------------------------------------------------------------
(* The verification pages: the row is found, the chain is asked, and the *)
(* page is rendered from the row as it is by then (log_event committed). *)
OpenPage(v, c) ==
  /\ viewer[v].pc = "idle"
  /\ Live(c)
  /\ viewer' = [viewer EXCEPT ![v] = [NoPage EXCEPT !.pc = "checking", !.cred = c]]
  /\ UNCHANGED <<chainVars, dbVars, threadVars, admin, faults>>

CheckValid(v) ==
  /\ viewer[v].pc = "checking"
  /\ \/ /\ viewer' = [viewer EXCEPT ![v].pc = "rendering",
              ![v].chain = IF Valid(row[viewer[v].cred].hash)
                           THEN "true" ELSE "false"]
        /\ UNCHANGED faults
     \/ /\ Fault
        /\ viewer' = [viewer EXCEPT ![v].pc = "rendering", ![v].chain = "none"]
  /\ UNCHANGED <<chainVars, dbVars, threadVars, admin>>

\* Mutant: the chain's answer is looked at before revoked_at.
PageOf_ChainFirst(c, chain) ==
  IF ~Live(c) THEN "error"
  ELSE IF chain = "true" THEN "valid"
  ELSE IF row[c].revoked_at THEN "revoked"
  ELSE IF chain = "none" THEN "unknown" ELSE "invalid"

PageOf(c, chain) ==
  IF ~Live(c) THEN "error"
  ELSE IF row[c].revoked_at THEN "revoked"
  ELSE IF chain = "none" THEN "unknown"
  ELSE IF chain = "true" THEN "valid" ELSE "invalid"

RenderPage(v) ==
  /\ viewer[v].pc = "rendering"
  /\ viewer' = [viewer EXCEPT ![v].pc = "idle",
                  ![v].page = PageOf(viewer[v].cred, viewer[v].chain)]
  /\ UNCHANGED <<chainVars, dbVars, threadVars, admin, faults>>

-----------------------------------------------------------------------------
ThreadStep(t) ==
  \/ Load(t) \/ Check(t) \/ Acquire(t) \/ Send(t) \/ ScriptEnds(t)
  \/ Record(t) \/ Notify(t)

FaultStep ==
  \/ \E t \in Thread : CheckFails(t) \/ ScriptFails(t) \/ Drop(t)
  \/ \E p \in Proc : Crash(p)

WebStep ==
  \/ \E p \in Proc, t \in Thread, c \in Cred :
       \/ \E u \in User, h \in Hash : Issue(u, h, p, c, t)
       \/ Reissue(c, p, t)
  \/ \E a \in Admin :
       \/ \E c \in Cred, p \in Proc : OpenRevoke(a, c, p)
       \/ \E t \in Thread : CommitRevoke(a, t)
  \/ \E u \in User : Erase(u)
  \/ \E v \in Viewer :
       \/ \E c \in Cred : OpenPage(v, c)
       \/ CheckValid(v)
       \/ RenderPage(v)

GovernanceStep ==
  \/ /\ "accredit" \in Governance
     /\ \E p \in Proc : AccreditIssuer(p, Issuer) \/ RevokeIssuer(p, Issuer)
  \/ /\ "transfer" \in Governance
     /\ TransferToSafe \/ SafeAccepts

Next ==
  \/ \E t \in Thread : ThreadStep(t) \/ Mine(t)
  \/ FaultStep
  \/ WebStep
  \/ GovernanceStep

Spec == Init /\ [][Next]_vars

\* Threads are scheduled and the chain mines what it was sent; users,
\* administrators and faults promise nothing.
Fairness == \A t \in Thread : WF_vars(ThreadStep(t)) /\ WF_vars(Mine(t))

FairSpec == Spec /\ Fairness

-----------------------------------------------------------------------------
(* Properties *)

\* A tx hash in the table is never a promise the chain does not keep: a row
\* with onchain_tx has its document registered, a row with
\* revoke_onchain_tx has it revoked, and each hash is that of the mined
\* transaction of the row's own thread (only a MINED_TX line is recorded,
\* app.py _write_onchain_tx_for_credential).
ConfirmationsAreBacked ==
  \A c \in Cred :
    /\ LET t == row[c].onchain_tx IN
         t # None => /\ Registered(row[c].hash)
                     /\ receipt[t] = "mined" /\ job[t].cred = c
    /\ LET t == row[c].revoke_onchain_tx IN
         t # None => /\ Registered(row[c].hash) /\ ~Valid(row[c].hash)
                     /\ receipt[t] = "mined" /\ job[t].cred = c

\* Rows of two users may share a document, threads may check it before
\* either has written, transactions may be mined after their script gave up:
\* still at most one row is ever confirmed per document, and its owner is
\* told once.
OneConfirmationPerDocument ==
  \A c, d \in Cred :
    /\ notified[c] <= 1
    /\ notified[c] = 1 => row[c].onchain_tx # None
    /\ row[c].onchain_tx # None /\ row[d].onchain_tx # None
         /\ row[c].hash = row[d].hash => c = d

\* The chain only forgets a document because an administrator revoked a
\* credential with it.
RevokedByAdmin ==
  \A h \in Hash :
    Registered(h) /\ ~Valid(h) =>
      \E c \in Cred : row[c].hash = h /\ row[c].revoked_at

\* The scripts of one worker never run two at a time, whatever fails, and the
\* lock is never left behind (the comment on _ONCHAIN_WRITE_LOCK).
OneWriterPerProcess ==
  \A t \in Thread :
    tpc[t] \in InScript <=> \E p \in Proc : lock[p] = t /\ job[t].proc = p

\* A verification page shows the "registered and valid" badge only for a
\* credential that is not revoked at the moment the page is rendered, however
\* long the chain took to answer, and whose document is on chain
\* (templates/verify.html looks at revoked_at first).
PageIsSound ==
  [][\A v \in Viewer :
       viewer[v].pc = "rendering" /\ viewer'[v].page = "valid" =>
         /\ Live(viewer[v].cred)
         /\ ~row[viewer[v].cred].revoked_at
         /\ Registered(row[viewer[v].cred].hash)]_vars

\* Every thread ends: no fault, and no order of threads, leaves a worker's
\* lock held or a thread waiting for ever.
ThreadsEnd ==
  \A t \in Thread : tpc[t] = "spawned" ~> tpc[t] \in Ended

\* An upload reaches the chain, through its own thread or another row's,
\* unless something failed or the credential went away (where the platform's
\* issuer stays accredited).
UploadsReachTheChain ==
  \A c \in Cred, h \in Hash :
    Live(c) /\ row[c].hash = h
      ~> Registered(h) \/ ~Live(c) \/ faults > 0

\* Revoking a credential that is confirmed when its thread starts revokes it
\* on chain, unless something failed or the registry has been handed to the
\* multisig.
RevocationsReachTheChain ==
  \A t \in Thread, c \in Cred, h \in Hash :
    tpc[t] = "spawned" /\ job[t].kind = "revoke" /\ job[t].cred = c
      /\ Live(c) /\ row[c].hash = h /\ row[c].onchain_tx # None
      ~> ~Valid(h) \/ ~Live(c) \/ faults > 0 \/ owner # Deployer

-----------------------------------------------------------------------------
(* What the source says and the code does not do *)

Quiet ==
  /\ \A t \in Thread : tpc[t] \in Ended \cup {"unused"}
  /\ \A t \in Thread : receipt[t] # "pending"

\* app.py:8021-8024: a credential the backend's record shows as revoked
\* "will correctly come back False" from the chain -- here even granting the
\* threads the time to finish, and nothing to fail.
RevokedComesBackFalse ==
  Quiet /\ faults = 0 =>
    \A c \in Cred : Live(c) /\ row[c].revoked_at => ~Valid(row[c].hash)
=============================================================================
