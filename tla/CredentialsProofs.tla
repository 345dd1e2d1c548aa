------------------------- MODULE CredentialsProofs -------------------------
(***************************************************************************)
(* Proofs about the credential table and the contract, for any users,      *)
(* documents, rows, threads, worker processes, requests and faults.        *)
(***************************************************************************)
EXTENDS Credentials, TLAPS

(* The inductive invariant *)

\* A thread that was spawned works for a row that exists; one that revokes
\* was spawned after revoked_at was committed.
Jobs ==
  \A t \in Thread :
    /\ tpc[t] = "unused" => job[t] = NoJob
    /\ tpc[t] # "unused" =>
         /\ job[t].kind \in {"write", "revoke"}
         /\ job[t].proc \in Proc
         /\ job[t].cred \in Cred
         /\ row[job[t].cred].state # "unused"
         /\ job[t].kind = "revoke" => row[job[t].cred].revoked_at

\* A lock is held by a thread of its process that runs a script, and by every
\* such thread.
Locks ==
  /\ \A p \in Proc : lock[p] # None =>
       tpc[lock[p]] \in InScript /\ job[lock[p]].proc = p
  /\ \A t \in Thread : tpc[t] \in InScript => lock[job[t].proc] = t

\* A transaction exists once its thread has sent it, and a mined one has had
\* its effect, which nothing undoes.
Receipts ==
  \A t \in Thread :
    /\ receipt[t] # "none" =>
         tpc[t] \in {"wait", "record", "notify", "done", "failed"}
    /\ tpc[t] \in {"record", "notify"} => receipt[t] = "mined"
    /\ receipt[t] = "mined" =>
         /\ Registered(Doc(t))
         /\ job[t].kind = "revoke" => ~Valid(Doc(t))

\* The contract registers a document once, so two mined writes of one
\* document are the same.
OneMinedWrite ==
  \A t, u \in Thread :
    /\ receipt[t] = "mined" /\ job[t].kind = "write"
    /\ receipt[u] = "mined" /\ job[u].kind = "write"
    /\ Doc(t) = Doc(u)
    => t = u

\* A tx hash in the table is that of a mined transaction of the row's own
\* thread, and the owner is told after it was recorded.
Rows ==
  \A c \in Cred :
    /\ row[c].state = "unused" => row[c] = NoRow
    /\ row[c].state # "unused" => row[c].hash \in Hash
    /\ row[c].onchain_tx # None =>
         /\ receipt[row[c].onchain_tx] = "mined"
         /\ job[row[c].onchain_tx].kind = "write"
         /\ job[row[c].onchain_tx].cred = c
         /\ tpc[row[c].onchain_tx] \in {"notify", "done", "failed"}
    /\ row[c].revoke_onchain_tx # None =>
         /\ receipt[row[c].revoke_onchain_tx] = "mined"
         /\ job[row[c].revoke_onchain_tx].kind = "revoke"
         /\ job[row[c].revoke_onchain_tx].cred = c
    /\ notified[c] # 0 => notified[c] = 1 /\ row[c].onchain_tx # None

\* A thread that is about to notify has recorded its hash, and nobody has
\* notified for this row.
Notices ==
  \A t \in Thread : tpc[t] = "notify" =>
    /\ job[t].kind = "write"
    /\ row[job[t].cred].onchain_tx = t
    /\ notified[job[t].cred] = 0

\* A request that passed its check holds the id of a row.
Requests ==
  \A a \in Admin : admin[a] # NoRequest =>
    admin[a].proc \in Proc /\ admin[a].cred \in Cred

\* The contract revokes only what is registered.
Slots == \A h \in Hash : <<Issuer, h>> \in revokedCredentials => Registered(h)

IInv ==
  TypeOK /\ Requests /\ Jobs /\ Locks /\ Receipts /\ OneMinedWrite /\ Rows /\ Notices
    /\ Slots /\ RevokedByAdmin
-----------------------------------------------------------------------------
(* Type correctness *)

LEMMA InitTypeOK == Init => TypeOK
  BY CredentialsAssumption
     DEF Init, TypeOK, Chain!Constructor, Chain!RegistryTypeOK, Chain!Account,
         Chain!Key, Chain!Bytes32, NoRow, NoJob, NoRequest, NoPage, Row, Job,
         ThreadPC, Receipt, Page

\* The contract's part, for whatever it executes.
LEMMA ChainTypes ==
  ASSUME TypeOK, NEW i \in Address,
         \/ \E h \in Hash : Chain!registerCredential(i, h)
         \/ \E s \in Address, h \in Hash : Chain!revokeCredential(s, i, h)
         \/ \E s \in Address : Chain!accreditIssuer(s, i) \/ Chain!revokeIssuer(s, i)
         \/ \E s \in Address : Chain!transferOwnership(s, i)
         \/ Chain!acceptOwnership(i)
         \/ UNCHANGED chainVars
  PROVE  Chain!RegistryTypeOK'
<1>1. /\ i \in Chain!Account /\ \A h \in Hash : <<i, h>> \in Chain!Key
      /\ ZeroAddress \in Chain!Account
  BY DEF Chain!Account, Chain!Bytes32, Chain!Key
<1> USE DEF TypeOK, Chain!RegistryTypeOK, Chain!ownerVars, Chain!slotVars
<1>2. ASSUME NEW h \in Hash, Chain!registerCredential(i, h)
      PROVE  Chain!RegistryTypeOK'
  BY <1>1, <1>2 DEF Chain!registerCredential
<1>3. ASSUME NEW s \in Address, NEW h \in Hash, Chain!revokeCredential(s, i, h)
      PROVE  Chain!RegistryTypeOK'
  BY <1>1, <1>3 DEF Chain!revokeCredential
<1>4. ASSUME NEW s \in Address, Chain!accreditIssuer(s, i) \/ Chain!revokeIssuer(s, i)
      PROVE  Chain!RegistryTypeOK'
  BY <1>1, <1>4 DEF Chain!accreditIssuer, Chain!revokeIssuer
<1>5. ASSUME NEW s \in Address, Chain!transferOwnership(s, i)
      PROVE  Chain!RegistryTypeOK'
  BY <1>1, <1>5 DEF Chain!transferOwnership
<1>6. CASE Chain!acceptOwnership(i)
  BY <1>1, <1>6 DEF Chain!acceptOwnership
<1>7. CASE UNCHANGED chainVars
  BY <1>7 DEF chainVars
<1> QED
  BY <1>2, <1>3, <1>4, <1>5, <1>6, <1>7

\* A step that leaves the contract alone and types the rest.
LEMMA QuietChainTypes ==
  ASSUME TypeOK, UNCHANGED chainVars
  PROVE  Chain!RegistryTypeOK'
BY DEF TypeOK, chainVars, Chain!RegistryTypeOK

LEMMA RowTypes ==
  ASSUME row \in [Cred -> Row], NEW c \in Cred, NEW t \in Thread,
         \/ UNCHANGED row
         \/ row' = [row EXCEPT ![c].onchain_tx = t]
         \/ row' = [row EXCEPT ![c].revoke_onchain_tx = t]
         \/ row' = [row EXCEPT ![c].revoked_at = TRUE]
  PROVE  row' \in [Cred -> Row]
<1>1. CASE row' = [row EXCEPT ![c].onchain_tx = t]
  BY <1>1 DEF Row
<1>2. CASE row' = [row EXCEPT ![c].revoke_onchain_tx = t]
  BY <1>2 DEF Row
<1>3. CASE row' = [row EXCEPT ![c].revoked_at = TRUE]
  BY <1>3 DEF Row
<1> QED
  BY <1>1, <1>2, <1>3, ZenonT(30)

LEMMA ThreadTypes ==
  ASSUME TypeOK, Jobs, NEW t \in Thread,
         ThreadStep(t) \/ CheckFails(t) \/ ScriptFails(t) \/ Drop(t)
  PROVE  TypeOK'
<1> USE DEF dbVars, webVars, Fault, Goto, Release, Ended
<1>0. Chain!RegistryTypeOK'
  BY QuietChainTypes
     DEF ThreadStep, Load, Check, Acquire, Send, ScriptEnds, Record, Notify,
         CheckFails, ScriptFails, Drop
<1> USE DEF TypeOK
<1>1. CASE Load(t) \/ Check(t) \/ CheckFails(t)
  BY <1>0, <1>1 DEF Load, Check, CheckFails, ThreadPC
<1>2. CASE Acquire(t)
  BY <1>0, <1>2 DEF Acquire, ThreadPC, InScript
<1>3. CASE Send(t)
  BY <1>0, <1>3 DEF Send, ThreadPC, InScript, Receipt
<1>4. CASE ScriptFails(t)
  <2>1. receipt' \in [Thread -> Receipt]
    BY <1>4 DEF ScriptFails, Receipt
  <2>2. tpc' \in [Thread -> ThreadPC]
    BY <1>4 DEF ScriptFails, ThreadPC
  <2>3. faults' = faults + 1
    BY <1>4 DEF ScriptFails
  <2>4. UNCHANGED <<row, notified, job, admin, viewer>>
    BY <1>4 DEF ScriptFails
  <2>5. faults' \in Nat
    BY <2>3
  <2>6. lock' \in [Proc -> Thread \cup {None}]
    BY <1>4 DEF ScriptFails
  <2> HIDE DEF TypeOK
  <2> QED
    BY <1>0, <2>1, <2>2, <2>4, <2>5, <2>6 DEF TypeOK
<1>8. CASE ScriptEnds(t)
  BY <1>0, <1>8 DEF ScriptEnds, ThreadPC, InScript
<1>5. CASE Drop(t)
  BY <1>0, <1>5 DEF Drop, Receipt
<1>6. CASE Record(t)
  <2>0. job[t].cred \in Cred
    BY <1>6 DEF Record, Jobs
  <2>1. row' \in [Cred -> Row]
    <3>1. \/ UNCHANGED row
          \/ row' = [row EXCEPT ![job[t].cred].onchain_tx = t]
          \/ row' = [row EXCEPT ![job[t].cred].revoke_onchain_tx = t]
      BY <1>6 DEF Record
    <3> QED
      BY <2>0, <3>1, RowTypes
  <2> QED
    BY <1>0, <1>6, <2>1 DEF Record, ThreadPC
<1>7. CASE Notify(t)
  <2>1. UNCHANGED notified
          \/ notified' = [notified EXCEPT ![job[t].cred] = @ + 1]
    BY <1>7 DEF Notify
  <2>2. notified' \in [Cred -> Nat]
    BY <2>1
  <2>3. tpc' \in [Thread -> ThreadPC]
    BY <1>7 DEF Notify, ThreadPC
  <2> QED
    BY <1>0, <1>7, <2>2, <2>3 DEF Notify
<1> QED
  BY <1>1, <1>2, <1>3, <1>4, <1>5, <1>6, <1>7, <1>8 DEF ThreadStep

LEMMA MineTypes ==
  ASSUME TypeOK, Jobs, Receipts, Rows, NEW t \in Thread, Mine(t)
  PROVE  TypeOK'
<1>1. Doc(t) \in Hash
  BY DEF Jobs, Receipts, Rows, Mine, Doc
<1>2. /\ Issuer \in Address /\ Deployer \in Address
      /\ \/ Chain!registerCredential(Issuer, Doc(t))
         \/ Chain!revokeCredential(Deployer, Issuer, Doc(t))
         \/ UNCHANGED chainVars
  BY CredentialsAssumption DEF Mine, Execute
<1>3. Chain!RegistryTypeOK'
  BY <1>1, <1>2, ChainTypes
<1> QED
  BY <1>3 DEF Mine, TypeOK, Receipt, dbVars, webVars

LEMMA CrashTypes ==
  ASSUME TypeOK, NEW p \in Proc, Crash(p)
  PROVE  TypeOK'
<1>1. receipt' \in [Thread -> Receipt]
  BY DEF Crash, TypeOK, Receipt
<1>2. tpc' \in [Thread -> ThreadPC]
  BY DEF Crash, TypeOK, ThreadPC, Ended
<1>3. admin' \in [Admin -> [proc : Proc \cup {None}, cred : Cred \cup {None}]]
  BY DEF Crash, TypeOK, NoRequest
<1> QED
  BY <1>1, <1>2, <1>3, QuietChainTypes DEF Crash, TypeOK, Fault, dbVars

LEMMA ViewerTypes ==
  ASSUME viewer \in [Viewer -> Page], NEW v \in Viewer,
         \/ \E x \in {"true", "false", "none"} :
              viewer' = [viewer EXCEPT ![v].pc = "rendering", ![v].chain = x]
         \/ \E x \in {"valid", "invalid", "unknown", "revoked", "error"} :
              viewer' = [viewer EXCEPT ![v].pc = "idle", ![v].page = x]
  PROVE  viewer' \in [Viewer -> Page]
<1>1. ASSUME NEW x \in {"true", "false", "none"},
             viewer' = [viewer EXCEPT ![v].pc = "rendering", ![v].chain = x]
      PROVE  viewer' \in [Viewer -> Page]
  BY <1>1, SMTT(30) DEF Page
<1>2. ASSUME NEW x \in {"valid", "invalid", "unknown", "revoked", "error"},
             viewer' = [viewer EXCEPT ![v].pc = "idle", ![v].page = x]
      PROVE  viewer' \in [Viewer -> Page]
  BY <1>2, SMTT(30) DEF Page
<1> QED
  BY <1>1, <1>2

LEMMA WebTypes ==
  ASSUME TypeOK, Requests, WebStep
  PROVE  TypeOK'
<1> USE DEF dbVars, threadVars, webVars, Fault, TypeOK
<1>1. ASSUME NEW p \in Proc, NEW t \in Thread, NEW c \in Cred,
             NEW u \in User, NEW h \in Hash, Issue(u, h, p, c, t)
      PROVE  TypeOK'
  <2>1. row' \in [Cred -> Row]
    BY <1>1 DEF Issue, Row, NoRow
  <2>2. job' \in [Thread -> Job] /\ tpc' \in [Thread -> ThreadPC]
    BY <1>1 DEF Issue, Spawn, Job, ThreadPC
  <2> QED
    BY <1>1, <2>1, <2>2, QuietChainTypes DEF Issue, Spawn
<1>2. ASSUME NEW p \in Proc, NEW t \in Thread, NEW c \in Cred, Reissue(c, p, t)
      PROVE  TypeOK'
  <2>2. job' \in [Thread -> Job] /\ tpc' \in [Thread -> ThreadPC]
    BY <1>2 DEF Reissue, Spawn, Job, ThreadPC
  <2> QED
    BY <1>2, <2>2, QuietChainTypes DEF Reissue, Spawn
<1>3. ASSUME NEW a \in Admin, NEW c \in Cred, NEW p \in Proc, OpenRevoke(a, c, p)
      PROVE  TypeOK'
  BY <1>3, QuietChainTypes DEF OpenRevoke
<1>4. ASSUME NEW a \in Admin, NEW t \in Thread, CommitRevoke(a, t)
      PROVE  TypeOK'
  <2>0. admin[a].proc \in Proc /\ admin[a].cred \in Cred
    BY <1>4 DEF CommitRevoke, Requests
  <2>1. row' \in [Cred -> Row]
    <3>1. UNCHANGED row \/ row' = [row EXCEPT ![admin[a].cred].revoked_at = TRUE]
      BY <1>4 DEF CommitRevoke
    <3> QED
      BY <2>0, <3>1, RowTypes
  <2>2. job' \in [Thread -> Job] /\ tpc' \in [Thread -> ThreadPC]
    <3>1. \/ UNCHANGED <<job, tpc>>
          \/ /\ tpc' = [tpc EXCEPT ![t] = "spawned"]
             /\ job' = [job EXCEPT ![t] = [kind |-> "revoke",
                          proc |-> admin[a].proc, cred |-> admin[a].cred]]
      BY <1>4 DEF CommitRevoke, Spawn
    <3> QED
      BY <2>0, <3>1 DEF Job, ThreadPC
  <2> QED
    BY <1>4, <2>1, <2>2, QuietChainTypes DEF CommitRevoke, Spawn, NoRequest
<1>5. ASSUME NEW u \in User, Erase(u)
      PROVE  TypeOK'
  <2>1. row' \in [Cred -> Row]
    <3>1. ASSUME NEW r \in Row PROVE [r EXCEPT !.state = "erased"] \in Row
      BY DEF Row
    <3> QED
      BY <1>5, <3>1 DEF Erase
  <2> QED
    BY <1>5, <2>1, QuietChainTypes DEF Erase
<1>6. ASSUME NEW v \in Viewer, NEW c \in Cred, OpenPage(v, c)
      PROVE  TypeOK'
  BY <1>6, QuietChainTypes DEF OpenPage, NoPage, Page
<1>7. ASSUME NEW v \in Viewer, CheckValid(v)
      PROVE  TypeOK'
  <2>1. \E x \in {"true", "false", "none"} :
          viewer' = [viewer EXCEPT ![v].pc = "rendering", ![v].chain = x]
    BY <1>7 DEF CheckValid
  <2>2. faults' \in Nat
    BY <1>7 DEF CheckValid
  <2> QED
    BY <1>7, <2>1, <2>2, ViewerTypes, QuietChainTypes DEF CheckValid
<1>8. ASSUME NEW v \in Viewer, RenderPage(v)
      PROVE  TypeOK'
  <2>1. \E x \in {"valid", "invalid", "unknown", "revoked", "error"} :
          viewer' = [viewer EXCEPT ![v].pc = "idle", ![v].page = x]
    BY <1>8 DEF RenderPage, PageOf
  <2> QED
    BY <1>8, <2>1, ViewerTypes, QuietChainTypes DEF RenderPage
<1> QED
  BY <1>1, <1>2, <1>3, <1>4, <1>5, <1>6, <1>7, <1>8 DEF WebStep

LEMMA GovernanceTypes ==
  ASSUME TypeOK, GovernanceStep
  PROVE  TypeOK'
<1>1. /\ Chain!RegistryTypeOK'
      /\ UNCHANGED <<dbVars, threadVars, webVars, faults>>
  BY CredentialsAssumption, ChainTypes
     DEF GovernanceStep, AccreditIssuer, RevokeIssuer, TransferToSafe, SafeAccepts
<1> QED
  BY <1>1 DEF TypeOK, dbVars, threadVars, webVars

-----------------------------------------------------------------------------
(* Every step keeps the invariant *)

LEMMA InitIInv == Init => IInv
<1> SUFFICES ASSUME Init PROVE IInv
  OBVIOUS
<1>1. TypeOK
  BY InitTypeOK
<1>2. Requests /\ Jobs /\ Locks /\ Receipts /\ OneMinedWrite /\ Rows /\ Notices
  BY DEF Init, Requests, Jobs, Locks, Receipts, OneMinedWrite, Rows, Notices,
         NoRow, InScript
<1>3. Slots /\ RevokedByAdmin
  BY DEF Init, Slots, RevokedByAdmin, Valid, Registered, Chain!isValid,
         Chain!isRegistered, Chain!Constructor
<1> QED
  BY <1>1, <1>2, <1>3 DEF IInv

\* The facts a step can only disturb by changing one of these variables.
recordVars == <<row, notified, job, tpc, receipt, lock, credentials,
                revokedCredentials>>

LEMMA QuietStep ==
  ASSUME IInv, TypeOK', Requests', UNCHANGED recordVars
  PROVE  IInv'
<1> USE DEF recordVars
<1>1. Jobs' /\ Locks'
  BY DEF IInv, Jobs, Locks
<1>2. Receipts' /\ OneMinedWrite'
  BY DEF IInv, Receipts, OneMinedWrite, Registered, Valid, Doc, Chain!isRegistered,
         Chain!isValid
<1>3. Rows' /\ Notices'
  BY DEF IInv, Rows, Notices
<1>4. Slots' /\ RevokedByAdmin'
  BY DEF IInv, Slots, RevokedByAdmin, Registered, Valid, Chain!isRegistered, Chain!isValid
<1> QED
  BY <1>1, <1>2, <1>3, <1>4 DEF IInv

\* A thread that only moves on, outside of the script and the notification.
LEMMA MoveStep ==
  ASSUME IInv, TypeOK', Requests', NEW t \in Thread, NEW pc,
         tpc' = [tpc EXCEPT ![t] = pc],
         tpc[t] \in {"spawned", "check", "record"},
         pc \in {"check", "lock", "done", "failed"},
         receipt[t] = "none" \/ pc \in Ended,
         UNCHANGED <<row, notified, job, receipt, lock, credentials,
                     revokedCredentials>>
  PROVE  IInv'
<1>1. Jobs' /\ Locks'
  BY DEF IInv, TypeOK, Jobs, Locks, InScript
<1>2. Receipts' /\ OneMinedWrite'
  BY DEF IInv, TypeOK, Receipts, OneMinedWrite, Registered, Valid, Doc,
         Chain!isRegistered, Chain!isValid, Ended
<1>3. Rows' /\ Notices'
  BY DEF IInv, TypeOK, Rows, Notices, Ended
<1>4. Slots' /\ RevokedByAdmin'
  BY DEF IInv, Slots, RevokedByAdmin, Registered, Valid, Chain!isRegistered, Chain!isValid
<1> QED
  BY <1>1, <1>2, <1>3, <1>4 DEF IInv

\* What the rest of the invariant needs of a change of the table: nothing in
\* use is reused, and neither documents, hashes nor revocations are lost.
RowsKept ==
  \A c \in Cred :
    /\ row[c].state # "unused" =>
         /\ row'[c].state # "unused"
         /\ row'[c].hash = row[c].hash
         /\ row[c].revoked_at => row'[c].revoked_at
    /\ row'[c].onchain_tx = row[c].onchain_tx
    /\ row'[c].revoke_onchain_tx = row[c].revoke_onchain_tx
    /\ row'[c].state = "unused" => row'[c] = NoRow
    /\ row'[c].state # "unused" => row'[c].hash \in Hash

\* Requests that only change the table, and the spawning of a thread.
LEMMA TableStep ==
  ASSUME IInv, TypeOK', Requests', RowsKept,
         UNCHANGED <<notified, receipt, lock, credentials, revokedCredentials>>,
         \/ UNCHANGED <<tpc, job>>
         \/ \E t \in Thread, k \in {"write", "revoke"}, p \in Proc, c \in Cred :
              /\ Spawn(t, k, p, c)
              /\ row'[c].state # "unused"
              /\ k = "revoke" => row'[c].revoked_at
  PROVE  IInv'
<1>1. PICK s \in SUBSET Thread :
        /\ \A t \in s : tpc[t] = "unused" /\ tpc'[t] = "spawned"
        /\ \A t \in s : /\ job'[t].kind \in {"write", "revoke"}
                        /\ job'[t].proc \in Proc /\ job'[t].cred \in Cred
                        /\ row'[job'[t].cred].state # "unused"
                        /\ job'[t].kind = "revoke" => row'[job'[t].cred].revoked_at
        /\ \A t \in Thread \ s : tpc'[t] = tpc[t] /\ job'[t] = job[t]
  <2>1. CASE UNCHANGED <<tpc, job>>
    <3>1. WITNESS {} \in SUBSET Thread
    <3> QED
      BY <2>1
  <2>2. ASSUME NEW t \in Thread, NEW k \in {"write", "revoke"}, NEW p \in Proc,
               NEW c \in Cred, Spawn(t, k, p, c), row'[c].state # "unused",
               k = "revoke" => row'[c].revoked_at
        PROVE  \E s \in SUBSET Thread :
        /\ \A u \in s : tpc[u] = "unused" /\ tpc'[u] = "spawned"
        /\ \A u \in s : /\ job'[u].kind \in {"write", "revoke"}
                        /\ job'[u].proc \in Proc /\ job'[u].cred \in Cred
                        /\ row'[job'[u].cred].state # "unused"
                        /\ job'[u].kind = "revoke" => row'[job'[u].cred].revoked_at
        /\ \A u \in Thread \ s : tpc'[u] = tpc[u] /\ job'[u] = job[u]
    <3>1. /\ tpc[t] = "unused" /\ tpc'[t] = "spawned"
          /\ job'[t] = [kind |-> k, proc |-> p, cred |-> c]
          /\ \A u \in Thread \ {t} : tpc'[u] = tpc[u] /\ job'[u] = job[u]
      BY <2>2 DEF Spawn, IInv, TypeOK
    <3>2. WITNESS {t} \in SUBSET Thread
    <3> QED
      BY <2>2, <3>1
  <2> QED
    BY <2>1, <2>2
<1>2. \A t \in Thread : receipt[t] # "none" => t \notin s
  BY <1>1 DEF IInv, Receipts
<1>3. \A t \in Thread \ s : tpc[t] # "unused" => Doc(t)' = Doc(t)
  BY <1>1 DEF IInv, Jobs, Doc, RowsKept
<1>4. Jobs'
  BY <1>1 DEF IInv, Jobs, RowsKept
<1>5. Locks'
  BY <1>1 DEF IInv, TypeOK, Jobs, Locks, InScript
<1>6. Receipts'
  <2> SUFFICES ASSUME NEW t \in Thread
               PROVE  /\ receipt[t] # "none" => tpc'[t] \in
                            {"wait", "record", "notify", "done", "failed"}
                      /\ tpc'[t] \in {"record", "notify"} => receipt[t] = "mined"
                      /\ receipt[t] = "mined" =>
                           /\ Registered(Doc(t))'
                           /\ job'[t].kind = "revoke" => ~Valid(Doc(t))'
    BY DEF Receipts
  <2>1. CASE t \in s
    <3>1. tpc'[t] = "spawned" /\ receipt[t] = "none"
      BY <1>1, <1>2, <2>1
    <3> QED
      BY <3>1
  <2>2. CASE t \notin s
    <3>1. /\ tpc'[t] = tpc[t] /\ job'[t] = job[t]
          /\ tpc[t] # "unused" => Doc(t)' = Doc(t)
      BY <1>1, <1>3, <2>2
    <3>2. \A d : /\ Registered(d)' <=> Registered(d)
                 /\ Valid(d)' <=> Valid(d)
      BY DEF Registered, Valid, Chain!isRegistered, Chain!isValid
    <3>3. /\ receipt[t] # "none" =>
               tpc[t] \in {"wait", "record", "notify", "done", "failed"}
          /\ tpc[t] \in {"record", "notify"} => receipt[t] = "mined"
          /\ receipt[t] = "mined" =>
               /\ Registered(Doc(t))
               /\ job[t].kind = "revoke" => ~Valid(Doc(t))
      BY DEF IInv, Receipts
    <3>4. /\ receipt[t] = "mined" => Registered(Doc(t))'
          /\ receipt[t] = "mined" /\ job[t].kind = "revoke" => ~Valid(Doc(t))'
      BY <3>1, <3>2, <3>3 DEF Registered, Valid, Chain!isRegistered, Chain!isValid
    <3> QED
      BY <3>1, <3>3, <3>4
  <2> QED
    BY <2>1, <2>2
<1>9. OneMinedWrite'
  <2> SUFFICES ASSUME NEW t \in Thread, NEW u \in Thread,
                      receipt[t] = "mined", job'[t].kind = "write",
                      receipt[u] = "mined", job'[u].kind = "write",
                      Doc(t)' = Doc(u)'
               PROVE  t = u
    BY DEF OneMinedWrite
  <2>1. t \notin s /\ u \notin s /\ tpc[t] # "unused" /\ tpc[u] # "unused"
    BY <1>2 DEF IInv, Receipts
  <2> QED
    BY <1>1, <1>3, <2>1 DEF IInv, OneMinedWrite
<1>7. Rows' /\ Notices'
  BY <1>1, <1>2, SMTT(30) DEF IInv, TypeOK, Row, Jobs, Receipts, Rows, Notices, RowsKept
<1>8. Slots' /\ RevokedByAdmin'
  BY DEF IInv, Rows, Slots, RevokedByAdmin, RowsKept, Registered, Valid,
     Chain!isRegistered, Chain!isValid, NoRow
<1> QED
  BY <1>4, <1>5, <1>6, <1>7, <1>8, <1>9 DEF IInv

LEMMA AcquireStep ==
  ASSUME IInv, TypeOK', NEW t \in Thread, Acquire(t)
  PROVE  IInv'
<1> USE DEF Acquire, dbVars, webVars, chainVars
<1>1. Requests' /\ Jobs'
  BY DEF IInv, TypeOK, Requests, Jobs
<1>2. Locks'
  BY CredentialsAssumption DEF IInv, TypeOK, Jobs, Locks, InScript
<1>3. Receipts' /\ OneMinedWrite'
  BY DEF IInv, TypeOK, Receipts, OneMinedWrite, Registered, Valid, Doc,
         Chain!isRegistered, Chain!isValid
<1>4. Rows' /\ Notices'
  BY DEF IInv, TypeOK, Rows, Notices
<1>5. Slots' /\ RevokedByAdmin'
  BY DEF IInv, Slots, RevokedByAdmin, Registered, Valid, Chain!isRegistered, Chain!isValid
<1> QED
  BY <1>1, <1>2, <1>3, <1>4, <1>5 DEF IInv

\* The script is over, however it ended, and perhaps leaves a transaction.
LEMMA ReleaseStep ==
  ASSUME IInv, TypeOK', NEW t \in Thread, tpc[t] \in InScript,
         NEW pc \in {"record", "failed"}, Release(t, pc),
         pc = "record" => receipt[t] = "mined",
         \/ UNCHANGED receipt
         \/ /\ tpc[t] = "script" /\ pc = "failed"
            /\ receipt' = [receipt EXCEPT ![t] = "pending"],
         UNCHANGED <<chainVars, dbVars, webVars>>
  PROVE  IInv'
<1> USE DEF Release, dbVars, webVars, chainVars
<1>1. Requests' /\ Jobs'
  BY DEF IInv, TypeOK, Requests, Jobs, InScript
<1>2. Locks'
  BY CredentialsAssumption DEF IInv, TypeOK, Jobs, Locks, InScript
<1>3. receipt[t] # receipt'[t] => receipt[t] = "none" /\ receipt'[t] = "pending"
  BY DEF IInv, TypeOK, Receipts, InScript
<1>4. Receipts' /\ OneMinedWrite'
  BY <1>3 DEF IInv, TypeOK, Receipts, OneMinedWrite, Registered, Valid, Doc,
         Chain!isRegistered, Chain!isValid, InScript
<1>5. Rows'
  <2>1. \A c \in Cred : /\ row[c].onchain_tx # None =>
                            row[c].onchain_tx \in Thread \ {t}
                        /\ row[c].revoke_onchain_tx # None =>
                            row[c].revoke_onchain_tx \in Thread
    BY DEF IInv, TypeOK, Row, Rows, InScript
  <2>2. \A u \in Thread : receipt[u] = "mined" => receipt'[u] = "mined"
    BY <1>3 DEF IInv, TypeOK
  <2>3. \A u \in Thread \ {t} : tpc'[u] = tpc[u]
    BY DEF IInv, TypeOK
  <2> QED
    BY <2>1, <2>2, <2>3 DEF IInv, Rows
<1>7. Notices'
  BY DEF IInv, TypeOK, Notices
<1>6. Slots' /\ RevokedByAdmin'
  BY DEF IInv, Slots, RevokedByAdmin, Registered, Valid, Chain!isRegistered, Chain!isValid
<1> QED
  BY <1>1, <1>2, <1>4, <1>5, <1>6, <1>7 DEF IInv

\* A transaction is sent, or its fate is known to be nothing.
LEMMA ReceiptStep ==
  ASSUME IInv, TypeOK', NEW t \in Thread,
         \/ /\ tpc[t] = "script" /\ tpc' = [tpc EXCEPT ![t] = "wait"]
            /\ receipt' = [receipt EXCEPT ![t] = "pending"]
         \/ /\ receipt[t] = "pending" /\ UNCHANGED tpc
            /\ receipt' \in {[receipt EXCEPT ![t] = "reverted"],
                             [receipt EXCEPT ![t] = "dropped"]},
         UNCHANGED <<chainVars, dbVars, webVars, job, lock>>
  PROVE  IInv'
<1> USE DEF dbVars, webVars, chainVars
<1>1. /\ receipt[t] # "mined" /\ receipt'[t] # "mined"
      /\ tpc[t] \notin {"record", "notify"} /\ tpc'[t] \notin {"record", "notify"}
      /\ \A u \in Thread \ {t} : receipt'[u] = receipt[u] /\ tpc'[u] = tpc[u]
  BY DEF IInv, TypeOK, Receipts
<1>2. \/ tpc[t] = "script" /\ tpc'[t] = "wait"
      \/ tpc'[t] = tpc[t] /\ receipt[t] = "pending"
  BY DEF IInv, TypeOK
<1>3. Requests' /\ Jobs'
  BY <1>1, <1>2 DEF IInv, TypeOK, Requests, Jobs
<1>4. Locks'
  BY <1>1, <1>2 DEF IInv, TypeOK, Locks, InScript
<1>5. Receipts' /\ OneMinedWrite'
  BY <1>1, <1>2 DEF IInv, Receipts, OneMinedWrite, Registered, Valid, Doc,
     Chain!isRegistered, Chain!isValid
<1>6. Rows'
  <2>1. \A c \in Cred : /\ row[c].onchain_tx # None =>
                            row[c].onchain_tx \in Thread \ {t}
                        /\ row[c].revoke_onchain_tx # None =>
                            row[c].revoke_onchain_tx \in Thread \ {t}
    BY <1>1 DEF IInv, TypeOK, Row, Rows
  <2> QED
    BY <1>1, <2>1 DEF IInv, Rows
<1>7. Notices'
  BY <1>1 DEF IInv, Notices
<1>8. Slots' /\ RevokedByAdmin'
  BY DEF IInv, Slots, RevokedByAdmin, Registered, Valid, Chain!isRegistered, Chain!isValid
<1> QED
  BY <1>3, <1>4, <1>5, <1>6, <1>7, <1>8 DEF IInv

\* A registration takes effect: no write of this document had been mined.
LEMMA MineWrite ==
  ASSUME IInv, TypeOK', NEW t \in Thread, Mine(t), job[t].kind = "write",
         Chain!registerCredential(Issuer, Doc(t)),
         receipt' = [receipt EXCEPT ![t] = "mined"]
  PROVE  IInv'
<1> USE DEF Mine, dbVars, webVars, Chain!ownerVars
<1>1. /\ tpc[t] \in {"wait", "done", "failed", "record", "notify"}
      /\ receipt[t] = "pending" /\ tpc[t] \notin {"record", "notify"}
      /\ receipt'[t] = "mined"
      /\ \A u \in Thread \ {t} : receipt'[u] = receipt[u]
  BY DEF IInv, TypeOK, Receipts
<1>2. Doc(t) \in Hash
  BY <1>1 DEF IInv, Jobs, Rows, Doc
<1>3. /\ ~Registered(Doc(t)) /\ Registered(Doc(t))'
      /\ \A h \in Hash : Registered(h) => Registered(h)'
      /\ \A h \in Hash : h # Doc(t) => (Registered(h) <=> Registered(h)')
      /\ \A h \in Hash : Valid(h)' /\ Registered(h) => Valid(h)
      /\ UNCHANGED <<row, job, tpc, lock, revokedCredentials>>
  <2>1. <<Issuer, Doc(t)>> \in Chain!Key
    BY <1>2, CredentialsAssumption DEF Chain!Key, Chain!Account, Chain!Bytes32
  <2>2. credentials' = [credentials EXCEPT ![<<Issuer, Doc(t)>>] = 1]
    BY DEF Chain!registerCredential
  <2>3. credentials \in [Chain!Key -> Nat]
    BY DEF IInv, TypeOK, Chain!RegistryTypeOK
  <2>4. /\ credentials[<<Issuer, Doc(t)>>] = 0
        /\ UNCHANGED <<row, job, tpc, lock, revokedCredentials>>
    BY DEF Chain!registerCredential, Chain!isRegistered
  <2>5. Doc(t)' = Doc(t)
    BY <2>4 DEF Doc
  <2> QED
    BY <2>1, <2>2, <2>3, <2>4, <2>5
       DEF Registered, Valid, Chain!isRegistered, Chain!isValid
<1>4. \A u \in Thread : Doc(u)' = Doc(u)
  BY <1>3 DEF Doc
<1>5. \A u \in Thread : receipt[u] = "mined" => Doc(u) \in Hash /\ Doc(u) # Doc(t)
  <2> TAKE u \in Thread
  <2> HAVE receipt[u] = "mined"
  <2>1. tpc[u] # "unused" /\ Registered(Doc(u))
    BY DEF IInv, Receipts
  <2>2. Doc(u) \in Hash
    BY <2>1 DEF IInv, Jobs, Rows, Doc
  <2> QED
    BY <1>3, <2>1, <2>2
<1>6. Requests' /\ Jobs' /\ Locks'
  BY <1>3 DEF IInv, Requests, Jobs, Locks
<1>7. Receipts'
  <2> SUFFICES ASSUME NEW u \in Thread
               PROVE  /\ receipt'[u] # "none" =>
                           tpc[u] \in {"wait", "record", "notify", "done", "failed"}
                      /\ tpc[u] \in {"record", "notify"} => receipt'[u] = "mined"
                      /\ receipt'[u] = "mined" =>
                           /\ Registered(Doc(u))'
                           /\ job[u].kind = "revoke" => ~Valid(Doc(u))'
    BY <1>3 DEF Receipts
  <2>1. CASE u = t
    BY <1>1, <1>3, <2>1
  <2>2. CASE u # t
    <3>1. receipt[u] = "mined" => /\ Registered(Doc(u))
                                  /\ job[u].kind = "revoke" => ~Valid(Doc(u))
      BY DEF IInv, Receipts
    <3>2. receipt[u] = "mined" => /\ Registered(Doc(u))'
                                  /\ job[u].kind = "revoke" => ~Valid(Doc(u))'
      BY <1>3, <1>4, <1>5, <3>1 DEF Registered, Valid
    <3> QED
      BY <1>1, <2>2, <3>2 DEF IInv, Receipts
  <2> QED
    BY <2>1, <2>2
<1>8. OneMinedWrite'
  BY <1>1, <1>3, <1>4, <1>5 DEF IInv, OneMinedWrite
<1>9. Rows' /\ Notices'
  <2>1. UNCHANGED <<row, notified, job, tpc>>
    OBVIOUS
  <2>2. \A u \in Thread : receipt[u] = "mined" => receipt'[u] = "mined"
    BY <1>1
  <2>3. \A c \in Cred : row[c].onchain_tx \in Thread \cup {None}
                        /\ row[c].revoke_onchain_tx \in Thread \cup {None}
    BY DEF IInv, TypeOK, Row
  <2>4. Rows'
    BY <2>1, <2>2, <2>3 DEF IInv, Rows
  <2>5. Notices'
    BY <2>1 DEF IInv, Notices
  <2> QED
    BY <2>4, <2>5
<1>10. Slots' /\ RevokedByAdmin'
  <2>1. ASSUME NEW h \in Hash, <<Issuer, h>> \in revokedCredentials
        PROVE  Registered(h) /\ h # Doc(t)
    BY <1>3, <2>1 DEF IInv, Slots
  <2>2. Slots'
    BY <1>3, <2>1 DEF Slots
  <2>3. \A h \in Hash : Registered(h)' /\ ~Valid(h)' => Registered(h) /\ ~Valid(h)
    BY <1>3, <2>1 DEF Valid, Registered, Chain!isValid, Chain!isRegistered
  <2> QED
    BY <1>3, <2>2, <2>3 DEF IInv, RevokedByAdmin
<1> QED
  BY <1>6, <1>7, <1>8, <1>9, <1>10 DEF IInv

\* A revocation takes effect: its request committed revoked_at before the
\* thread was spawned.
LEMMA MineRevoke ==
  ASSUME IInv, TypeOK', NEW t \in Thread, Mine(t), job[t].kind # "write",
         Chain!revokeCredential(Deployer, Issuer, Doc(t)),
         receipt' = [receipt EXCEPT ![t] = "mined"]
  PROVE  IInv'
<1> USE DEF Mine, dbVars, webVars, Chain!ownerVars
<1>1. /\ receipt[t] = "pending" /\ receipt'[t] = "mined"
      /\ tpc[t] \in {"wait", "done", "failed"}
      /\ \A u \in Thread \ {t} : receipt'[u] = receipt[u]
  BY DEF IInv, TypeOK, Receipts
<1>2. /\ job[t].cred \in Cred /\ row[job[t].cred].revoked_at
      /\ Doc(t) = row[job[t].cred].hash
  BY <1>1 DEF IInv, Jobs, Doc
<1>3. /\ revokedCredentials' = revokedCredentials \cup {<<Issuer, Doc(t)>>}
      /\ UNCHANGED <<credentials, row, notified, job, tpc, lock, admin>>
      /\ Registered(Doc(t))
  BY DEF Chain!revokeCredential, Registered
<1>4. \A u \in Thread : Doc(u)' = Doc(u)
  BY <1>3 DEF Doc
<1>5. /\ \A h : Registered(h)' <=> Registered(h)
      /\ \A h : h # Doc(t) => (Valid(h)' <=> Valid(h))
      /\ \A h : Valid(h)' => Valid(h)
      /\ ~Valid(Doc(t))'
  <2>1. Doc(t)' = Doc(t)
    BY <1>4
  <2>2. <<Issuer, Doc(t)>> \in revokedCredentials'
    BY <1>3
  <2>3. \A h : h # Doc(t) => <<Issuer, h>> # <<Issuer, Doc(t)>>
    OBVIOUS
  <2> HIDE DEF Mine
  <2> QED
    BY <1>3, <2>1, <2>2, <2>3
       DEF Registered, Valid, Chain!isRegistered, Chain!isValid
<1>6. Requests' /\ Jobs' /\ Locks'
  BY <1>3 DEF IInv, Requests, Jobs, Locks
<1>7. Receipts'
  <2> SUFFICES ASSUME NEW u \in Thread
               PROVE  /\ receipt'[u] # "none" =>
                           tpc[u] \in {"wait", "record", "notify", "done", "failed"}
                      /\ tpc[u] \in {"record", "notify"} => receipt'[u] = "mined"
                      /\ receipt'[u] = "mined" =>
                           /\ Registered(Doc(u))'
                           /\ job[u].kind = "revoke" => ~Valid(Doc(u))'
    BY <1>3 DEF Receipts
  <2>1. CASE u = t
    <3>1. Registered(Doc(t))'
      BY <1>3, <1>4 DEF Registered, Chain!isRegistered
    <3> QED
      BY <1>1, <1>5, <2>1, <3>1
  <2>2. CASE u # t
    <3>1. receipt[u] = "mined" => /\ Registered(Doc(u))
                                  /\ job[u].kind = "revoke" => ~Valid(Doc(u))
      BY DEF IInv, Receipts
    <3>2. receipt[u] = "mined" => /\ Registered(Doc(u))'
                                  /\ job[u].kind = "revoke" => ~Valid(Doc(u))'
      BY <1>3, <1>4, <3>1
         DEF Registered, Valid, Chain!isRegistered, Chain!isValid
    <3> QED
      BY <1>1, <2>2, <3>2 DEF IInv, Receipts
  <2> QED
    BY <2>1, <2>2
<1>8. OneMinedWrite'
  BY <1>1, <1>3, <1>4 DEF IInv, OneMinedWrite
<1>9. Rows' /\ Notices'
  <2>1. \A u \in Thread : receipt[u] = "mined" => receipt'[u] = "mined"
    BY <1>1
  <2>2. \A c \in Cred : row[c].onchain_tx \in Thread \cup {None}
                        /\ row[c].revoke_onchain_tx \in Thread \cup {None}
    BY DEF IInv, TypeOK, Row
  <2>3. Rows'
    BY <1>3, <2>1, <2>2 DEF IInv, Rows
  <2>4. Notices'
    BY <1>3 DEF IInv, Notices
  <2> QED
    BY <2>3, <2>4
<1>10. Slots' /\ RevokedByAdmin'
  <2>1. Slots'
    BY <1>3 DEF IInv, Slots, Registered, Chain!isRegistered
  <2>2. RevokedByAdmin'
    BY <1>2, <1>3, <1>5 DEF IInv, RevokedByAdmin
  <2> QED
    BY <2>1, <2>2
<1> QED
  BY <1>6, <1>7, <1>8, <1>9, <1>10 DEF IInv

LEMMA RecordStep ==
  ASSUME IInv, TypeOK', NEW t \in Thread, Record(t), Live(job[t].cred)
  PROVE  IInv'
<1> DEFINE c == job[t].cred
<1>1. /\ tpc[t] = "record" /\ receipt[t] = "mined" /\ c \in Cred
      /\ row[c].state = "live"
      /\ job[t].kind = "write" \/ job[t].kind = "revoke"
      /\ tpc' = [tpc EXCEPT ![t] = IF job[t].kind = "write" THEN "notify" ELSE "done"]
      /\ UNCHANGED <<job, receipt, lock, notified, admin, credentials,
                     revokedCredentials>>
  BY DEF Record, Goto, Live, IInv, Jobs, Receipts, webVars, chainVars
<1>2. /\ \A u \in Thread \ {t} : tpc'[u] = tpc[u]
      /\ tpc'[t] = IF job[t].kind = "write" THEN "notify" ELSE "done"
  BY <1>1 DEF IInv, TypeOK
<1>3. /\ \A d \in Cred : /\ row'[d].state = row[d].state
                         /\ row'[d].hash = row[d].hash
                         /\ row'[d].revoked_at = row[d].revoked_at
                         /\ d # c => row'[d] = row[d]
      /\ job[t].kind = "write" => /\ row'[c].onchain_tx = t
                                  /\ row'[c].revoke_onchain_tx = row[c].revoke_onchain_tx
      /\ job[t].kind = "revoke" => /\ row'[c].revoke_onchain_tx = t
                                   /\ row'[c].onchain_tx = row[c].onchain_tx
  <2>1. /\ job[t].kind = "write" => row' = [row EXCEPT ![c].onchain_tx = t]
        /\ job[t].kind = "revoke" => row' = [row EXCEPT ![c].revoke_onchain_tx = t]
    BY <1>1 DEF Record
  <2>2. \A d \in Cred : row[d] \in Row
    BY DEF IInv, TypeOK
  <2>3. row \in [Cred -> Row]
    BY DEF IInv, TypeOK
  <2>4. CASE job[t].kind = "write"
    BY <1>1, <2>1, <2>2, <2>3, <2>4 DEF Row
  <2>5. CASE job[t].kind = "revoke"
    BY <1>1, <2>1, <2>2, <2>3, <2>5 DEF Row
  <2> QED
    BY <1>1, <2>4, <2>5
<1> HIDE DEF c
<1>c. c = job[t].cred
  BY DEF c
<1>4. \A u \in Thread : tpc[u] # "unused" => Doc(u)' = Doc(u)
  BY <1>1, <1>3 DEF Doc, IInv, Jobs
<1>5. Requests' /\ Jobs' /\ Locks'
  <2>1. Requests'
    BY <1>1 DEF IInv, Requests
  <2>2. Jobs'
    BY <1>1, <1>2, <1>3 DEF IInv, Jobs
  <2>3. Locks'
    BY <1>1, <1>2 DEF IInv, TypeOK, Locks, InScript
  <2> QED
    BY <2>1, <2>2, <2>3
<1>6. Receipts' /\ OneMinedWrite'
  <2>1. \A u \in Thread : receipt[u] = "mined" => tpc[u] # "unused"
    BY DEF IInv, Receipts
  <2>2. Receipts'
    BY <1>1, <1>2, <1>4, <2>1 DEF IInv, Receipts, Registered, Valid,
       Chain!isRegistered, Chain!isValid
  <2>3. OneMinedWrite'
    BY <1>1, <1>4, <2>1 DEF IInv, OneMinedWrite
  <2> QED
    BY <2>2, <2>3
\* a row confirmed by t has no other confirmation and no notification yet
<1>7. job[t].kind = "write" => row[c].onchain_tx = None /\ notified[c] = 0
  <2> SUFFICES ASSUME job[t].kind = "write", row[c].onchain_tx # None
               PROVE  FALSE
    BY <1>1 DEF IInv, Rows
  <2> DEFINE u == row[c].onchain_tx
  <2>1. /\ u \in Thread /\ receipt[u] = "mined" /\ job[u].kind = "write"
        /\ job[u].cred = c /\ tpc[u] # "record"
    BY <1>1 DEF IInv, TypeOK, Row, Rows
  <2>2. Doc(u) = Doc(t)
    BY <1>c, <2>1 DEF Doc
  <2>3. u = t
    BY <1>1, <2>1, <2>2 DEF IInv, OneMinedWrite
  <2> QED
    BY <1>1, <2>1, <2>3
<1>8. Rows'
  <2>1. \A d \in Cred : /\ row[d].onchain_tx # None =>
                            row[d].onchain_tx \in Thread \ {t}
                        /\ row[d].revoke_onchain_tx # None =>
                            row[d].revoke_onchain_tx \in Thread
    BY <1>1 DEF IInv, TypeOK, Row, Rows
  <2>2. \A d \in Cred : row[d].onchain_tx # None =>
          /\ receipt'[row[d].onchain_tx] = "mined"
          /\ job'[row[d].onchain_tx].kind = "write"
          /\ job'[row[d].onchain_tx].cred = d
          /\ tpc'[row[d].onchain_tx] \in {"notify", "done", "failed"}
    BY <1>1, <1>2, <2>1 DEF IInv, Rows
  <2>3. \A d \in Cred : row[d].revoke_onchain_tx # None =>
          /\ receipt'[row[d].revoke_onchain_tx] = "mined"
          /\ job'[row[d].revoke_onchain_tx].kind = "revoke"
          /\ job'[row[d].revoke_onchain_tx].cred = d
    BY <1>1, <2>1 DEF IInv, Rows
  <2>4. \A d \in Cred : /\ row'[d].state = "unused" => row'[d] = NoRow
                        /\ row'[d].state # "unused" => row'[d].hash \in Hash
    BY <1>1, <1>3 DEF IInv, Rows
  <2>5. \A d \in Cred : notified'[d] # 0 => notified'[d] = 1 /\ row'[d].onchain_tx # None
    BY <1>1, <1>3, CredentialsAssumption DEF IInv, Rows
  <2>6. CASE job[t].kind = "write"
    <3>1. \A d \in Cred : /\ row'[d].revoke_onchain_tx = row[d].revoke_onchain_tx
                          /\ d # c => row'[d].onchain_tx = row[d].onchain_tx
      BY <1>1, <1>3, <2>6
    <3>2. row'[c].onchain_tx = t /\ tpc'[t] = "notify"
      BY <1>2, <1>3, <2>6
    <3> QED
      BY <1>1, <1>c, <2>2, <2>3, <2>4, <2>5, <2>6, <3>1, <3>2 DEF Rows
  <2>7. CASE job[t].kind = "revoke"
    <3>1. \A d \in Cred : /\ row'[d].onchain_tx = row[d].onchain_tx
                          /\ d # c => row'[d].revoke_onchain_tx = row[d].revoke_onchain_tx
      BY <1>1, <1>3, <2>7
    <3>2. row'[c].revoke_onchain_tx = t
      BY <1>3, <2>7
    <3> QED
      BY <1>1, <1>c, <2>2, <2>3, <2>4, <2>5, <2>7, <3>1, <3>2 DEF Rows
  <2> QED
    BY <1>1, <2>6, <2>7
<1>9. Notices'
  <2> SUFFICES ASSUME NEW u \in Thread, tpc'[u] = "notify"
               PROVE  /\ job[u].kind = "write"
                      /\ row'[job[u].cred].onchain_tx = u
                      /\ notified[job[u].cred] = 0
    BY <1>1 DEF Notices
  <2>1. CASE u = t
    BY <1>1, <1>2, <1>3, <1>7, <1>c, <2>1
  <2>2. CASE u # t
    <3>1. tpc[u] = "notify"
      BY <1>2, <2>2
    <3>2. /\ job[u].kind = "write" /\ row[job[u].cred].onchain_tx = u
          /\ notified[job[u].cred] = 0 /\ job[u].cred \in Cred
      BY <3>1 DEF IInv, Notices, Jobs
    <3>3. job[u].cred # c \/ job[t].kind = "revoke"
      BY <1>1, <1>7, <3>2, CredentialsAssumption
    <3> QED
      BY <1>1, <1>3, <3>2, <3>3
  <2> QED
    BY <2>1, <2>2
<1>10. Slots' /\ RevokedByAdmin'
  BY <1>1, <1>3 DEF IInv, Slots, RevokedByAdmin, Registered, Valid,
     Chain!isRegistered, Chain!isValid
<1> QED
  BY <1>5, <1>6, <1>8, <1>9, <1>10 DEF IInv

LEMMA NotifyStep ==
  ASSUME IInv, TypeOK', NEW t \in Thread, Notify(t)
  PROVE  IInv'
<1> DEFINE c == job[t].cred
<1>1. /\ tpc[t] = "notify" /\ receipt[t] = "mined" /\ job[t].kind = "write"
      /\ c \in Cred /\ row[c].onchain_tx = t /\ notified[c] = 0
      /\ UNCHANGED <<row, job, receipt, lock, admin, credentials, revokedCredentials>>
      /\ \E pc \in {"done", "failed"} : tpc' = [tpc EXCEPT ![t] = pc]
  BY DEF Notify, Goto, IInv, Jobs, Receipts, Notices, webVars, chainVars
<1>2. /\ \A u \in Thread \ {t} : tpc'[u] = tpc[u]
      /\ tpc'[t] \in {"done", "failed"}
  BY <1>1 DEF IInv, TypeOK
<1>3. \A d \in Cred : notified'[d] = notified[d] \/ (d = c /\ notified'[d] = 1)
  <2>1. UNCHANGED notified \/ notified' = [notified EXCEPT ![c] = @ + 1]
    BY DEF Notify
  <2>2. notified \in [Cred -> Nat]
    BY DEF IInv, TypeOK
  <2> QED
    BY <1>1, <2>1, <2>2
<1> HIDE DEF c
<1>4. Requests' /\ Jobs' /\ Locks'
  BY <1>1, <1>2 DEF IInv, TypeOK, Requests, Jobs, Locks, InScript
<1>5. Receipts' /\ OneMinedWrite'
  BY <1>1, <1>2 DEF IInv, Receipts, OneMinedWrite, Registered, Valid, Doc,
     Chain!isRegistered, Chain!isValid
<1>6. Rows'
  <2>1. \A d \in Cred : /\ row[d].onchain_tx \in Thread \cup {None}
                        /\ row[d].revoke_onchain_tx \in Thread \cup {None}
    BY DEF IInv, TypeOK, Row
  <2>2. t # None
    BY CredentialsAssumption
  <2> QED
    BY <1>1, <1>2, <1>3, <2>1, <2>2 DEF IInv, Rows
<1>7. Notices'
  <2> SUFFICES ASSUME NEW u \in Thread, tpc'[u] = "notify"
               PROVE  /\ job[u].kind = "write"
                      /\ row[job[u].cred].onchain_tx = u
                      /\ notified'[job[u].cred] = 0
    BY <1>1 DEF Notices
  <2>1. u # t /\ tpc[u] = "notify"
    BY <1>2
  <2>2. /\ job[u].kind = "write" /\ row[job[u].cred].onchain_tx = u
        /\ notified[job[u].cred] = 0 /\ job[u].cred \in Cred
    BY <2>1 DEF IInv, Notices, Jobs
  <2> QED
    BY <1>1, <1>3, <2>1, <2>2
<1>8. Slots' /\ RevokedByAdmin'
  BY <1>1 DEF IInv, Slots, RevokedByAdmin, Registered, Valid,
     Chain!isRegistered, Chain!isValid
<1> QED
  BY <1>4, <1>5, <1>6, <1>7, <1>8 DEF IInv

\* The threads of one process end at once and its lock goes with them; the
\* orphans are scripts that still send.
LEMMA CrashStep ==
  ASSUME IInv, TypeOK', NEW p \in Proc, Crash(p)
  PROVE  IInv'
<1> USE DEF dbVars, chainVars
<1>1. /\ \A t \in Thread : tpc'[t] = tpc[t]
             \/ (/\ job[t].proc = p /\ tpc[t] \notin Ended /\ tpc'[t] = "failed")
      /\ \A t \in Thread : job[t].proc = p => tpc'[t] \in Ended
      /\ \A t \in Thread : receipt'[t] = receipt[t]
             \/ (/\ job[t].proc = p /\ tpc[t] = "script"
                 /\ receipt'[t] = "pending")
      /\ UNCHANGED <<row, notified, job, credentials, revokedCredentials>>
  BY DEF Crash, Ended
<1>2. /\ lock'[p] = None
      /\ \A q \in Proc \ {p} : lock'[q] = lock[q]
  BY DEF Crash, IInv, TypeOK
<1>3. \A t \in Thread : receipt'[t] # receipt[t] =>
        receipt[t] = "none" /\ receipt'[t] = "pending" /\ tpc'[t] = "failed"
  BY <1>1 DEF IInv, Receipts, Ended
<1>4. \A t \in Thread : tpc[t] = "unused" => tpc'[t] = "unused"
  <2> SUFFICES ASSUME NEW t \in Thread, tpc[t] = "unused"
               PROVE  job[t].proc # p
    BY <1>1
  <2> QED
    BY CredentialsAssumption DEF IInv, Jobs, NoJob
<1>5. Requests'
  BY DEF Crash, IInv, Requests, NoRequest
<1>6. Jobs'
  BY <1>1, <1>4 DEF IInv, Jobs
<1>7. Locks'
  <2>1. ASSUME NEW q \in Proc, lock'[q] # None
        PROVE  tpc'[lock'[q]] \in InScript /\ job[lock'[q]].proc = q
    <3>1. q # p /\ lock'[q] = lock[q] /\ lock[q] \in Thread
      BY <1>2, <2>1 DEF IInv, TypeOK
    <3>2. tpc[lock[q]] \in InScript /\ job[lock[q]].proc = q
      BY <2>1, <3>1 DEF IInv, Locks
    <3> QED
      BY <1>1, <3>1, <3>2
  <2>2. ASSUME NEW t \in Thread, tpc'[t] \in InScript
        PROVE  lock'[job[t].proc] = t
    <3>1. job[t].proc # p /\ tpc[t] \in InScript
      BY <1>1, <2>2 DEF Ended, InScript
    <3>2. lock[job[t].proc] = t /\ job[t].proc \in Proc
      BY <3>1 DEF IInv, Jobs, Locks, InScript
    <3> QED
      BY <1>2, <3>1, <3>2
  <2> QED
    BY <1>1, <2>1, <2>2 DEF Locks
<1>8. Receipts'
  BY <1>1, <1>3 DEF IInv, Receipts, Registered, Valid, Doc, Ended,
     Chain!isRegistered, Chain!isValid
<1>9. OneMinedWrite'
  BY <1>1, <1>3 DEF IInv, OneMinedWrite, Doc
<1>10. Rows' /\ Notices'
  <2>1. \A d \in Cred : /\ row[d].onchain_tx \in Thread \cup {None}
                        /\ row[d].revoke_onchain_tx \in Thread \cup {None}
    BY DEF IInv, TypeOK, Row
  <2>2. \A t \in Thread : receipt[t] = "mined" => receipt'[t] = "mined"
    BY <1>3
  <2>3. Rows'
    BY <1>1, <2>1, <2>2 DEF IInv, Rows
  <2>4. Notices'
    BY <1>1 DEF IInv, Notices
  <2> QED
    BY <2>3, <2>4
<1>11. Slots' /\ RevokedByAdmin'
  BY <1>1 DEF IInv, Slots, RevokedByAdmin, Registered, Valid,
     Chain!isRegistered, Chain!isValid
<1> QED
  BY <1>5, <1>6, <1>7, <1>8, <1>9, <1>10, <1>11 DEF IInv

-----------------------------------------------------------------------------
LEMMA ThreadKeeps ==
  ASSUME IInv, NEW t \in Thread,
         ThreadStep(t) \/ CheckFails(t) \/ ScriptFails(t) \/ Drop(t)
  PROVE  IInv'
<1> USE DEF dbVars, webVars, chainVars
<1>0. TypeOK'
  BY ThreadTypes DEF IInv
<1>1. CASE Load(t) \/ Check(t) \/ CheckFails(t)
  <2>1. receipt[t] = "none" /\ tpc[t] \in {"spawned", "check"}
    BY <1>1 DEF IInv, Receipts, Load, Check, CheckFails
  <2>2. \E pc \in {"check", "lock", "done"} : tpc' = [tpc EXCEPT ![t] = pc]
    BY <1>1 DEF Load, Check, CheckFails, Goto
  <2>3. UNCHANGED <<row, notified, job, receipt, lock, credentials,
                    revokedCredentials, admin>>
    BY <1>1 DEF Load, Check, CheckFails, Goto
  <2>4. Requests'
    BY <2>3 DEF IInv, Requests
  <2> QED
    BY <1>0, <2>1, <2>2, <2>3, <2>4, MoveStep
<1>2. CASE Acquire(t)
  BY <1>0, <1>2, AcquireStep
<1>3. CASE Send(t)
  <2>1. CASE CanExecute(t)
    BY <1>0, <1>3, <2>1, ReceiptStep DEF Send
  <2>2. CASE ~CanExecute(t)
    BY <1>0, <1>3, <2>2, ReleaseStep DEF Send, InScript
  <2> QED
    BY <2>1, <2>2
<1>4. CASE ScriptFails(t)
  BY <1>0, <1>4, ReleaseStep DEF ScriptFails
<1>5. CASE ScriptEnds(t)
  BY <1>0, <1>5, ReleaseStep DEF ScriptEnds, InScript
<1>6. CASE Drop(t)
  BY <1>0, <1>6, ReceiptStep DEF Drop
<1>7. CASE Record(t)
  <2>1. CASE Live(job[t].cred)
    BY <1>0, <1>7, <2>1, RecordStep
  <2>2. CASE ~Live(job[t].cred)
    <3>1. Requests'
      BY <1>7 DEF Record, IInv, Requests
    <3> QED
      BY <1>0, <1>7, <2>2, <3>1, MoveStep DEF Record, Goto, Ended
  <2> QED
    BY <2>1, <2>2
<1>8. CASE Notify(t)
  BY <1>0, <1>8, NotifyStep
<1> QED
  BY <1>1, <1>2, <1>3, <1>4, <1>5, <1>6, <1>7, <1>8 DEF ThreadStep

LEMMA MineKeeps ==
  ASSUME IInv, NEW t \in Thread, Mine(t)
  PROVE  IInv'
<1>0. TypeOK'
  BY MineTypes DEF IInv
<1>1. CASE receipt' = [receipt EXCEPT ![t] = "mined"] /\ Execute(t)
  BY <1>0, <1>1, MineWrite, MineRevoke DEF Execute
<1>2. CASE receipt' = [receipt EXCEPT ![t] = "reverted"] /\ UNCHANGED chainVars
  BY <1>0, <1>2, ReceiptStep DEF Mine
<1> QED
  BY <1>1, <1>2 DEF Mine

LEMMA WebKeeps ==
  ASSUME IInv, WebStep
  PROVE  IInv'
<1> USE DEF dbVars, webVars, chainVars
<1>0. TypeOK'
  BY WebTypes DEF IInv
<1>1. ASSUME NEW p \in Proc, NEW t \in Thread, NEW c \in Cred,
             NEW u \in User, NEW h \in Hash, Issue(u, h, p, c, t)
      PROVE  IInv'
  <2>1. RowsKept /\ row'[c].state # "unused"
    <3>1. /\ row[c] = NoRow
          /\ row' = [row EXCEPT ![c] = [NoRow EXCEPT !.state = "live", !.user = u,
                                                     !.hash = h]]
      BY <1>1 DEF Issue, IInv, Rows
    <3>2. /\ row'[c].state = "live" /\ row'[c].hash = h
          /\ row'[c].onchain_tx = None /\ row'[c].revoke_onchain_tx = None
          /\ \A d \in Cred \ {c} : row'[d] = row[d]
      BY <3>1 DEF NoRow, IInv, TypeOK
    <3>3. /\ row[c].state = "unused" /\ row[c].onchain_tx = None
          /\ row[c].revoke_onchain_tx = None
      BY <3>1 DEF NoRow
    <3> QED
      BY <3>2, <3>3 DEF RowsKept, IInv, Rows
  <2>2. Requests'
    BY <1>1 DEF Issue, IInv, Requests
  <2> QED
    BY <1>0, <1>1, <2>1, <2>2, TableStep DEF Issue, Spawn
<1>2. ASSUME NEW p \in Proc, NEW t \in Thread, NEW c \in Cred, Reissue(c, p, t)
      PROVE  IInv'
  <2>1. RowsKept /\ row'[c].state # "unused"
    BY <1>2 DEF Reissue, Live, RowsKept, IInv, Rows
  <2>2. Requests'
    BY <1>2 DEF Reissue, IInv, Requests
  <2> QED
    BY <1>0, <1>2, <2>1, <2>2, TableStep DEF Reissue, Spawn
<1>3. ASSUME NEW a \in Admin, NEW c \in Cred, NEW p \in Proc, OpenRevoke(a, c, p)
      PROVE  IInv'
  <2>1. Requests'
    BY <1>3 DEF OpenRevoke, IInv, TypeOK, Requests
  <2> QED
    BY <1>0, <1>3, <2>1, QuietStep DEF OpenRevoke, recordVars, threadVars
<1>4. ASSUME NEW a \in Admin, NEW t \in Thread, CommitRevoke(a, t)
      PROVE  IInv'
  <2> DEFINE c == admin[a].cred
  <2>1. c \in Cred /\ admin[a].proc \in Proc
    BY <1>4 DEF CommitRevoke, IInv, Requests
  <2>2. Requests'
    BY <1>4 DEF CommitRevoke, IInv, TypeOK, Requests
  <2>3. CASE Live(c)
    <3>1. row' = [row EXCEPT ![c].revoked_at = TRUE]
      BY <1>4, <2>3 DEF CommitRevoke
    <3>2. /\ \A d \in Cred \ {c} : row'[d] = row[d]
          /\ row'[c].state = row[c].state /\ row'[c].hash = row[c].hash
          /\ row'[c].onchain_tx = row[c].onchain_tx
          /\ row'[c].revoke_onchain_tx = row[c].revoke_onchain_tx
          /\ row'[c].revoked_at /\ row[c].state = "live"
      BY <2>1, <2>3, <3>1 DEF IInv, TypeOK, Row, Live
    <3>3. RowsKept
      BY <2>1, <3>2 DEF RowsKept, IInv, Rows
    <3> QED
      BY <1>0, <1>4, <2>1, <2>2, <2>3, <3>2, <3>3, TableStep
         DEF CommitRevoke, Spawn
  <2>4. CASE ~Live(c)
    BY <1>0, <1>4, <2>2, <2>4, QuietStep
       DEF CommitRevoke, recordVars, threadVars
  <2> QED
    BY <2>3, <2>4
<1>5. ASSUME NEW u \in User, Erase(u)
      PROVE  IInv'
  <2>1. RowsKept
    <3>1. \A d \in Cred : /\ row'[d].hash = row[d].hash
                          /\ row'[d].revoked_at = row[d].revoked_at
                          /\ row'[d].onchain_tx = row[d].onchain_tx
                          /\ row'[d].revoke_onchain_tx = row[d].revoke_onchain_tx
                          /\ row'[d] # row[d] =>
                               row[d].user = u /\ row'[d].state = "erased"
      <4> SUFFICES ASSUME NEW d \in Cred
                   PROVE  /\ row'[d].hash = row[d].hash
                          /\ row'[d].revoked_at = row[d].revoked_at
                          /\ row'[d].onchain_tx = row[d].onchain_tx
                          /\ row'[d].revoke_onchain_tx = row[d].revoke_onchain_tx
                          /\ row'[d] # row[d] =>
                               row[d].user = u /\ row'[d].state = "erased"
        OBVIOUS
      <4>1. row[d] \in Row
        BY DEF IInv, TypeOK
      <4>2. CASE row[d].user = u
        <5>1. row'[d] = [row[d] EXCEPT !.state = "erased"]
          BY <1>5, <4>2 DEF Erase
        <5> QED
          BY <4>1, <4>2, <5>1 DEF Row
      <4>3. CASE row[d].user # u
        BY <1>5, <4>3 DEF Erase
      <4> QED
        BY <4>2, <4>3
    <3>2. None \notin User
      BY CredentialsAssumption
    <3>3. \A d \in Cred : row[d].user = u => row[d].state # "unused"
      BY <3>2 DEF IInv, Rows, NoRow
    <3> QED
      BY <3>1, <3>3 DEF RowsKept, IInv, Rows
  <2>2. Requests'
    BY <1>5 DEF Erase, IInv, Requests
  <2> QED
    BY <1>0, <1>5, <2>1, <2>2, TableStep DEF Erase, threadVars
<1>6. ASSUME NEW v \in Viewer,
             (\E c \in Cred : OpenPage(v, c)) \/ CheckValid(v) \/ RenderPage(v)
      PROVE  IInv'
  <2>1. Requests'
    BY <1>6 DEF OpenPage, CheckValid, RenderPage, IInv, Requests
  <2> QED
    BY <1>0, <1>6, <2>1, QuietStep
       DEF OpenPage, CheckValid, RenderPage, recordVars, threadVars
<1> QED
  BY <1>1, <1>2, <1>3, <1>4, <1>5, <1>6 DEF WebStep

LEMMA GovernanceKeeps ==
  ASSUME IInv, GovernanceStep
  PROVE  IInv'
<1>0. TypeOK'
  BY GovernanceTypes DEF IInv
<1>1. UNCHANGED recordVars /\ UNCHANGED admin
  BY DEF GovernanceStep, AccreditIssuer, RevokeIssuer, TransferToSafe,
     SafeAccepts, Chain!accreditIssuer, Chain!revokeIssuer,
     Chain!transferOwnership, Chain!acceptOwnership, Chain!slotVars,
     recordVars, dbVars, threadVars, webVars
<1>2. Requests'
  BY <1>1 DEF IInv, Requests
<1> QED
  BY <1>0, <1>1, <1>2, QuietStep

LEMMA NextIInv == IInv /\ [Next]_vars => IInv'
<1> SUFFICES ASSUME IInv, [Next]_vars PROVE IInv'
  OBVIOUS
<1>1. ASSUME NEW t \in Thread, ThreadStep(t) \/ Mine(t)
      PROVE  IInv'
  BY <1>1, ThreadKeeps, MineKeeps
<1>2. CASE FaultStep
  <2>1. ASSUME NEW p \in Proc, Crash(p)
        PROVE  IInv'
    BY <2>1, CrashTypes, CrashStep DEF IInv
  <2> QED
    BY <1>2, <2>1, ThreadKeeps DEF FaultStep
<1>3. CASE UNCHANGED vars
  <2>1. TypeOK'
    BY <1>3 DEF IInv, TypeOK, Chain!RegistryTypeOK, vars
  <2>2. Requests' /\ UNCHANGED recordVars
    BY <1>3 DEF IInv, Requests, recordVars, vars
  <2> QED
    BY <2>1, <2>2, QuietStep
<1> QED
  BY <1>1, <1>2, <1>3, WebKeeps, GovernanceKeeps DEF Next

LEMMA Invariance == Spec => []IInv
  BY InitIInv, NextIInv, PTL DEF Spec

-----------------------------------------------------------------------------
(* The properties *)

\* Every variable keeps its type, whatever threads, requests and faults do.
THEOREM TypeCorrect == Spec => []TypeOK
<1>1. IInv => TypeOK
  BY DEF IInv
<1> QED
  BY <1>1, Invariance, PTL

\* A tx hash in the table is that of the row's own mined transaction, and the
\* chain agrees with it (what _write_onchain_tx_for_credential_async records).
THEOREM Backed == Spec => []ConfirmationsAreBacked
<1>1. IInv => ConfirmationsAreBacked
  <2> SUFFICES ASSUME IInv, NEW c \in Cred
               PROVE  /\ LET t == row[c].onchain_tx IN
                           t # None => /\ Registered(row[c].hash)
                                       /\ receipt[t] = "mined" /\ job[t].cred = c
                      /\ LET t == row[c].revoke_onchain_tx IN
                           t # None => /\ Registered(row[c].hash)
                                       /\ ~Valid(row[c].hash)
                                       /\ receipt[t] = "mined" /\ job[t].cred = c
    BY DEF ConfirmationsAreBacked
  <2>1. row[c].onchain_tx \in Thread \cup {None}
        /\ row[c].revoke_onchain_tx \in Thread \cup {None}
    BY DEF IInv, TypeOK, Row
  <2> QED
    BY <2>1 DEF IInv, Rows, Receipts, Doc
<1> QED
  BY <1>1, Invariance, PTL

\* However many rows, threads and late transactions share a document, one row
\* is confirmed for it and its owner is told once.
THEOREM ConfirmedOnce == Spec => []OneConfirmationPerDocument
<1>1. IInv => OneConfirmationPerDocument
  <2> SUFFICES ASSUME IInv, NEW c \in Cred, NEW d \in Cred
               PROVE  /\ notified[c] <= 1
                      /\ notified[c] = 1 => row[c].onchain_tx # None
                      /\ row[c].onchain_tx # None /\ row[d].onchain_tx # None
                           /\ row[c].hash = row[d].hash => c = d
    BY DEF OneConfirmationPerDocument
  <2>1. /\ row[c].onchain_tx \in Thread \cup {None}
        /\ row[d].onchain_tx \in Thread \cup {None}
        /\ notified[c] \in Nat
    BY DEF IInv, TypeOK, Row
  <2>2. notified[c] <= 1 /\ (notified[c] = 1 => row[c].onchain_tx # None)
    BY <2>1 DEF IInv, Rows
  <2>3. ASSUME row[c].onchain_tx # None, row[d].onchain_tx # None,
               row[c].hash = row[d].hash
        PROVE  c = d
    BY <2>1, <2>3 DEF IInv, Rows, OneMinedWrite, Doc
  <2> QED
    BY <2>2, <2>3
<1> QED
  BY <1>1, Invariance, PTL

\* A document is revoked on chain only after an administrator's request
\* committed revoked_at on a row that holds it.
THEOREM OnlyAdminsRevoke == Spec => []RevokedByAdmin
<1>1. IInv => RevokedByAdmin
  BY DEF IInv
<1> QED
  BY <1>1, Invariance, PTL

\* Mutual exclusion of the scripts of one worker process, and no lock that is
\* held by nobody (with _ONCHAIN_WRITE_LOCK).
THEOREM MutualExclusion == Spec => []OneWriterPerProcess
<1>1. IInv => OneWriterPerProcess
  <2> SUFFICES ASSUME IInv, NEW t \in Thread
               PROVE  tpc[t] \in InScript <=>
                        \E p \in Proc : lock[p] = t /\ job[t].proc = p
    BY DEF OneWriterPerProcess
  <2>1. ASSUME tpc[t] \in InScript
        PROVE  \E p \in Proc : lock[p] = t /\ job[t].proc = p
    BY <2>1 DEF IInv, Jobs, Locks, InScript
  <2>2. ASSUME NEW p \in Proc, lock[p] = t
        PROVE  tpc[t] \in InScript
    BY <2>2, CredentialsAssumption DEF IInv, Locks
  <2> QED
    BY <2>1, <2>2
<1> QED
  BY <1>1, Invariance, PTL

-----------------------------------------------------------------------------
(* The verification pages *)

\* A row keeps its document, and the contract keeps a registration.
Kept ==
  /\ \A c \in Cred : row[c].state # "unused" =>
       row'[c].state # "unused" /\ row'[c].hash = row[c].hash
  /\ \A h \in Hash : Registered(h) => credentials'[<<Issuer, h>>] # 0

\* A page that is being made is of a row, and the chain's "true" stays so.
PagesInv ==
  \A v \in Viewer : viewer[v].pc # "idle" =>
    /\ viewer[v].cred \in Cred /\ row[viewer[v].cred].state # "unused"
    /\ viewer[v].page = "none"
    /\ viewer[v].pc = "rendering" /\ viewer[v].chain = "true" =>
         Registered(row[viewer[v].cred].hash)

LEMMA TableKept ==
  ASSUME IInv, credentials' = credentials,
         \A c \in Cred : \/ row'[c] = row[c]
                         \/ row[c].state = "unused"
                         \/ row'[c].state # "unused" /\ row'[c].hash = row[c].hash
  PROVE  Kept
BY DEF Kept, Registered, Chain!isRegistered

LEMMA ExecuteKeeps ==
  ASSUME IInv, row' = row, NEW i \in Address,
         \/ \E h \in Hash : Chain!registerCredential(i, h)
         \/ \E s \in Address, h \in Hash : Chain!revokeCredential(s, i, h)
  PROVE  Kept
<1>1. ASSUME NEW h \in Hash, Registered(h) PROVE credentials'[<<Issuer, h>>] # 0
  <2>1. CASE credentials' = credentials
    BY <1>1, <2>1 DEF Registered, Chain!isRegistered
  <2>2. ASSUME NEW g \in Hash, Chain!registerCredential(i, g)
        PROVE  credentials'[<<Issuer, h>>] # 0
    <3>1. credentials \in [Chain!Key -> Nat] /\ <<Issuer, h>> \in Chain!Key
      BY CredentialsAssumption DEF IInv, TypeOK, Chain!RegistryTypeOK, Chain!Key,
         Chain!Account, Chain!Bytes32
    <3>2. credentials' = [credentials EXCEPT ![<<i, g>>] = 1]
      BY <2>2 DEF Chain!registerCredential
    <3> QED
      BY <1>1, <3>1, <3>2 DEF Registered, Chain!isRegistered
  <2> QED
    BY <2>1, <2>2 DEF Chain!revokeCredential
<1> QED
  BY <1>1 DEF Kept

LEMMA PagesStay ==
  ASSUME IInv, PagesInv, Kept, viewer' = viewer
  PROVE  PagesInv'
<1>1. ASSUME NEW v \in Viewer, viewer[v].pc # "idle"
      PROVE  row[viewer[v].cred].hash \in Hash
  BY <1>1 DEF PagesInv, IInv, Rows
<1> QED
  BY <1>1 DEF PagesInv, Kept, Registered, Chain!isRegistered

\* Threads, faults and governance leave the pages alone.
LEMMA OthersKeepPages ==
  ASSUME IInv, PagesInv,
         \/ \E t \in Thread : ThreadStep(t) \/ Mine(t)
         \/ FaultStep
         \/ GovernanceStep
  PROVE  viewer' = viewer /\ PagesInv'
<1>1. ASSUME NEW t \in Thread, ThreadStep(t)
      PROVE  viewer' = viewer /\ Kept
  <2>1. CASE Record(t)
    <3>1. /\ UNCHANGED <<viewer, credentials>>
          /\ \/ row' = row
             \/ row' = [row EXCEPT ![job[t].cred].onchain_tx = t]
             \/ row' = [row EXCEPT ![job[t].cred].revoke_onchain_tx = t]
      BY <2>1 DEF Record, chainVars, webVars
    <3>2. row \in [Cred -> Row]
      BY DEF IInv, TypeOK
    <3>3. \A c \in Cred : row'[c].state = row[c].state /\ row'[c].hash = row[c].hash
      BY <3>1, <3>2 DEF Row
    <3> QED
      BY <3>1, <3>3, TableKept
  <2>2. CASE ~Record(t)
    <3>1. UNCHANGED <<row, viewer, credentials>>
      BY <1>1, <2>2 DEF ThreadStep, Load, Check, Acquire, Send, ScriptEnds, Notify, dbVars,
         chainVars, webVars
    <3> QED
      BY <3>1, TableKept
  <2> QED
    BY <2>1, <2>2
<1>2. ASSUME NEW t \in Thread, Mine(t)
      PROVE  viewer' = viewer /\ Kept
  <2>1. row' = row /\ viewer' = viewer
    BY <1>2 DEF Mine, dbVars, webVars
  <2>2. CASE credentials' = credentials
    BY <2>1, <2>2, TableKept
  <2>3. CASE Execute(t)
    <3>1. Doc(t) \in Hash /\ Issuer \in Address /\ Deployer \in Address
      BY <1>2, CredentialsAssumption DEF Mine, IInv, Receipts, Jobs, Rows, Doc
    <3> QED
      BY <2>1, <2>3, <3>1, ExecuteKeeps DEF Execute
  <2> QED
    BY <1>2, <2>2, <2>3 DEF Mine, chainVars
<1>3. CASE FaultStep \/ GovernanceStep
  <2>1. UNCHANGED <<row, viewer, credentials>>
    BY <1>3 DEF FaultStep, CheckFails, ScriptFails, Drop, Crash, GovernanceStep,
       AccreditIssuer, RevokeIssuer, TransferToSafe, SafeAccepts, Chain!accreditIssuer,
       Chain!revokeIssuer, Chain!transferOwnership, Chain!acceptOwnership, Chain!slotVars,
       dbVars, chainVars, webVars
  <2> QED
    BY <2>1, TableKept, PagesStay
<1> QED
  BY <1>1, <1>2, <1>3, PagesStay

\* So do the requests that write.
LEMMA RequestsKeepPages ==
  ASSUME IInv, PagesInv,
         \/ \E p \in Proc, t \in Thread, c \in Cred :
              \/ \E u \in User, h \in Hash : Issue(u, h, p, c, t)
              \/ Reissue(c, p, t)
         \/ \E a \in Admin :
              \/ \E c \in Cred, p \in Proc : OpenRevoke(a, c, p)
              \/ \E t \in Thread : CommitRevoke(a, t)
         \/ \E u \in User : Erase(u)
  PROVE  viewer' = viewer /\ PagesInv'
<1>r. row \in [Cred -> Row]
  BY DEF IInv, TypeOK
<1>1. viewer' = viewer /\ credentials' = credentials
  BY DEF Issue, Reissue, OpenRevoke, CommitRevoke, Erase, chainVars, webVars
<1>2. \A c \in Cred : \/ row'[c] = row[c]
                      \/ row[c].state = "unused"
                      \/ row'[c].state # "unused" /\ row'[c].hash = row[c].hash
  <2>1. ASSUME NEW u \in User, NEW h \in Hash, NEW p \in Proc, NEW c \in Cred,
               NEW t \in Thread, Issue(u, h, p, c, t)
        PROVE  row[c].state = "unused" /\ \A d \in Cred : d # c => row'[d] = row[d]
    BY <1>r, <2>1 DEF Issue
  <2>2. ASSUME NEW a \in Admin, NEW t \in Thread, CommitRevoke(a, t)
        PROVE  \A c \in Cred : row'[c].state = row[c].state /\ row'[c].hash = row[c].hash
    <3>1. row' = row \/ row' = [row EXCEPT ![admin[a].cred].revoked_at = TRUE]
      BY <2>2 DEF CommitRevoke
    <3> QED
      BY <1>r, <3>1 DEF Row
  <2>3. ASSUME NEW u \in User, Erase(u), NEW c \in Cred, row[c].state # "unused"
        PROVE  row'[c].state # "unused" /\ row'[c].hash = row[c].hash
    <3>1. row'[c] = row[c] \/ row'[c] = [row[c] EXCEPT !.state = "erased"]
      BY <2>3 DEF Erase
    <3>2. row[c] \in Row
      BY <1>r
    <3> QED
      BY <2>3, <3>1, <3>2 DEF Row
  <2>4. ASSUME NEW p \in Proc, NEW t \in Thread, NEW c \in Cred, Reissue(c, p, t)
        PROVE  row' = row
    BY <2>4 DEF Reissue, dbVars
  <2>5. ASSUME NEW a \in Admin, NEW c \in Cred, NEW p \in Proc, OpenRevoke(a, c, p)
        PROVE  row' = row
    BY <2>5 DEF OpenRevoke, dbVars
  <2>6. CASE \A c \in Cred : row'[c].state = row[c].state /\ row'[c].hash = row[c].hash
    BY <2>6
  <2> QED
    BY <2>1, <2>2, <2>3, <2>4, <2>5, <2>6
<1> QED
  BY <1>1, <1>2, TableKept, PagesStay

\* One page goes on.
LEMMA PageKeeps ==
  ASSUME IInv, PagesInv, NEW v \in Viewer,
         (\E c \in Cred : OpenPage(v, c)) \/ CheckValid(v) \/ RenderPage(v)
  PROVE  /\ PagesInv'
         /\ \A w \in Viewer : w # v => viewer'[w] = viewer[w]
<1>v. viewer \in [Viewer -> Page]
  BY DEF IInv, TypeOK
<1>1. /\ UNCHANGED <<row, credentials>>
      /\ \A w \in Viewer : w # v => viewer'[w] = viewer[w]
  BY <1>v DEF OpenPage, CheckValid, RenderPage, chainVars, dbVars
<1>2. \/ viewer'[v].pc = "idle"
      \/ /\ viewer'[v].cred \in Cred /\ row[viewer'[v].cred].state # "unused"
         /\ viewer'[v].page = "none"
         /\ viewer'[v].pc = "rendering" /\ viewer'[v].chain = "true" =>
              Registered(row[viewer'[v].cred].hash)
  <2>1. ASSUME NEW c \in Cred, OpenPage(v, c)
        PROVE  /\ viewer'[v].cred = c /\ row[c].state # "unused"
               /\ viewer'[v].page = "none" /\ viewer'[v].pc = "checking"
    BY <1>v, <2>1 DEF OpenPage, Live, NoPage
  <2>2. CASE CheckValid(v)
    <3>1. viewer[v].pc = "checking" /\ viewer[v] \in Page
      BY <1>v, <2>2 DEF CheckValid
    <3>2. \E ch \in {"true", "false", "none"} :
            /\ viewer'[v] = [viewer[v] EXCEPT !.pc = "rendering", !.chain = ch]
            /\ ch = "true" => Valid(row[viewer[v].cred].hash)
      BY <1>v, <2>2 DEF CheckValid
    <3>3. /\ viewer'[v].cred = viewer[v].cred /\ viewer'[v].page = viewer[v].page
          /\ viewer'[v].chain = "true" => Valid(row[viewer[v].cred].hash)
      BY <3>1, <3>2 DEF Page
    <3> QED
      BY <3>1, <3>3 DEF PagesInv, Valid, Registered, Chain!isValid, Chain!isRegistered
  <2>3. CASE RenderPage(v)
    <3>1. viewer'[v] = [viewer[v] EXCEPT !.pc = "idle",
                          !.page = PageOf(viewer[v].cred, viewer[v].chain)]
          /\ viewer[v] \in Page
      BY <1>v, <2>3 DEF RenderPage
    <3> QED
      BY <3>1 DEF Page
  <2> QED
    BY <2>1, <2>2, <2>3
<1>3. ASSUME NEW w \in Viewer, viewer'[w].pc # "idle"
      PROVE  /\ viewer'[w].cred \in Cred /\ row[viewer'[w].cred].state # "unused"
             /\ viewer'[w].page = "none"
             /\ viewer'[w].pc = "rendering" /\ viewer'[w].chain = "true" =>
                  Registered(row[viewer'[w].cred].hash)
  <2>1. CASE w = v
    BY <1>2, <1>3, <2>1
  <2>2. CASE w # v
    BY <1>1, <1>3, <2>2 DEF PagesInv
  <2> QED
    BY <2>1, <2>2
<1> QED
  BY <1>1, <1>3 DEF PagesInv, Registered, Chain!isRegistered

LEMMA PagesInvAlways == Spec => []PagesInv
<1>1. Init => PagesInv
  BY DEF Init, PagesInv, NoPage
<1>2. ASSUME IInv, PagesInv, [Next]_vars
      PROVE  PagesInv'
  <2>1. CASE UNCHANGED vars
    BY <1>2, <2>1, TableKept, PagesStay DEF vars
  <2> QED
    BY <1>2, <2>1, OthersKeepPages, RequestsKeepPages, PageKeeps DEF Next, WebStep
<1> QED
  BY <1>1, <1>2, Invariance, PTL DEF Spec

\* What a step may show as valid.
SoundPage(v) ==
  viewer[v].pc = "rendering" /\ viewer'[v].page = "valid" =>
    /\ Live(viewer[v].cred)
    /\ ~row[viewer[v].cred].revoked_at
    /\ Registered(row[viewer[v].cred].hash)

LEMMA StepShowsSound ==
  ASSUME IInv, PagesInv, Next, NEW v \in Viewer
  PROVE  SoundPage(v)
<1>1. CASE viewer'[v] = viewer[v]
  BY <1>1 DEF SoundPage, PagesInv
<1>2. CASE CheckValid(v) \/ \E c \in Cred : OpenPage(v, c)
  BY <1>2 DEF SoundPage, CheckValid, OpenPage
<1>3. CASE RenderPage(v)
  <2>1. viewer \in [Viewer -> Page] /\ viewer[v] \in Page
    BY DEF IInv, TypeOK
  <2>2. viewer'[v].page = PageOf(viewer[v].cred, viewer[v].chain)
    BY <1>3, <2>1 DEF RenderPage, Page
  <2> QED
    BY <1>3, <2>2 DEF SoundPage, PageOf, RenderPage, PagesInv
<1>4. ASSUME NEW w \in Viewer, w # v,
             (\E c \in Cred : OpenPage(w, c)) \/ CheckValid(w) \/ RenderPage(w)
      PROVE  viewer'[v] = viewer[v]
  BY <1>4, PageKeeps
<1> QED
  BY <1>1, <1>2, <1>3, <1>4, OthersKeepPages, RequestsKeepPages DEF Next, WebStep

\* verify, verify_by_id and templates/verify.html: "valid" is shown only for a
\* row that is there and not revoked as the page is rendered, and whose
\* document is registered, whatever happened since the chain was asked.
THEOREM PagesAreSound == Spec => PageIsSound
<1>1. ASSUME IInv, PagesInv, [Next]_vars
      PROVE  [\A v \in Viewer : SoundPage(v)]_vars
  BY <1>1, StepShowsSound
<1>2. Spec => [][\A v \in Viewer : SoundPage(v)]_vars
  BY <1>1, Invariance, PagesInvAlways, PTL DEF Spec
<1> QED
  BY <1>2 DEF PageIsSound, SoundPage
=============================================================================
