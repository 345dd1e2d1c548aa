--------------------------- MODULE SessionsProofs ---------------------------
(***************************************************************************)
(* Proofs about Sessions, for any number of sign-ins, one-time codes,      *)
(* processes and requests, with Redis and without it.                      *)
(***************************************************************************)
EXTENDS Sessions, FiniteSetTheorems, TLAPS

-----------------------------------------------------------------------------
(* The inductive invariant *)

AnyRequest == {Idle} \cup Asking \cup Sending \cup Started \cup Checked \cup Revoking

\* What a request under way may rely on about the codes it has read.
RequestOk(r) ==
  /\ r.op = "begun" /\ r.way # "password" => r.code \in Code
  /\ r.op = "matched" => r.code \in Code /\ code[r.code] # None
  /\ r.op = "sending" =>
       \A d \in r.seen : code[d] # None /\ (code[d].purpose = r.purpose => code[d].used)

\* A spent code is used, and of one purpose one code is good.
CodesInv ==
  /\ CodeIsSpentOnce
  /\ \A c \in Code : spent[c] # 0 => code[c] # None /\ code[c].used
  /\ \A t \in Thread : RequestOk(thread[t])
  /\ \A purpose \in Purpose : \A c, d \in Code \ raced :
       Unspent(c, purpose) /\ Unspent(d, purpose) => c = d

\* A session that outlives a sign-out slipped through it, and a revoked one
\* is in the blocklist.
SignInOk(s) ==
  /\ session[s].row = "gone" /\ session[s].channel = "app" => s \in slipped
  /\ session[s].row = "live" /\ session[s].epoch < signedOut => s \in slipped
  /\ session[s].row = "revoked" /\ session[s].channel = "app" /\ redis
       => s \in blocklist[Redis]

SignInsInv ==
  /\ signedOut <= epoch
  /\ \A t \in Thread : thread[t].op = "revoking" => thread[t].epoch <= epoch
  /\ \A s \in Session : Exists(s) => SignInOk(s)

SessionsInv == TypeOK /\ CodesInv /\ SignInsInv /\ AttemptsAreBounded

-----------------------------------------------------------------------------
(* Types *)

LEMMA RequestFields ==
  ASSUME NEW r \in AnyRequest
  PROVE  /\ r.op = "sending" => r.purpose \in Purpose /\ r.seen \subseteq Code /\ r.at \in Proc
         /\ r.op = "asking" => r.way \in Purpose /\ r.at \in Proc
         /\ r.op \in {"begun", "matched"} =>
              /\ r.way \in Way /\ r.channel \in Channel
              /\ r.code \in Code \cup {None} /\ r.at \in Proc
         /\ r.op \in {"creating", "checked"} =>
              r.channel \in Channel /\ r.epoch \in Epoch /\ r.at \in Proc
         /\ r.op = "revoking" => r.epoch \in Epoch /\ r.at \in Proc
BY DEF AnyRequest, Idle, Asking, Sending, Started, Checked, Revoking

LEMMA IdleTyped == Idle \in AnyRequest /\ Idle.op = "idle"
BY DEF AnyRequest, Idle

LEMMA ThreadTyped ==
  ASSUME TypeOK, NEW t \in Thread, NEW r \in AnyRequest, Become(t, r)
  PROVE  /\ thread' \in [Thread -> AnyRequest]
         /\ \A u \in Thread : thread'[u] = IF u = t THEN r ELSE thread[u]
BY DEF TypeOK, AnyRequest, Become

LEMMA StoresTyped ==
  ASSUME TypeOK, NEW p \in Proc
  PROVE  StoreOf(p) \in Store
BY DEF StoreOf, Store

LEMMA Recorded ==
  ASSUME TypeOK, NEW key \in Key, NEW p \in Proc, RecordAttempt(key, p)
  PROVE  /\ attempts' \in [Key -> [Store -> Nat]]
         /\ \A k \in Key, x \in Store :
              attempts'[k][x] = IF k = key /\ x = StoreOf(p) THEN attempts[k][x] + 1
                                ELSE attempts[k][x]
<1>1. attempts \in [Key -> [Store -> Nat]] /\ StoreOf(p) \in Store
  BY StoresTyped DEF TypeOK
<1>2. attempts' = [attempts EXCEPT ![key] = [attempts[key] EXCEPT ![StoreOf(p)] = @ + 1]]
  BY <1>1 DEF RecordAttempt
<1>3. attempts[key] \in [Store -> Nat]
  BY <1>1
<1> DEFINE f == [attempts[key] EXCEPT ![StoreOf(p)] = @ + 1]
<1>5. /\ f \in [Store -> Nat]
      /\ \A x \in Store : f[x] = IF x = StoreOf(p) THEN attempts[key][x] + 1 ELSE attempts[key][x]
  BY <1>1, <1>3
<1>6. attempts' = [attempts EXCEPT ![key] = f]
  BY <1>2
<1> HIDE DEF f
<1> QED
  BY <1>1, <1>5, <1>6

-----------------------------------------------------------------------------
(* The parts, where an action leaves them alone or adds to them *)

\* Codes keep their purpose, and used codes stay used.
CodesGrow ==
  /\ \A c \in Code : /\ code[c] = None <=> code'[c] = None
                     /\ code[c] # None => /\ code'[c].purpose = code[c].purpose
                                          /\ code[c].used => code'[c].used
  /\ raced \subseteq raced'
  /\ \A c \in Code : /\ spent'[c] # 0 => spent[c] # 0 \/ (code'[c] # None /\ code'[c].used)
                     /\ spent'[c] > 1 => spent[c] > 1 \/ c \in raced'

LEMMA CodesKept ==
  ASSUME SessionsInv, CodesGrow, code' \in [Code -> CodeRow \cup {None}],
         \A u \in Thread : thread'[u] = thread[u] \/ RequestOk(thread[u])'
  PROVE  CodesInv'
<1>1. code \in [Code -> CodeRow \cup {None}] /\ thread \in [Thread -> AnyRequest]
  BY DEF SessionsInv, TypeOK, AnyRequest
<1>2. \A c \in Code : /\ code[c] # None => code[c].used \in BOOLEAN
                      /\ code'[c] # None => code'[c].used \in BOOLEAN
  BY <1>1 DEF CodeRow
<1>3. \A u \in Thread : RequestOk(thread[u])'
  <2>1. ASSUME NEW u \in Thread, thread'[u] = thread[u] PROVE RequestOk(thread[u])'
    <3>1. thread[u].op = "sending" => thread[u].seen \subseteq Code
      BY <1>1, RequestFields
    <3> QED
      BY <2>1, <3>1 DEF SessionsInv, CodesInv, CodesGrow, RequestOk
  <2> QED
    BY <2>1
<1>4. \A c \in Code, purpose \in Purpose : Unspent(c, purpose)' => Unspent(c, purpose)
  BY <1>2 DEF CodesGrow, Unspent
<1>5. \A purpose \in Purpose : \A c, d \in Code \ raced' :
        Unspent(c, purpose)' /\ Unspent(d, purpose)' => c = d
  BY <1>4 DEF SessionsInv, CodesInv, CodesGrow
<1>6. \A c \in Code : spent'[c] # 0 => code'[c] # None /\ code'[c].used
  BY DEF SessionsInv, CodesInv, CodesGrow
<1>7. CodeIsSpentOnce'
  BY DEF SessionsInv, CodesInv, CodesGrow, CodeIsSpentOnce
<1> QED
  BY <1>3, <1>5, <1>6, <1>7 DEF CodesInv

LEMMA SignInsKept ==
  ASSUME SessionsInv, UNCHANGED <<redis, session, signedOut>>,
         epoch' \in Epoch, epoch <= epoch',
         slipped \subseteq slipped', blocklist[Redis] \subseteq blocklist'[Redis],
         \A u \in Thread :
           thread'[u].op = "revoking" => thread'[u] = thread[u] \/ thread'[u].epoch <= epoch'
  PROVE  SignInsInv'
<1>1. epoch \in Nat /\ signedOut \in Nat
  BY DEF SessionsInv, TypeOK, Epoch
<1>2. \A u \in Thread : thread[u].op = "revoking" => thread[u].epoch \in Nat
  BY RequestFields DEF SessionsInv, TypeOK, AnyRequest, Epoch
<1>3. \A u \in Thread : thread'[u].op = "revoking" => thread'[u].epoch <= epoch'
  BY <1>1, <1>2 DEF SessionsInv, SignInsInv, Epoch
<1>4. signedOut' <= epoch'
  BY <1>1 DEF SessionsInv, SignInsInv, Epoch
<1>5. \A s \in Session : Exists(s)' => SignInOk(s)'
  BY DEF SessionsInv, SignInsInv, SignInOk, Exists
<1> QED
  BY <1>3, <1>4, <1>5 DEF SignInsInv

\* Requests that the limiter has let in and that have not told it yet.
Begun(k, x) ==
  {t \in Thread : thread[t].op \in LetIn /\ KeyOf(thread[t].way) = k
                  /\ StoreOf(thread[t].at) = x}

LEMMA BegunCount ==
  ASSUME NEW k \in Key, NEW x \in Store
  PROVE  /\ IsFiniteSet(Begun(k, x)) /\ Cardinality(Begun(k, x)) \in Nat
         /\ Cardinality(Begun(k, x)) <= Cardinality(Thread) /\ Cardinality(Thread) \in Nat
<1>1. Begun(k, x) \subseteq Thread
  BY DEF Begun
<1> QED
  BY <1>1, SessionsAssumption, FS_Subset, FS_CardinalityType

LEMMA AttemptsKept ==
  ASSUME SessionsInv, redis' = redis,
         attempts' \in [Key -> [Store -> Nat]],
         \A k \in Key, x \in Store : attempts'[k][x] <= attempts[k][x],
         \A u \in Thread : thread'[u].op \in LetIn => thread'[u] = thread[u]
  PROVE  AttemptsAreBounded'
<1>1. ASSUME NEW k \in Key, NEW x \in Store
      PROVE  attempts'[k][x] + Cardinality(Begun(k, x)') <= Limit + Cardinality(Thread) - 1
  <2>1. Begun(k, x)' \subseteq Begun(k, x)
    BY DEF Begun, StoreOf
  <2>2. Cardinality(Begun(k, x)') <= Cardinality(Begun(k, x)) /\ Cardinality(Begun(k, x)') \in Nat
    BY <2>1, BegunCount, FS_Subset, FS_CardinalityType
  <2>3. attempts[k][x] + Cardinality(Begun(k, x)) <= Limit + Cardinality(Thread) - 1
    BY DEF SessionsInv, AttemptsAreBounded, Begun
  <2>4. attempts[k][x] \in Nat /\ attempts'[k][x] \in Nat /\ attempts'[k][x] <= attempts[k][x]
    BY DEF SessionsInv, TypeOK
  <2> QED
    BY <2>2, <2>3, <2>4, BegunCount, SessionsAssumption
<1> QED
  BY <1>1 DEF AttemptsAreBounded, Begun

\* A request is let in: the limiter had counted fewer attempts than its limit.
LEMMA LimiterAsked ==
  ASSUME SessionsInv, UNCHANGED <<redis, attempts>>, NEW t \in Thread, NEW p \in Proc,
         NEW r \in AnyRequest, r.op \in LetIn, r.at = p, ~RateLimited(KeyOf(r.way), p),
         thread[t].op = "idle",
         \A u \in Thread : thread'[u] = IF u = t THEN r ELSE thread[u]
  PROVE  AttemptsAreBounded'
<1>1. ASSUME NEW k \in Key, NEW x \in Store
      PROVE  attempts'[k][x] + Cardinality(Begun(k, x)') <= Limit + Cardinality(Thread) - 1
  <2>1. attempts[k][x] \in Nat
    BY DEF SessionsInv, TypeOK
  <2>2. CASE k = KeyOf(r.way) /\ x = StoreOf(p)
    <3>1. attempts[k][x] < Limit
      BY <2>1, <2>2, SessionsAssumption DEF RateLimited
    <3>2. Begun(k, x)' \subseteq Thread
      BY DEF Begun
    <3>3. /\ Cardinality(Begun(k, x)') <= Cardinality(Thread)
          /\ Cardinality(Begun(k, x)') \in Nat /\ Cardinality(Thread) \in Nat
      BY <3>2, SessionsAssumption, FS_Subset, FS_CardinalityType
    <3> QED
      BY <2>1, <3>1, <3>3, SessionsAssumption
  <2>3. CASE ~(k = KeyOf(r.way) /\ x = StoreOf(p))
    <3>1. Begun(k, x)' = Begun(k, x)
      BY <2>3 DEF Begun, StoreOf, LetIn
    <3> QED
      BY <3>1 DEF SessionsInv, AttemptsAreBounded, Begun
  <2> QED
    BY <2>2, <2>3
<1> QED
  BY <1>1 DEF AttemptsAreBounded, Begun

\* A request that the limiter let in tells it.
LEMMA AttemptTold ==
  ASSUME SessionsInv, redis' = redis, NEW t \in Thread, thread[t].op \in LetIn,
         RecordAttempt(KeyOf(thread[t].way), thread[t].at),
         \A u \in Thread : u # t => thread'[u] = thread[u],
         thread'[t].op \notin LetIn
  PROVE  AttemptsAreBounded'
<1>1. thread[t].at \in Proc /\ KeyOf(thread[t].way) \in Key
  BY RequestFields DEF SessionsInv, TypeOK, AnyRequest, KeyOf, Key, LetIn
<1>2. ASSUME NEW k \in Key, NEW x \in Store
      PROVE  attempts'[k][x] + Cardinality(Begun(k, x)') <= Limit + Cardinality(Thread) - 1
  <2>1. attempts[k][x] + Cardinality(Begun(k, x)) <= Limit + Cardinality(Thread) - 1
    BY DEF SessionsInv, AttemptsAreBounded, Begun
  <2>2. attempts[k][x] \in Nat
    BY DEF SessionsInv, TypeOK
  <2>3. Begun(k, x)' = Begun(k, x) \ {t}
    BY DEF Begun, StoreOf
  <2>4. CASE t \in Begun(k, x)
    <3>1. Cardinality(Begun(k, x)') = Cardinality(Begun(k, x)) - 1
      BY <2>3, <2>4, BegunCount, FS_RemoveElement
    <3>2. attempts'[k][x] = attempts[k][x] + 1
      BY <1>1, <2>4, Recorded DEF SessionsInv, Begun
    <3> QED
      BY <2>1, <2>2, <3>1, <3>2, BegunCount, SessionsAssumption
  <2>5. CASE t \notin Begun(k, x)
    <3>1. Begun(k, x)' = Begun(k, x)
      BY <2>3, <2>5
    <3>2. attempts'[k][x] = attempts[k][x]
      BY <1>1, <2>5, Recorded DEF SessionsInv, Begun
    <3> QED
      BY <2>1, <3>1, <3>2
  <2> QED
    BY <2>4, <2>5
<1> QED
  BY <1>2 DEF AttemptsAreBounded, Begun

LEMMA OneMoreRequest ==
  ASSUME SessionsInv, Request
  PROVE  requests' \in 0 .. MaxRequests
BY SessionsAssumption DEF Request, SessionsInv, TypeOK

-----------------------------------------------------------------------------
(* Codes and the limiter *)

LEMMA Supersedes ==
  ASSUME TypeOK, NEW purpose \in Purpose, code' = Superseded(purpose)
  PROVE  /\ code' \in [Code -> CodeRow \cup {None}]
         /\ \A c \in Code : /\ code[c] = None <=> code'[c] = None
                            /\ code[c] # None => /\ code'[c].purpose = code[c].purpose
                                                 /\ code[c].used => code'[c].used
                                                 /\ code[c].purpose = purpose => code'[c].used
<1>1. code \in [Code -> CodeRow \cup {None}] /\ None \notin CodeRow
  BY NoneAssumption DEF TypeOK
<1>2. ASSUME NEW c \in Code, code[c] # None
      PROVE  LET r == [code[c] EXCEPT !.used = TRUE]
             IN  r \in CodeRow /\ r.purpose = code[c].purpose /\ r.used = TRUE
  <2>1. code[c] \in CodeRow
    BY <1>1, <1>2
  <2> QED
    BY <2>1 DEF CodeRow
<1>3. \A c \in Code : code'[c] = IF code[c] # None /\ code[c].purpose = purpose
                                 THEN [code[c] EXCEPT !.used = TRUE] ELSE code[c]
  BY DEF Superseded
<1>4. code' \in [Code -> CodeRow \cup {None}]
  BY <1>1, <1>2 DEF Superseded
<1> QED
  BY <1>1, <1>2, <1>3, <1>4

LEMMA AskForCodeKeeps ==
  ASSUME SessionsInv, NEW t \in Thread, NEW p \in Proc, NEW purpose \in Purpose,
         AskForCode(t, p, purpose)
  PROVE  SessionsInv'
<1>1. PICK r : r = [op |-> "asking", way |-> purpose, at |-> p]
  OBVIOUS
<1>2. r \in AnyRequest /\ r.op = "asking" /\ r.at = p /\ KeyOf(r.way) = "otp"
  BY <1>1 DEF AnyRequest, Asking, KeyOf, Purpose
<1>u. /\ ~RateLimited("otp", p) /\ Become(t, r) /\ thread[t].op = "idle"
      /\ UNCHANGED <<redis, account, history, session, blocklist, attempts, code, faults>>
  BY <1>1, IdleTyped DEF AskForCode
<1>3. /\ thread' \in [Thread -> AnyRequest]
      /\ \A u \in Thread : thread'[u] = IF u = t THEN r ELSE thread[u]
  BY <1>2, <1>u, ThreadTyped DEF SessionsInv
<1>4. requests' \in 0 .. MaxRequests
  BY OneMoreRequest DEF AskForCode
<1>5. TypeOK'
  BY <1>u, <1>3, <1>4 DEF SessionsInv, TypeOK, account, history, AnyRequest
<1>6. CodesInv'
  <2>1. CodesGrow
    BY <1>u DEF CodesGrow, history
  <2>2. \A u \in Thread : thread'[u] = thread[u] \/ RequestOk(thread[u])'
    BY <1>2, <1>3 DEF RequestOk
  <2> QED
    BY <1>u, <2>1, <2>2, CodesKept DEF SessionsInv, TypeOK
<1>7. SignInsInv'
  BY <1>u, <1>2, <1>3, SignInsKept DEF account, history, SessionsInv, TypeOK, Epoch
<1>8. AttemptsAreBounded'
  BY <1>2, <1>3, <1>u, LimiterAsked DEF LetIn
<1> QED
  BY <1>5, <1>6, <1>7, <1>8 DEF SessionsInv

LEMMA RequestCodeKeeps ==
  ASSUME SessionsInv, NEW t \in Thread, NEW purpose \in Purpose, NEW sent \in BOOLEAN,
         RequestCode(t, purpose, sent)
  PROVE  SessionsInv'
<1>0. /\ thread[t] \in AnyRequest /\ thread[t].op = "asking" /\ thread[t].at \in Proc
      /\ KeyOf(thread[t].way) = "otp"
  BY RequestFields DEF RequestCode, SessionsInv, TypeOK, AnyRequest, KeyOf, Purpose
<1>1. PICK seen : seen = {c \in Code : code[c] # None}
  OBVIOUS
<1>2. PICK r : r = IF sent THEN [op |-> "sending", purpose |-> purpose, at |-> thread[t].at,
                                 seen |-> seen] ELSE Idle
  OBVIOUS
<1>3. /\ r \in AnyRequest /\ r.op \in {"sending", "idle"}
      /\ r.op = "sending" => sent /\ r.seen = seen /\ r.purpose = purpose
  BY <1>0, <1>1, <1>2, IdleTyped DEF AnyRequest, Sending
<1>u. /\ RecordAttempt("otp", thread[t].at)
      /\ code' = IF sent THEN Superseded(purpose) ELSE code
      /\ Become(t, r)
      /\ UNCHANGED <<redis, account, history, session, blocklist, requests, faults>>
  BY <1>1, <1>2 DEF RequestCode
<1>4. /\ thread' \in [Thread -> AnyRequest]
      /\ \A u \in Thread : thread'[u] = IF u = t THEN r ELSE thread[u]
  BY <1>3, <1>u, ThreadTyped DEF SessionsInv
<1>5. /\ code' \in [Code -> CodeRow \cup {None}]
      /\ \A c \in Code : /\ code[c] = None <=> code'[c] = None
                         /\ code[c] # None =>
                              /\ code'[c].purpose = code[c].purpose
                              /\ code[c].used => code'[c].used
                              /\ sent /\ code[c].purpose = purpose => code'[c].used
  <2>1. CASE sent
    BY <1>u, <2>1, Supersedes DEF SessionsInv
  <2>2. CASE ~sent
    BY <1>u, <2>2 DEF SessionsInv, TypeOK
  <2> QED
    BY <2>1, <2>2
<1>6. attempts' \in [Key -> [Store -> Nat]]
  BY <1>0, <1>u, Recorded DEF SessionsInv, Key
<1>8. TypeOK'
  BY <1>u, <1>4, <1>5, <1>6 DEF SessionsInv, TypeOK, account, history, AnyRequest
<1>9. CodesInv'
  <2>1. CodesGrow
    BY <1>u, <1>5 DEF CodesGrow, history
  <2>2. RequestOk(r)'
    BY <1>1, <1>3, <1>5 DEF RequestOk
  <2>3. \A u \in Thread : thread'[u] = thread[u] \/ RequestOk(thread[u])'
    BY <1>4, <2>2 DEF RequestOk
  <2> QED
    BY <1>5, <2>1, <2>3, CodesKept
<1>10. SignInsInv'
  BY <1>u, <1>3, <1>4, SignInsKept DEF account, history, SessionsInv, TypeOK, Epoch
<1>11. AttemptsAreBounded'
  BY <1>0, <1>3, <1>4, <1>u, AttemptTold DEF LetIn
<1> QED
  BY <1>8, <1>9, <1>10, <1>11 DEF SessionsInv

LEMMA InsertCodeKeeps ==
  ASSUME SessionsInv, NEW t \in Thread, NEW c \in Code, InsertCode(t, c)
  PROVE  SessionsInv'
<1>1. /\ thread[t] \in AnyRequest /\ thread[t].op = "sending"
      /\ thread[t].purpose \in Purpose /\ thread[t].seen \subseteq Code
  BY RequestFields DEF InsertCode, SessionsInv, TypeOK, AnyRequest
<1>2. PICK row : row = [purpose |-> thread[t].purpose, used |-> FALSE]
  OBVIOUS
<1>3. row \in CodeRow /\ row # None /\ ~row.used /\ row.purpose = thread[t].purpose
  <2>1. row \in CodeRow
    BY <1>1, <1>2 DEF CodeRow
  <2> QED
    BY <1>2, <2>1, NoneAssumption
<1>u. /\ code[c] = None /\ code' = [code EXCEPT ![c] = row]
      /\ raced' = raced \cup {d \in Code \ thread[t].seen : Unspent(d, thread[t].purpose)}
      /\ Become(t, Idle)
      /\ UNCHANGED <<redis, account, signedOut, spent, slipped, session, blocklist,
                     attempts, requests, faults>>
  BY <1>2 DEF InsertCode
<1>4. /\ thread' \in [Thread -> AnyRequest]
      /\ \A u \in Thread : thread'[u] = IF u = t THEN Idle ELSE thread[u]
  BY <1>u, IdleTyped, ThreadTyped DEF SessionsInv
<1>5. /\ code' \in [Code -> CodeRow \cup {None}]
      /\ \A d \in Code : code'[d] = IF d = c THEN row ELSE code[d]
  BY <1>u, <1>3 DEF SessionsInv, TypeOK
<1>6. TypeOK'
  <2>1. raced' \subseteq Code
    BY <1>u DEF SessionsInv, TypeOK
  <2> QED
    BY <1>u, <1>4, <1>5, <2>1 DEF SessionsInv, TypeOK, account, AnyRequest
<1>7. CodesInv'
  <2>1. \A d \in Code : spent'[d] # 0 => code'[d] # None /\ code'[d].used
    BY <1>u, <1>5 DEF SessionsInv, CodesInv
  <2>2. ASSUME NEW u \in Thread PROVE RequestOk(thread[u])'
    <3>1. CASE u = t
      <4>1. thread'[u].op = "idle"
        BY <1>4, <3>1, IdleTyped
      <4> QED
        BY <4>1 DEF RequestOk
    <3>2. CASE u # t
      <4>1. thread'[u] = thread[u] /\ RequestOk(thread[u])
        BY <1>4, <3>2 DEF SessionsInv, CodesInv
      <4>2. thread[u].op = "sending" => thread[u].seen \subseteq Code
        BY RequestFields DEF SessionsInv, TypeOK, AnyRequest
      <4> QED
        BY <1>u, <1>3, <1>5, <4>1, <4>2 DEF RequestOk
    <3> QED
      BY <3>1, <3>2
  <2>3. ASSUME NEW purpose \in Purpose, NEW d \in Code \ raced', NEW e \in Code \ raced',
               Unspent(d, purpose)', Unspent(e, purpose)'
        PROVE  d = e
    <3>1. ASSUME NEW b \in Code \ raced', Unspent(b, purpose)', b # c
          PROVE  Unspent(b, purpose) /\ b \notin raced /\ purpose # thread[t].purpose
      <4>1. Unspent(b, purpose) /\ b \notin raced
        BY <1>u, <1>5, <3>1 DEF Unspent
      <4>2. CASE purpose = thread[t].purpose
        <5>1. b \in thread[t].seen
          BY <1>u, <3>1, <4>1, <4>2
        <5>2. code[b].used
          BY <1>1, <4>1, <4>2, <5>1 DEF SessionsInv, CodesInv, RequestOk, Unspent
        <5> QED
          BY <4>1, <5>2 DEF Unspent
      <4> QED
        BY <4>1, <4>2
    <3>2. Unspent(c, purpose)' => purpose = thread[t].purpose
      BY <1>3, <1>5 DEF Unspent
    <3>3. CASE d = c \/ e = c
      BY <2>3, <3>1, <3>2, <3>3
    <3>4. CASE d # c /\ e # c
      BY <2>3, <3>1, <3>4 DEF SessionsInv, CodesInv
    <3> QED
      BY <3>3, <3>4
  <2>4. CodeIsSpentOnce'
    BY <1>u DEF SessionsInv, CodesInv, CodeIsSpentOnce
  <2> QED
    BY <2>1, <2>2, <2>3, <2>4 DEF CodesInv
<1>8. SignInsInv'
  BY <1>u, <1>4, IdleTyped, SignInsKept DEF account, SessionsInv, TypeOK, Epoch
<1>9. AttemptsAreBounded'
  <2>1. \A k \in Key, x \in Store : attempts[k][x] <= attempts[k][x]
    BY DEF SessionsInv, TypeOK
  <2> QED
    BY <1>u, <1>4, <2>1, IdleTyped, AttemptsKept DEF SessionsInv, TypeOK, LetIn
<1> QED
  BY <1>6, <1>7, <1>8, <1>9 DEF SessionsInv

LEMMA WindowPassesKeeps ==
  ASSUME SessionsInv, WindowPasses
  PROVE  SessionsInv'
<1> USE DEF WindowPasses, account, history
<1>1. /\ attempts' \in [Key -> [Store -> Nat]]
      /\ \A k \in Key, x \in Store : attempts'[k][x] = 0 /\ attempts[k][x] \in Nat
  BY DEF SessionsInv, TypeOK
<1>2. TypeOK'
  BY <1>1 DEF SessionsInv, TypeOK
<1>3. CodesInv'
  BY DEF SessionsInv, CodesInv, CodeIsSpentOnce, RequestOk, Unspent
<1>4. SignInsInv'
  BY SignInsKept DEF SessionsInv, TypeOK, Epoch
<1>5. AttemptsAreBounded'
  BY <1>1, AttemptsKept DEF LetIn
<1> QED
  BY <1>2, <1>3, <1>4, <1>5 DEF SessionsInv

-----------------------------------------------------------------------------
(* Signing in *)

LEMMA BeginKeeps ==
  ASSUME SessionsInv, NEW t \in Thread, NEW p \in Proc, NEW way \in Way,
         NEW channel \in Channel, NEW c \in Code \cup {None},
         Begin(t, p, way, channel, c)
  PROVE  SessionsInv'
<1>1. PICK r : r = [op |-> "begun", way |-> way, channel |-> channel, code |-> c, at |-> p]
  OBVIOUS
<1>2. r \in AnyRequest /\ r.op = "begun" /\ r.way = way /\ r.code = c /\ r.at = p
  BY <1>1 DEF AnyRequest, Started
<1>u. /\ ~RateLimited(KeyOf(way), p) /\ Become(t, r) /\ thread[t].op = "idle"
      /\ (way = "password") <=> (c = None)
      /\ UNCHANGED <<redis, account, history, session, blocklist, attempts, code, faults>>
  BY <1>1, IdleTyped DEF Begin
<1>3. /\ thread' \in [Thread -> AnyRequest]
      /\ \A u \in Thread : thread'[u] = IF u = t THEN r ELSE thread[u]
  BY <1>2, <1>u, ThreadTyped DEF SessionsInv
<1>4. requests' \in 0 .. MaxRequests
  BY OneMoreRequest DEF Begin
<1>5. TypeOK'
  BY <1>u, <1>3, <1>4 DEF SessionsInv, TypeOK, account, history, AnyRequest
<1>6. CodesInv'
  <2>1. CodesGrow
    BY <1>u DEF CodesGrow, history
  <2>2. RequestOk(r)'
    BY <1>2, <1>u DEF RequestOk
  <2>3. \A u \in Thread : thread'[u] = thread[u] \/ RequestOk(thread[u])'
    BY <1>3, <2>2 DEF RequestOk
  <2> QED
    BY <1>u, <2>1, <2>3, CodesKept DEF SessionsInv, TypeOK
<1>7. SignInsInv'
  BY <1>u, <1>2, <1>3, SignInsKept DEF account, history, SessionsInv, TypeOK, Epoch
<1>8. AttemptsAreBounded'
  BY <1>2, <1>3, <1>u, LimiterAsked DEF LetIn
<1> QED
  BY <1>5, <1>6, <1>7, <1>8 DEF SessionsInv

\* A request that the limiter let in is answered, or goes on with its code.
LEMMA ToldKeeps ==
  ASSUME SessionsInv, NEW t \in Thread, thread[t].op = "begun",
         RecordAttempt(KeyOf(thread[t].way), thread[t].at),
         NEW r \in AnyRequest, Become(t, r), r.op \in {"idle", "checked", "matched"},
         code' \in [Code -> CodeRow \cup {None}], CodesGrow, RequestOk(r)',
         UNCHANGED <<redis, account, history, session, blocklist, requests, faults>>
  PROVE  SessionsInv'
<1>1. /\ thread' \in [Thread -> AnyRequest]
      /\ \A u \in Thread : thread'[u] = IF u = t THEN r ELSE thread[u]
  BY ThreadTyped DEF SessionsInv
<1>2. attempts' \in [Key -> [Store -> Nat]]
  <2>1. thread[t].at \in Proc /\ KeyOf(thread[t].way) \in Key
    BY RequestFields DEF SessionsInv, TypeOK, AnyRequest, KeyOf, Key
  <2> QED
    BY <2>1, Recorded DEF SessionsInv
<1>3. TypeOK'
  BY <1>1, <1>2 DEF SessionsInv, TypeOK, account, history, AnyRequest
<1>4. CodesInv'
  <2>1. \A u \in Thread : thread'[u] = thread[u] \/ RequestOk(thread[u])'
    BY <1>1 DEF RequestOk
  <2> QED
    BY <2>1, CodesKept
<1>5. SignInsInv'
  BY <1>1, SignInsKept DEF account, history, SessionsInv, TypeOK, Epoch
<1>6. AttemptsAreBounded'
  BY <1>1, AttemptTold DEF LetIn
<1> QED
  BY <1>3, <1>4, <1>5, <1>6 DEF SessionsInv

LEMMA CheckPasswordKeeps ==
  ASSUME SessionsInv, NEW t \in Thread, NEW channel \in Channel, CheckPassword(t, channel)
  PROVE  SessionsInv'
<1>1. /\ thread[t].op = "begun" /\ KeyOf(thread[t].way) = "login" /\ thread[t].at \in Proc
      /\ RecordAttempt("login", thread[t].at)
      /\ UNCHANGED <<redis, account, history, session, blocklist, code, requests, faults>>
  BY RequestFields DEF CheckPassword, KeyOf, SessionsInv, TypeOK, AnyRequest
<1>2. CodesGrow /\ code' \in [Code -> CodeRow \cup {None}]
  BY <1>1 DEF CodesGrow, history, SessionsInv, TypeOK
<1>3. PICK r : /\ Become(t, r)
               /\ \/ r = [op |-> "checked", channel |-> channel, epoch |-> epoch,
                          at |-> thread[t].at]
                  \/ r = Idle
  BY DEF CheckPassword
<1>4. r \in AnyRequest /\ r.op \in {"checked", "idle"}
  <2>1. epoch \in Epoch
    BY DEF SessionsInv, TypeOK
  <2>2. CASE r = [op |-> "checked", channel |-> channel, epoch |-> epoch, at |-> thread[t].at]
    BY <1>1, <2>1, <2>2 DEF AnyRequest, Checked
  <2> QED
    BY <1>3, <2>2, IdleTyped
<1>5. RequestOk(r)'
  BY <1>4 DEF RequestOk
<1> QED
  BY <1>1, <1>2, <1>3, <1>4, <1>5, ToldKeeps

LEMMA PeekCodeKeeps ==
  ASSUME SessionsInv, NEW t \in Thread, PeekCode(t)
  PROVE  SessionsInv'
<1>1. /\ thread[t].op = "begun" /\ KeyOf(thread[t].way) = "otp"
      /\ RecordAttempt("otp", thread[t].at) /\ Become(t, Idle)
      /\ UNCHANGED <<redis, account, history, session, blocklist, code, requests, faults>>
  BY DEF PeekCode, KeyOf
<1>2. CodesGrow /\ code' \in [Code -> CodeRow \cup {None}]
  BY <1>1 DEF CodesGrow, history, SessionsInv, TypeOK
<1>3. RequestOk(Idle)'
  BY IdleTyped DEF RequestOk
<1> QED
  BY <1>1, <1>2, <1>3, IdleTyped, ToldKeeps

\* A code that is there is marked used.
LEMMA Uses ==
  ASSUME TypeOK, NEW c \in Code, code[c] # None, code' = [code EXCEPT ![c].used = TRUE]
  PROVE  /\ code' \in [Code -> CodeRow \cup {None}]
         /\ \A d \in Code : /\ code[d] = None <=> code'[d] = None
                            /\ code[d] # None => /\ code'[d].purpose = code[d].purpose
                                                 /\ code[d].used => code'[d].used
         /\ code'[c] # None /\ code'[c].used
<1>1. code \in [Code -> CodeRow \cup {None}] /\ code[c] \in CodeRow /\ None \notin CodeRow
  BY NoneAssumption DEF TypeOK
<1>2. PICK r : r = [code[c] EXCEPT !.used = TRUE]
  OBVIOUS
<1>3. r \in CodeRow /\ r.purpose = code[c].purpose /\ r.used
  BY <1>1, <1>2 DEF CodeRow
<1>4. code' = [code EXCEPT ![c] = r]
  BY <1>1, <1>2
<1> QED
  BY <1>1, <1>3, <1>4

LEMMA ReadCodeKeeps ==
  ASSUME SessionsInv, NEW t \in Thread, ReadCode(t)
  PROVE  SessionsInv'
<1>1. PICK c : c = thread[t].code
  OBVIOUS
<1>2. /\ thread[t] \in AnyRequest /\ thread[t].op = "begun" /\ thread[t].way # "password"
      /\ KeyOf(thread[t].way) = "otp" /\ c \in Code
      /\ RecordAttempt("otp", thread[t].at)
      /\ UNCHANGED <<redis, account, history, session, blocklist, requests, faults>>
  BY <1>1 DEF ReadCode, KeyOf, SessionsInv, TypeOK, AnyRequest, CodesInv, RequestOk
<1>3. PICK r : /\ Become(t, r)
               /\ \/ r = Idle /\ UNCHANGED code
                  \/ r = Idle /\ code[c] # None /\ code' = [code EXCEPT ![c].used = TRUE]
                  \/ r = [thread[t] EXCEPT !.op = "matched"] /\ code[c] # None /\ UNCHANGED code
  BY <1>1 DEF ReadCode, Fits, Unspent
<1>4. /\ r \in AnyRequest
      /\ r.op = "idle" \/ (r.op = "matched" /\ r.code = c /\ code[c] # None /\ code' = code)
  <2>1. CASE r = Idle
    BY <2>1, IdleTyped
  <2>2. CASE r = [thread[t] EXCEPT !.op = "matched"] /\ code[c] # None /\ UNCHANGED code
    <3>1. thread[t] \in Started
      BY <1>2 DEF AnyRequest, Idle, Asking, Sending, Checked, Revoking
    <3>2. r \in Started /\ r.op = "matched" /\ r.code = c
      BY <1>1, <2>2, <3>1 DEF Started
    <3> QED
      BY <2>2, <3>2 DEF AnyRequest
  <2> QED
    BY <1>3, <2>1, <2>2
<1>5. CodesGrow /\ code' \in [Code -> CodeRow \cup {None}]
  <2>1. CASE UNCHANGED code
    BY <1>2, <2>1 DEF CodesGrow, history, SessionsInv, TypeOK
  <2>2. CASE code[c] # None /\ code' = [code EXCEPT ![c].used = TRUE]
    BY <1>2, <2>2, Uses DEF CodesGrow, history, SessionsInv
  <2> QED
    BY <1>3, <2>1, <2>2
<1>6. RequestOk(r)'
  BY <1>2, <1>4 DEF RequestOk
<1> QED
  BY <1>2, <1>3, <1>4, <1>5, <1>6, ToldKeeps

\* A code is spent, and what follows is neither about codes nor limited.
LEMMA SpendKeeps ==
  ASSUME SessionsInv, NEW t \in Thread, NEW way \in Purpose, SpendCode(t, way),
         NEW r \in AnyRequest, Become(t, r),
         r.op \in {"idle", "checked", "creating", "revoking"},
         r.op = "revoking" => r.epoch <= epoch', epoch' \in Epoch, epoch <= epoch',
         UNCHANGED <<redis, registered, active, erased, signedOut, slipped, session,
                     blocklist, attempts, requests, faults>>
  PROVE  SessionsInv'
<1>1. PICK c : c = thread[t].code
  OBVIOUS
<1>2. c \in Code /\ code[c] # None
  BY <1>1 DEF SpendCode, SessionsInv, CodesInv, RequestOk
<1>u. /\ code' = [code EXCEPT ![c].used = TRUE]
      /\ spent' = [spent EXCEPT ![c] = @ + 1]
      /\ raced' = IF code[c].used THEN raced \cup {c} ELSE raced
  BY <1>1 DEF SpendCode, MarkUsed
<1>3. /\ code' \in [Code -> CodeRow \cup {None}]
      /\ \A d \in Code : /\ code[d] = None <=> code'[d] = None
                         /\ code[d] # None => /\ code'[d].purpose = code[d].purpose
                                              /\ code[d].used => code'[d].used
      /\ code'[c] # None /\ code'[c].used
  BY <1>2, <1>u, Uses DEF SessionsInv
<1>4. /\ spent \in [Code -> Nat] /\ spent' \in [Code -> Nat] /\ spent'[c] = spent[c] + 1
      /\ \A d \in Code : d # c => spent'[d] = spent[d]
  BY <1>2, <1>u DEF SessionsInv, TypeOK
<1>5. /\ thread' \in [Thread -> AnyRequest]
      /\ \A u \in Thread : thread'[u] = IF u = t THEN r ELSE thread[u]
  BY ThreadTyped DEF SessionsInv
<1>6. TypeOK'
  <2>1. raced' \subseteq Code
    BY <1>2, <1>u DEF SessionsInv, TypeOK
  <2> QED
    BY <1>3, <1>4, <1>5, <2>1 DEF SessionsInv, TypeOK, AnyRequest
<1>7. CodesInv'
  <2>1. spent[c] # 0 => c \in raced'
    BY <1>2, <1>u DEF SessionsInv, CodesInv
  <2>2. raced \subseteq raced'
    BY <1>u
  <2>3. CodesGrow
    BY <1>3, <1>4, <2>1, <2>2 DEF CodesGrow
  <2>4. \A u \in Thread : thread'[u] = thread[u] \/ RequestOk(thread[u])'
    BY <1>5 DEF RequestOk
  <2> QED
    BY <1>3, <2>3, <2>4, CodesKept
<1>8. SignInsInv'
  BY <1>5, SignInsKept
<1>9. AttemptsAreBounded'
  <2>1. \A k \in Key, x \in Store : attempts[k][x] <= attempts[k][x]
    BY DEF SessionsInv, TypeOK
  <2> QED
    BY <1>5, <2>1, AttemptsKept DEF SessionsInv, TypeOK, LetIn
<1> QED
  BY <1>6, <1>7, <1>8, <1>9 DEF SessionsInv

LEMMA LoginByCodeKeeps ==
  ASSUME SessionsInv, NEW t \in Thread, LoginByCode(t)
  PROVE  SessionsInv'
<1>1. epoch \in Epoch /\ epoch <= epoch
  BY DEF SessionsInv, TypeOK, Epoch
<1>2. thread[t].at \in Proc
  BY RequestFields DEF LoginByCode, SpendCode, SessionsInv, TypeOK, AnyRequest
<1>3. PICK r : /\ Become(t, r)
               /\ \/ r = [op |-> "checked", channel |-> "app", epoch |-> epoch, at |-> thread[t].at]
                  \/ r = Idle
  BY DEF LoginByCode
<1>4. r \in AnyRequest /\ r.op \in {"checked", "idle"}
  <2>1. CASE r = [op |-> "checked", channel |-> "app", epoch |-> epoch, at |-> thread[t].at]
    BY <1>1, <1>2, <2>1 DEF AnyRequest, Checked, Channel
  <2> QED
    BY <1>3, <2>1, IdleTyped
<1> QED
  BY <1>1, <1>3, <1>4, SpendKeeps DEF LoginByCode, account, Purpose

LEMMA CheckNewKeeps ==
  ASSUME SessionsInv, NEW t \in Thread, NEW channel \in Channel, CheckNew(t, channel)
  PROVE  SessionsInv'
<1>1. epoch \in Epoch /\ epoch <= epoch
  BY DEF SessionsInv, TypeOK, Epoch
<1>2. thread[t].at \in Proc
  BY RequestFields DEF CheckNew, SpendCode, SessionsInv, TypeOK, AnyRequest
<1>3. PICK r : /\ Become(t, r)
               /\ \/ r = [op |-> "creating", channel |-> channel, epoch |-> epoch, at |-> thread[t].at]
                  \/ r = Idle
  BY DEF CheckNew
<1>4. r \in AnyRequest /\ r.op \in {"creating", "idle"}
  <2>1. CASE r = [op |-> "creating", channel |-> channel, epoch |-> epoch, at |-> thread[t].at]
    BY <1>1, <1>2, <2>1 DEF AnyRequest, Checked
  <2> QED
    BY <1>3, <2>1, IdleTyped
<1> QED
  BY <1>1, <1>3, <1>4, SpendKeeps DEF CheckNew, account, Purpose

LEMMA ResetPasswordKeeps ==
  ASSUME SessionsInv, NEW t \in Thread, NEW channel \in Channel, ResetPassword(t, channel)
  PROVE  SessionsInv'
<1>1. epoch \in Epoch /\ epoch' = epoch + 1 /\ epoch' \in Epoch /\ epoch <= epoch'
  BY DEF ResetPassword, SessionsInv, TypeOK, Epoch
<1>2. thread[t].at \in Proc
  BY RequestFields DEF ResetPassword, SpendCode, SessionsInv, TypeOK, AnyRequest
<1>3. PICK r : Become(t, r) /\ r = [op |-> "revoking", epoch |-> epoch', at |-> thread[t].at]
  BY DEF ResetPassword
<1>4. r \in AnyRequest /\ r.op = "revoking" /\ r.epoch = epoch'
  BY <1>1, <1>2, <1>3 DEF AnyRequest, Revoking
<1>5. r.epoch <= epoch'
  BY <1>1, <1>4 DEF Epoch
<1> QED
  BY <1>1, <1>3, <1>4, <1>5, SpendKeeps DEF ResetPassword, Purpose

-----------------------------------------------------------------------------
(* The account, and sessions that begin and end *)

\* The account changes, and requests that have nothing to do with codes.
LEMMA AccountKeeps ==
  ASSUME SessionsInv, {registered', active', erased'} \subseteq BOOLEAN,
         epoch' \in Epoch, epoch <= epoch', requests' \in 0 .. MaxRequests,
         UNCHANGED <<redis, history, session, blocklist, attempts, code, faults>>,
         thread' \in [Thread -> AnyRequest],
         \A u \in Thread :
           \/ thread'[u] = thread[u]
           \/ /\ thread'[u].op \in {"idle", "checked", "revoking"}
              /\ thread'[u].op = "revoking" => thread'[u].epoch <= epoch'
  PROVE  SessionsInv'
<1>1. TypeOK'
  BY DEF SessionsInv, TypeOK, history, AnyRequest
<1>2. CodesInv'
  <2>1. CodesGrow
    BY DEF CodesGrow, history
  <2>2. \A u \in Thread : thread'[u] = thread[u] \/ RequestOk(thread[u])'
    BY DEF RequestOk
  <2> QED
    BY <2>1, <2>2, CodesKept DEF SessionsInv, TypeOK
<1>3. SignInsInv'
  BY SignInsKept DEF history
<1>4. AttemptsAreBounded'
  <2>1. \A k \in Key, x \in Store : attempts[k][x] <= attempts[k][x]
    BY DEF SessionsInv, TypeOK
  <2> QED
    BY <2>1, AttemptsKept DEF SessionsInv, TypeOK, LetIn
<1> QED
  BY <1>1, <1>2, <1>3, <1>4 DEF SessionsInv

LEMMA CreateAccountKeeps ==
  ASSUME SessionsInv, NEW t \in Thread, CreateAccount(t)
  PROVE  SessionsInv'
<1>1. PICK r : /\ Become(t, r)
               /\ r = Idle \/ r = [thread[t] EXCEPT !.op = "checked"]
  BY DEF CreateAccount
<1>2. thread[t] \in Checked
  BY DEF CreateAccount, SessionsInv, TypeOK, Idle, Asking, Sending, Started, Revoking
<1>3. r \in AnyRequest /\ r.op \in {"idle", "checked"}
  <2>1. CASE r = [thread[t] EXCEPT !.op = "checked"]
    <3>1. r \in Checked /\ r.op = "checked"
      BY <1>2, <2>1 DEF Checked
    <3> QED
      BY <3>1 DEF AnyRequest
  <2> QED
    BY <1>1, <2>1, IdleTyped
<1>4. /\ thread' \in [Thread -> AnyRequest]
      /\ \A u \in Thread : thread'[u] = IF u = t THEN r ELSE thread[u]
  BY <1>1, <1>3, ThreadTyped DEF SessionsInv
<1>5. /\ {registered', active', erased'} \subseteq BOOLEAN
      /\ requests' \in 0 .. MaxRequests /\ epoch' \in Epoch
  BY DEF CreateAccount, SessionsInv, TypeOK
<1>6. epoch <= epoch'
  BY DEF CreateAccount, SessionsInv, TypeOK, Epoch
<1> QED
  BY <1>3, <1>4, <1>5, <1>6, AccountKeeps DEF CreateAccount

LEMMA SuspendKeeps ==
  ASSUME SessionsInv, NEW t \in Thread, NEW p \in Proc, Suspend(t, p)
  PROVE  SessionsInv'
<1>1. epoch' = epoch + 1 /\ epoch' \in Epoch /\ epoch <= epoch'
  BY DEF Suspend, SessionsInv, TypeOK, Epoch
<1>2. PICK r : Become(t, r) /\ r = [op |-> "revoking", epoch |-> epoch', at |-> p]
  BY DEF Suspend
<1>3. r \in AnyRequest /\ r.op = "revoking" /\ r.epoch <= epoch'
  <2>1. r \in AnyRequest /\ r.op = "revoking" /\ r.epoch = epoch'
    BY <1>1, <1>2 DEF AnyRequest, Revoking
  <2> QED
    BY <1>1, <2>1 DEF Epoch
<1>4. /\ thread' \in [Thread -> AnyRequest]
      /\ \A u \in Thread : thread'[u] = IF u = t THEN r ELSE thread[u]
  BY <1>2, <1>3, ThreadTyped DEF SessionsInv
<1>5. {registered', active', erased'} \subseteq BOOLEAN
  BY DEF Suspend, SessionsInv, TypeOK
<1>6. requests' \in 0 .. MaxRequests
  BY OneMoreRequest DEF Suspend
<1> QED
  BY <1>1, <1>3, <1>4, <1>5, <1>6, AccountKeeps DEF Suspend

LEMMA ReinstateKeeps ==
  ASSUME SessionsInv, Reinstate
  PROVE  SessionsInv'
<1>1. epoch' \in Epoch /\ epoch <= epoch' /\ {registered', active', erased'} \subseteq BOOLEAN
  BY DEF Reinstate, SessionsInv, TypeOK, Epoch
<1>2. requests' \in 0 .. MaxRequests
  BY OneMoreRequest DEF Reinstate
<1>3. thread' \in [Thread -> AnyRequest]
  BY DEF Reinstate, SessionsInv, TypeOK, AnyRequest
<1> QED
  BY <1>1, <1>2, <1>3, AccountKeeps DEF Reinstate

\* Sessions begin or end: the codes and the limiter are not concerned.
LEMMA SignInsKeep ==
  ASSUME SessionsInv, TypeOK', SignInsInv',
         UNCHANGED <<redis, attempts, code, spent, raced>>,
         \A u \in Thread : thread'[u] = thread[u] \/ thread'[u].op = "idle"
  PROVE  SessionsInv'
<1>1. CodesInv'
  <2>1. CodesGrow
    BY DEF CodesGrow
  <2>2. \A u \in Thread : thread'[u] = thread[u] \/ RequestOk(thread[u])'
    BY DEF RequestOk
  <2> QED
    BY <2>1, <2>2, CodesKept DEF TypeOK
<1>2. AttemptsAreBounded'
  <2>1. \A k \in Key, x \in Store : attempts[k][x] <= attempts[k][x]
    BY DEF SessionsInv, TypeOK
  <2> QED
    BY <2>1, AttemptsKept DEF TypeOK, LetIn
<1> QED
  BY <1>1, <1>2 DEF SessionsInv

LEMMA CreateSessionKeeps ==
  ASSUME SessionsInv, NEW t \in Thread, NEW s \in Session, CreateSession(t, s)
  PROVE  SessionsInv'
<1>1. thread[t].channel \in Channel /\ thread[t].epoch \in Epoch
  BY RequestFields DEF CreateSession, SessionsInv, TypeOK, AnyRequest
<1>2. PICK row : row = [channel |-> thread[t].channel, epoch |-> thread[t].epoch, row |-> "live"]
  OBVIOUS
<1>3. row \in SignIn /\ row.row = "live" /\ row.epoch = thread[t].epoch
  BY <1>1, <1>2 DEF SignIn
<1>u. /\ ~Exists(s) /\ session' = [session EXCEPT ![s] = row]
      /\ slipped' = IF thread[t].epoch < epoch THEN slipped \cup {s} ELSE slipped
      /\ Become(t, Idle)
      /\ UNCHANGED <<redis, account, signedOut, spent, raced, blocklist, attempts,
                     code, requests, faults>>
  BY <1>2 DEF CreateSession
<1>4. /\ thread' \in [Thread -> AnyRequest]
      /\ \A u \in Thread : thread'[u] = IF u = t THEN Idle ELSE thread[u]
  BY <1>u, IdleTyped, ThreadTyped DEF SessionsInv
<1>5. /\ session' \in [Session -> SignIn \cup {None}]
      /\ \A x \in Session : session'[x] = IF x = s THEN row ELSE session[x]
  BY <1>u, <1>3 DEF SessionsInv, TypeOK
<1>6. TypeOK'
  BY <1>u, <1>4, <1>5 DEF SessionsInv, TypeOK, account, AnyRequest
<1>7. SignInsInv'
  <2>1. SignInOk(s)'
    <3>1. row.epoch < signedOut => s \in slipped'
      BY <1>u, <1>1, <1>3 DEF SessionsInv, SignInsInv, TypeOK, Epoch
    <3> QED
      BY <1>u, <1>3, <1>5, <3>1 DEF SignInOk
  <2>2. ASSUME NEW x \in Session, x # s, Exists(x)' PROVE SignInOk(x)'
    <3>1. Exists(x) /\ session'[x] = session[x] /\ SignInOk(x)
      BY <1>5, <2>2 DEF Exists, SessionsInv, SignInsInv
    <3> QED
      BY <1>u, <3>1 DEF SignInOk
  <2>3. \A u \in Thread : thread'[u].op = "revoking" => thread'[u].epoch <= epoch'
    BY <1>u, <1>4, IdleTyped DEF SessionsInv, SignInsInv, account
  <2>4. signedOut' <= epoch'
    BY <1>u DEF SessionsInv, SignInsInv, account
  <2> QED
    BY <2>1, <2>2, <2>3, <2>4 DEF SignInsInv
<1> QED
  BY <1>u, <1>4, <1>6, <1>7, IdleTyped, SignInsKeep

-----------------------------------------------------------------------------
(* Signing out *)

LEMMA RevokedRows ==
  ASSUME TypeOK, NEW ended \in SUBSET Session, \A s \in ended : Exists(s),
         session' = Revoked(ended)
  PROVE  /\ session' \in [Session -> SignIn \cup {None}]
         /\ \A s \in Session :
              /\ s \notin ended => session'[s] = session[s]
              /\ s \in ended => /\ session'[s] # None /\ session'[s].row = "revoked"
                                /\ session'[s].channel = session[s].channel
<1>1. session \in [Session -> SignIn \cup {None}]
  BY DEF TypeOK
<1>2. ASSUME NEW s \in ended
      PROVE  LET r == [session[s] EXCEPT !.row = "revoked"]
             IN  r \in SignIn /\ r.row = "revoked" /\ r.channel = session[s].channel
  <2>1. session[s] \in SignIn
    BY <1>1, <1>2 DEF Exists
  <2> QED
    BY <2>1 DEF SignIn
<1>3. \A s \in Session : session'[s] = IF s \in ended THEN [session[s] EXCEPT !.row = "revoked"]
                                       ELSE session[s]
  BY DEF Revoked
<1>4. session' \in [Session -> SignIn \cup {None}]
  BY <1>1, <1>2 DEF Revoked
<1> QED
  BY <1>2, <1>3, <1>4, NoneAssumption

LEMMA Blocks ==
  ASSUME TypeOK, NEW ended \in SUBSET Session, NEW p \in Proc, blocklist' = Blocking(ended, p)
  PROVE  /\ blocklist' \in [Store -> SUBSET Session]
         /\ \A x \in Store : blocklist[x] \subseteq blocklist'[x]
         /\ redis => {s \in ended : session[s].channel = "app"} \subseteq blocklist'[Redis]
<1>1. PICK app \in SUBSET Session : app = {s \in ended : session[s].channel = "app"}
  OBVIOUS
<1>2. blocklist \in [Store -> SUBSET Session] /\ StoreOf(p) \in Store
  BY StoresTyped DEF TypeOK
<1>3. blocklist' = [blocklist EXCEPT ![StoreOf(p)] = @ \cup app]
  BY <1>1 DEF Blocking
<1>4. redis => StoreOf(p) = Redis
  BY DEF StoreOf
<1> QED
  BY <1>1, <1>2, <1>3, <1>4

\* The rows of ended are revoked and their tokens blocked.
LEMMA RevokedAreOk ==
  ASSUME SessionsInv, NEW ended \in SUBSET Session, NEW told \in SUBSET Session,
         NEW p \in Proc, ended \subseteq told, \A s \in ended : Exists(s),
         session' = Revoked(ended), blocklist' = Blocking(told, p),
         UNCHANGED <<redis, slipped>>,
         \/ signedOut' = signedOut
         \/ \A s \in Session : Live(s) => s \in ended
  PROVE  \A s \in Session : Exists(s)' => SignInOk(s)'
<1>1. /\ session' \in [Session -> SignIn \cup {None}]
      /\ \A s \in Session :
           /\ s \notin ended => session'[s] = session[s]
           /\ s \in ended => /\ session'[s] # None /\ session'[s].row = "revoked"
                             /\ session'[s].channel = session[s].channel
  BY RevokedRows DEF SessionsInv
<1>2. /\ blocklist[Redis] \subseteq blocklist'[Redis]
      /\ redis => {s \in told : session[s].channel = "app"} \subseteq blocklist'[Redis]
  BY Blocks DEF SessionsInv, Store
<1>3. ASSUME NEW s \in Session, Exists(s)', s \in ended PROVE SignInOk(s)'
  BY <1>1, <1>2, <1>3 DEF SignInOk
<1>4. ASSUME NEW s \in Session, Exists(s)', s \notin ended PROVE SignInOk(s)'
  <2>1. Exists(s) /\ session'[s] = session[s] /\ SignInOk(s)
    BY <1>1, <1>4 DEF Exists, SessionsInv, SignInsInv
  <2> QED
    BY <1>2, <1>4, <2>1 DEF SignInOk, Live
<1> QED
  BY <1>3, <1>4

LEMMA RevokeKeeps ==
  ASSUME SessionsInv, NEW p \in Proc, NEW s \in Session, Revoke(p, s)
  PROVE  SessionsInv'
<1>1. /\ session' = Revoked({s} \cap Ended) /\ blocklist' = Blocking({s}, p)
      /\ UNCHANGED <<redis, account, history, attempts, code, thread, faults>>
  BY DEF Revoke
<1>2. \A x \in {s} \cap Ended : Exists(x)
  BY DEF Ended, Live
<1>3. session' \in [Session -> SignIn \cup {None}]
  BY <1>1, <1>2, RevokedRows DEF SessionsInv
<1>4. blocklist' \in [Store -> SUBSET Session]
  BY <1>1, Blocks DEF SessionsInv
<1>5. requests' \in 0 .. MaxRequests
  BY OneMoreRequest DEF Revoke
<1>6. TypeOK'
  BY <1>1, <1>3, <1>4, <1>5 DEF SessionsInv, TypeOK, account, history
<1>7. \A x \in Session : Exists(x)' => SignInOk(x)'
  BY <1>1, <1>2, RevokedAreOk DEF history
<1>8. SignInsInv'
  BY <1>1, <1>7 DEF SessionsInv, SignInsInv, account, history
<1> QED
  BY <1>1, <1>6, <1>8, SignInsKeep DEF history

LEMMA RevokeAllKeeps ==
  ASSUME SessionsInv, NEW t \in Thread, RevokeAll(t)
  PROVE  SessionsInv'
<1>1. /\ thread[t].op = "revoking" /\ thread[t].at \in Proc /\ thread[t].epoch \in Nat
      /\ thread[t].epoch <= epoch /\ signedOut <= epoch
      /\ epoch \in Nat /\ signedOut \in Nat
  BY RequestFields DEF RevokeAll, SessionsInv, SignInsInv, TypeOK, AnyRequest, Epoch
<1>u. /\ session' = Revoked(Ended) /\ blocklist' = Blocking(Ended, thread[t].at)
      /\ signedOut' = IF thread[t].epoch > signedOut THEN thread[t].epoch ELSE signedOut
      /\ Become(t, Idle)
      /\ UNCHANGED <<redis, account, spent, raced, slipped, attempts, code, requests,
                     faults>>
  BY DEF RevokeAll
<1>2. signedOut' \in Nat /\ signedOut' <= epoch'
  BY <1>1, <1>u DEF account
<1>3. /\ thread' \in [Thread -> AnyRequest]
      /\ \A u \in Thread : thread'[u] = IF u = t THEN Idle ELSE thread[u]
  BY <1>u, IdleTyped, ThreadTyped DEF SessionsInv
<1>4. Ended \in SUBSET Session /\ \A s \in Ended : Exists(s)
  BY DEF Ended, Live
<1>5. session' \in [Session -> SignIn \cup {None}]
  BY <1>u, <1>4, RevokedRows DEF SessionsInv
<1>6. blocklist' \in [Store -> SUBSET Session]
  BY <1>u, <1>1, <1>4, Blocks DEF SessionsInv
<1>7. TypeOK'
  BY <1>u, <1>2, <1>3, <1>5, <1>6 DEF SessionsInv, TypeOK, account, Epoch, AnyRequest
<1>8. \A s \in Session : Live(s) => s \in Ended
  BY DEF Ended
<1>9. \A s \in Session : Exists(s)' => SignInOk(s)'
  BY <1>u, <1>1, <1>4, <1>8, RevokedAreOk
<1>10. SignInsInv'
  BY <1>u, <1>2, <1>3, <1>9, IdleTyped DEF SessionsInv, SignInsInv, account
<1> QED
  BY <1>u, <1>3, <1>7, <1>10, IdleTyped, SignInsKeep

LEMMA EraseKeeps ==
  ASSUME SessionsInv, Erase
  PROVE  SessionsInv'
<1>1. requests' \in 0 .. MaxRequests
  BY OneMoreRequest DEF Erase
<1>u. /\ erased' = TRUE /\ active' = FALSE
      /\ epoch' = epoch + 1 /\ signedOut' = epoch'
      /\ slipped' = slipped \cup {s \in Session : Exists(s) /\ session[s].channel = "app"}
      /\ session' = [s \in Session |-> IF Exists(s) THEN [session[s] EXCEPT !.row = "gone"]
                                       ELSE None]
      /\ UNCHANGED <<redis, registered, spent, raced, blocklist, attempts, code, thread,
                     faults>>
  BY DEF Erase
<1>2. epoch \in Nat /\ epoch' \in Nat /\ signedOut' <= epoch' /\ epoch <= epoch'
  BY <1>u DEF SessionsInv, TypeOK, Epoch
<1>3. ASSUME NEW s \in Session, Exists(s)
      PROVE  LET r == [session[s] EXCEPT !.row = "gone"]
             IN  r \in SignIn /\ r.row = "gone" /\ r.channel = session[s].channel
  <2>1. session[s] \in SignIn
    BY <1>3 DEF Exists, SessionsInv, TypeOK
  <2> QED
    BY <2>1 DEF SignIn
<1>4. session' \in [Session -> SignIn \cup {None}]
  BY <1>u, <1>3
<1>5. TypeOK'
  <2>1. slipped' \subseteq Session
    BY <1>u DEF SessionsInv, TypeOK
  <2>2. {redis', registered', active', erased'} \subseteq BOOLEAN
    BY <1>u DEF SessionsInv, TypeOK
  <2> QED
    BY <1>u, <1>1, <1>2, <1>4, <2>1, <2>2 DEF SessionsInv, TypeOK, Epoch
<1>6. ASSUME NEW s \in Session, Exists(s)' PROVE SignInOk(s)'
  <2>1. /\ Exists(s) /\ session'[s].row = "gone"
        /\ session'[s].channel = session[s].channel
    BY <1>u, <1>3, <1>6 DEF Exists
  <2> QED
    BY <1>u, <2>1 DEF SignInOk
<1>7. \A t \in Thread : thread'[t].op = "revoking" => thread'[t].epoch <= epoch'
  <2>1. \A t \in Thread : thread[t].op = "revoking" => thread[t].epoch \in Nat
    BY RequestFields DEF SessionsInv, TypeOK, AnyRequest, Epoch
  <2> QED
    BY <1>u, <1>2, <2>1 DEF SessionsInv, SignInsInv
<1>8. SignInsInv'
  BY <1>2, <1>6, <1>7 DEF SignInsInv
<1> QED
  BY <1>u, <1>5, <1>8, SignInsKeep

LEMMA RestartKeeps ==
  ASSUME SessionsInv, NEW p \in Proc, Restart(p)
  PROVE  SessionsInv'
<1>u. /\ thread' = [t \in Thread |-> IF thread[t] # Idle /\ thread[t].at = p THEN Idle
                                     ELSE thread[t]]
      /\ blocklist' = [blocklist EXCEPT ![p] = {}]
      /\ attempts' = [k \in Key |-> [attempts[k] EXCEPT ![p] = 0]]
      /\ UNCHANGED <<redis, account, history, session, code, requests>>
  BY DEF Restart
<1>1. faults' \in 0 .. MaxFaults
  BY SessionsAssumption DEF Restart, SessionsInv, TypeOK
<1>2. /\ thread' \in [Thread -> AnyRequest]
      /\ \A t \in Thread : thread'[t] = thread[t] \/ thread'[t].op = "idle"
  BY <1>u, IdleTyped DEF SessionsInv, TypeOK, AnyRequest
<1>3. /\ blocklist' \in [Store -> SUBSET Session]
      /\ blocklist'[Redis] = blocklist[Redis]
  BY <1>u, SessionsAssumption DEF SessionsInv, TypeOK, Store
<1>4. /\ attempts' \in [Key -> [Store -> Nat]]
      /\ \A k \in Key, x \in Store : attempts'[k][x] <= attempts[k][x]
  <2>1. \A k \in Key : attempts[k] \in [Store -> Nat]
    BY DEF SessionsInv, TypeOK
  <2>2. ASSUME NEW k \in Key
        PROVE  /\ attempts'[k] \in [Store -> Nat]
               /\ \A x \in Store : attempts'[k][x] <= attempts[k][x]
    <3>1. attempts'[k] = [attempts[k] EXCEPT ![p] = 0]
      BY <1>u
    <3>2. \A x \in Store : attempts[k][x] \in Nat
      BY <2>1
    <3>3. \A x \in Store : attempts'[k][x] = IF x = p THEN 0 ELSE attempts[k][x]
      BY <2>1, <3>1
    <3>4. attempts'[k] \in [Store -> Nat]
      <4>1. [attempts[k] EXCEPT ![p] = 0] \in [Store -> Nat]
        BY <2>1
      <4> QED
        BY <3>1, <4>1
    <3> QED
      BY <3>2, <3>3, <3>4
  <2>3. attempts' = [k \in Key |-> attempts'[k]]
    BY <1>u
  <2> QED
    BY <2>2, <2>3
<1>5. TypeOK'
  BY <1>u, <1>1, <1>2, <1>3, <1>4 DEF SessionsInv, TypeOK, account, history, AnyRequest
<1>6. CodesInv'
  <2>1. CodesGrow
    BY <1>u DEF CodesGrow, history
  <2>2. \A u \in Thread : thread'[u] = thread[u] \/ RequestOk(thread[u])'
    BY <1>2 DEF RequestOk
  <2> QED
    BY <1>u, <2>1, <2>2, CodesKept DEF SessionsInv, TypeOK
<1>7. SignInsInv'
  <2>1. epoch' \in Epoch /\ epoch <= epoch'
    BY <1>u DEF account, SessionsInv, TypeOK, Epoch
  <2> QED
    BY <1>u, <1>2, <1>3, <2>1, SignInsKept DEF account, history
<1>8. AttemptsAreBounded'
  BY <1>u, <1>2, <1>4, AttemptsKept DEF LetIn
<1> QED
  BY <1>5, <1>6, <1>7, <1>8 DEF SessionsInv

-----------------------------------------------------------------------------
(* The theorems *)

LEMMA SessionsStart == Init => SessionsInv
<1> SUFFICES ASSUME Init PROVE SessionsInv
  OBVIOUS
<1>1. TypeOK
  <2>1. {redis, registered, active, erased} \subseteq BOOLEAN
    BY DEF Init
  <2>2. attempts \in [Key -> [Store -> Nat]]
    BY DEF Init
  <2>3. thread \in [Thread -> AnyRequest]
    BY IdleTyped DEF Init
  <2> QED
    BY <2>1, <2>2, <2>3, SessionsAssumption DEF Init, TypeOK, AnyRequest, Epoch
<1>2. CodesInv
  BY IdleTyped DEF Init, CodesInv, CodeIsSpentOnce, RequestOk, Unspent
<1>3. SignInsInv
  BY IdleTyped DEF Init, SignInsInv, Exists
<1>4. AttemptsAreBounded
  <2>1. ASSUME NEW k \in Key, NEW x \in Store
        PROVE  attempts[k][x] + Cardinality(Begun(k, x)) <= Limit + Cardinality(Thread) - 1
    <3>1. attempts[k][x] = 0
      BY DEF Init
    <3> QED
      BY <3>1, BegunCount, SessionsAssumption
  <2> QED
    BY <2>1 DEF AttemptsAreBounded, Begun
<1> QED
  BY <1>1, <1>2, <1>3, <1>4 DEF SessionsInv

LEMMA SessionsStep == SessionsInv /\ [Next]_vars => SessionsInv'
<1> SUFFICES ASSUME SessionsInv, [Next]_vars PROVE SessionsInv'
  OBVIOUS
<1>1. ASSUME NEW t \in Thread, NEW p \in Proc,
             (\E purpose \in Purpose : AskForCode(t, p, purpose)) \/ Suspend(t, p)
      PROVE  SessionsInv'
  BY <1>1, AskForCodeKeeps, SuspendKeeps
<1>2. ASSUME NEW t \in Thread, NEW c \in Code, InsertCode(t, c)
      PROVE  SessionsInv'
  BY <1>2, InsertCodeKeeps
<1>3. ASSUME NEW t \in Thread, NEW p \in Proc, NEW way \in Way, NEW channel \in Channel,
             NEW c \in Code \cup {None}, Begin(t, p, way, channel, c)
      PROVE  SessionsInv'
  BY <1>3, BeginKeeps
<1>4. ASSUME NEW t \in Thread,
             \/ OtpRequest(t) \/ OtpRequestForReset(t) \/ OtpRequestForRegistration(t)
             \/ Login(t) \/ PortalLogin(t) \/ PeekCode(t) \/ ReadCode(t) \/ LoginByCode(t)
             \/ Register(t) \/ PortalRegister(t) \/ CreateAccount(t)
             \/ OtpConfirmReset(t) \/ PortalForgotPassword(t) \/ RevokeAll(t)
      PROVE  SessionsInv'
  <2>1. CASE Login(t) \/ PortalLogin(t)
    BY <2>1, CheckPasswordKeeps DEF Login, PortalLogin, Channel
  <2>2. CASE PeekCode(t) \/ ReadCode(t) \/ LoginByCode(t) \/ CreateAccount(t) \/ RevokeAll(t)
    BY <2>2, PeekCodeKeeps, ReadCodeKeeps, LoginByCodeKeeps, CreateAccountKeeps, RevokeAllKeeps
  <2>3. CASE Register(t) \/ PortalRegister(t)
    BY <2>3, CheckNewKeeps DEF Register, PortalRegister, Channel
  <2>4. CASE OtpConfirmReset(t) \/ PortalForgotPassword(t)
    BY <2>4, ResetPasswordKeeps DEF OtpConfirmReset, PortalForgotPassword, Channel
  <2>5. CASE OtpRequest(t) \/ OtpRequestForReset(t) \/ OtpRequestForRegistration(t)
    <3>1. (registered /\ ~erased) \in BOOLEAN
      OBVIOUS
    <3> QED
      BY <2>5, <3>1, RequestCodeKeeps
         DEF OtpRequest, OtpRequestForReset, OtpRequestForRegistration, Purpose
  <2> QED
    BY <1>4, <2>1, <2>2, <2>3, <2>4, <2>5
<1>5. ASSUME NEW t \in Thread, NEW s \in Session, CreateSession(t, s)
      PROVE  SessionsInv'
  BY <1>5, CreateSessionKeeps
<1>6. ASSUME NEW p \in Proc, NEW s \in Session,
             \/ RevokeDevice(p, s) \/ PortalRevokeDevice(p, s)
             \/ Logout(p, s) \/ PortalLogout(p, s)
      PROVE  SessionsInv'
  BY <1>6, RevokeKeeps DEF RevokeDevice, PortalRevokeDevice, RevokeFrom, Logout, PortalLogout
<1>7. ASSUME NEW p \in Proc, Restart(p)
      PROVE  SessionsInv'
  BY <1>7, RestartKeeps
<1>8. CASE WindowPasses \/ Reinstate \/ Erase
  BY <1>8, WindowPassesKeeps, ReinstateKeeps, EraseKeeps
<1>9. CASE UNCHANGED vars
  <2>1. UNCHANGED <<redis, registered, active, erased, epoch, signedOut, spent, raced, slipped,
                    session, blocklist, attempts, code, thread, requests, faults>>
    BY <1>9 DEF vars, account, history
  <2>2. TypeOK'
    BY <2>1 DEF SessionsInv, TypeOK
  <2>3. SignInsInv'
    BY <2>1 DEF SessionsInv, SignInsInv, SignInOk, Exists
  <2> QED
    BY <2>1, <2>2, <2>3, SignInsKeep
<1> QED
  BY <1>1, <1>2, <1>3, <1>4, <1>5, <1>6, <1>7, <1>8, <1>9 DEF Next

\* Every behaviour keeps the inductive invariant.
THEOREM SessionsInvariant == Spec => []SessionsInv
BY SessionsStart, SessionsStep, PTL DEF Spec

\* Every variable of the sign-ins keeps its type.
THEOREM SessionTypes == Spec => []TypeOK
<1>1. SessionsInv => TypeOK
  BY DEF SessionsInv
<1> QED
  BY <1>1, SessionsInvariant, PTL

\* No process accepts a revoked session: with Redis, and on the portal always.
THEOREM RevokedSessionsAreOut == Spec => []RevokedIsOut
<1>1. SessionsInv => RevokedIsOut
  <2> SUFFICES ASSUME SessionsInv, NEW s \in Session, NEW p \in Proc,
                      Exists(s), session[s].row = "revoked",
                      redis \/ session[s].channel = "web", Accepted(s, p)
               PROVE  FALSE
    BY DEF RevokedIsOut
  <2>1. session[s].channel = "app" /\ ~Blocked(s, p) /\ redis
    BY DEF Accepted, Live
  <2>2. s \in blocklist[Redis]
    BY <2>1 DEF SessionsInv, SignInsInv, SignInOk
  <2> QED
    BY <2>1, <2>2 DEF Blocked, StoreOf
<1> QED
  BY <1>1, SessionsInvariant, PTL

\* A session from before a completed sign-out is over, or slipped through it.
THEOREM SignOutsEndSessions == Spec => []SignedInIsCurrent
<1>1. SessionsInv => SignedInIsCurrent
  <2> SUFFICES ASSUME SessionsInv, NEW s \in Session, NEW p \in Proc, Accepted(s, p),
                      redis \/ session[s].channel = "web", session[s].epoch < signedOut
               PROVE  s \in slipped
    BY DEF SignedInIsCurrent
  <2>1. Exists(s) /\ SignInOk(s) /\ session[s] \in SignIn
    BY DEF Accepted, Exists, SessionsInv, SignInsInv, TypeOK
  <2>2. CASE session[s].channel = "app"
    <3>1. ~Blocked(s, p) /\ redis
      BY <2>2 DEF Accepted
    <3>2. session[s].row # "revoked"
      BY <2>1, <2>2, <3>1 DEF SignInOk, Blocked, StoreOf
    <3>3. session[s].row \in {"live", "gone"}
      BY <2>1, <3>2 DEF SignIn
    <3> QED
      BY <2>1, <2>2, <3>3 DEF SignInOk
  <2>3. CASE session[s].channel # "app"
    BY <2>1, <2>3 DEF Accepted, Live, SignInOk
  <2> QED
    BY <2>2, <2>3
<1> QED
  BY <1>1, SessionsInvariant, PTL

\* A one-time code is accepted once, but for requests that had both read it.
THEOREM CodesAreSpentOnce == Spec => []CodeIsSpentOnce
<1>1. SessionsInv => CodeIsSpentOnce
  BY DEF SessionsInv, CodesInv
<1> QED
  BY <1>1, SessionsInvariant, PTL

\* The limiter is passed by no more than the requests under way.
THEOREM LimiterHolds == Spec => []AttemptsAreBounded
<1>1. SessionsInv => AttemptsAreBounded
  BY DEF SessionsInv
<1> QED
  BY <1>1, SessionsInvariant, PTL

\* Of one purpose one code is good, unless two were asked for at once.
THEOREM LastCodeIsTheOnly == Spec => []LastCodeOnly
<1>1. SessionsInv => LastCodeOnly
  <2> SUFFICES ASSUME SessionsInv, NEW purpose \in Purpose
               PROVE  Cardinality({c \in Code \ raced : Unspent(c, purpose)}) <= 1
    BY DEF LastCodeOnly
  <2> DEFINE Good == {c \in Code \ raced : Unspent(c, purpose)}
  <2>1. CASE Good = {}
    BY <2>1, FS_EmptySet
  <2>2. CASE Good # {}
    <3>1. PICK c \in Good : TRUE
      BY <2>2
    <3>2. Good = {c}
      BY <3>1 DEF SessionsInv, CodesInv
    <3> HIDE DEF Good
    <3>3. Cardinality(Good) = 1
      BY <3>2, FS_Singleton
    <3> QED
      BY <3>3 DEF Good
  <2> QED
    BY <2>1, <2>2
<1> QED
  BY <1>1, SessionsInvariant, PTL
=============================================================================
