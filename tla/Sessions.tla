------------------------------ MODULE Sessions ------------------------------
(***************************************************************************)
(* How one worker's account is signed in to and out of (backend/app.py):   *)
(* registration, login by password and by one-time code, password reset,   *)
(* connected devices, logout, suspension and erasure, on the mobile app    *)
(* (a JWT, refused when its jti is in the blocklist) and on the portal (a  *)
(* cookie, refused when its UserSession row is revoked or gone).           *)
(*                                                                         *)
(* The blocklist and the counters of the rate limiter live in Redis, or,   *)
(* without it, in the memory of each process.  An epoch counts the events  *)
(* that are meant to end every session: password resets, suspensions and   *)
(* the erasure.                                                            *)
(***************************************************************************)
EXTENDS Naturals, FiniteSets

CONSTANTS
  Session,      \* sign-ins of one behaviour
  Code,         \* one-time codes of one behaviour
  Thread,       \* requests that the server handles at one time
  Proc,         \* gunicorn workers
  Redis,        \* the store that they share, if there is one
  None,
  Limit,        \* _LOGIN_MAX_ATTEMPTS, _OTP_MAX_ATTEMPTS
  MaxRequests,  \* bound: requests of one behaviour
  MaxFaults     \* bound: deaths of a process

ASSUME SessionsAssumption ==
  /\ Redis \notin Proc /\ IsFiniteSet(Thread)
  /\ Limit \in Nat \ {0} /\ MaxRequests \in Nat /\ MaxFaults \in Nat

VARIABLES
  redis,        \* a Redis is configured
  registered, active, erased,
  epoch,        \* sign-out events so far
  signedOut,    \* history: the last event whose sign-out has completed
  session,      \* sign-ins: a token at a client and its UserSession row
  blocklist,    \* the jtis in each store
  attempts,     \* attempts of the last window, by limiter and store
  code,         \* the table of one-time codes
  spent,        \* history: how often each code was accepted
  raced,        \* history: codes that two requests handled at once
  slipped,      \* history: sessions that a sign-out could not know
  thread,
  requests,     \* requests so far
  faults

account == <<registered, active, erased, epoch>>
history == <<signedOut, spent, raced, slipped>>
vars == <<redis, account, history, session, blocklist, attempts, code, thread,
          requests, faults>>

Channel == {"app", "web"}
Purpose == {"register", "login", "reset"}
Way == Purpose \cup {"password"}
Epoch == Nat
Key == {"otp", "login"}             \* otp:<identifier>, login:<identifier>

Store == Proc \cup {Redis}

SignIn == [channel : Channel, epoch : Epoch, row : {"live", "revoked", "gone"}]
CodeRow == [purpose : Purpose, used : BOOLEAN]

ASSUME NoneAssumption == None \notin SignIn \cup CodeRow \cup Code

\* asking (for a code: let in by the limiter) -> sending -> idle; begun (let in)
\* -> matched (a code read) -> creating / checked -> idle; a sign-out event ->
\* revoking -> idle
Idle == [op |-> "idle"]
Asking == [op : {"asking"}, way : Purpose, at : Proc]
Sending == [op : {"sending"}, purpose : Purpose, seen : SUBSET Code, at : Proc]
Started == [op : {"begun", "matched"}, way : Way, channel : Channel,
            code : Code \cup {None}, at : Proc]
Checked == [op : {"creating", "checked"}, channel : Channel, epoch : Epoch, at : Proc]
Revoking == [op : {"revoking"}, epoch : Epoch, at : Proc]

TypeOK ==
  /\ {redis, registered, active, erased} \subseteq BOOLEAN
  /\ epoch \in Epoch /\ signedOut \in Epoch
  /\ session \in [Session -> SignIn \cup {None}]
  /\ blocklist \in [Store -> SUBSET Session]
  /\ attempts \in [Key -> [Store -> Nat]]
  /\ code \in [Code -> CodeRow \cup {None}]
  /\ spent \in [Code -> Nat]
  /\ raced \subseteq Code /\ slipped \subseteq Session
  /\ thread \in [Thread -> {Idle} \cup Asking \cup Sending \cup Started
                            \cup Checked \cup Revoking]
  /\ requests \in 0 .. MaxRequests /\ faults \in 0 .. MaxFaults

Init ==
  /\ redis \in BOOLEAN
  /\ registered \in BOOLEAN /\ active = TRUE /\ erased = FALSE
  /\ epoch = 0 /\ signedOut = 0
  /\ session = [s \in Session |-> None]
  /\ blocklist = [x \in Store |-> {}]
  /\ attempts = [k \in Key |-> [x \in Store |-> 0]]
  /\ code = [c \in Code |-> None]
  /\ spent = [c \in Code |-> 0]
  /\ raced = {} /\ slipped = {}
  /\ thread = [t \in Thread |-> Idle]
  /\ requests = 0 /\ faults = 0

-----------------------------------------------------------------------------
Become(t, request) == thread' = [thread EXCEPT ![t] = request]
Request == requests < MaxRequests /\ requests' = requests + 1
StoreOf(p) == IF redis THEN Redis ELSE p
Exists(s) == session[s] # None
Live(s) == Exists(s) /\ session[s].row = "live"
Blocked(s, p) == s \in blocklist[StoreOf(p)]

\* A request with the token of s, at process p: jwt_required and
\* _current_user_id, or _current_portal_user_id.
Accepted(s, p) ==
  /\ Exists(s) /\ active
  /\ IF session[s].channel = "app" THEN ~Blocked(s, p) ELSE Live(s)

\* Mutant: one attempt too many.
RateLimited_OffByOne(key, p) == attempts[key][StoreOf(p)] > Limit

\* _rate_limited: the attempts of the window, from the store.
RateLimited(key, p) == attempts[key][StoreOf(p)] >= Limit

RecordAttempt(key, p) ==
  attempts' = [attempts EXCEPT ![key][StoreOf(p)] = @ + 1]

KeyOf(way) == IF way = "password" THEN "login" ELSE "otp"

-----------------------------------------------------------------------------
(* One-time codes *)

\* The unused codes of the purpose are marked used.
Superseded(purpose) ==
  [d \in Code |-> IF code[d] # None /\ code[d].purpose = purpose
                  THEN [code[d] EXCEPT !.used = TRUE] ELSE code[d]]

\* The limiter is asked by whoever types the address in ...
AskForCode(t, p, purpose) ==
  /\ Request
  /\ thread[t] = Idle
  /\ ~RateLimited("otp", p)
  /\ Become(t, [op |-> "asking", way |-> purpose, at |-> p])
  /\ UNCHANGED <<redis, account, history, session, blocklist, attempts, code, faults>>

\* ... and told; the earlier codes end, if a code is sent.
RequestCode(t, purpose, sent) ==
  /\ thread[t].op = "asking" /\ thread[t].way = purpose
  /\ RecordAttempt("otp", thread[t].at)
  /\ \/ /\ sent
        /\ code' = Superseded(purpose)
        /\ Become(t, [op |-> "sending", purpose |-> purpose, at |-> thread[t].at,
                      seen |-> {c \in Code : code[c] # None}])
     \/ ~sent /\ Become(t, Idle) /\ UNCHANGED code
  /\ UNCHANGED <<redis, account, history, session, blocklist, requests, faults>>

\* To an existing account only, or (registration) to anybody.
OtpRequest(t) == RequestCode(t, "login", registered /\ ~erased)
OtpRequestForReset(t) == RequestCode(t, "reset", registered /\ ~erased)
OtpRequestForRegistration(t) == RequestCode(t, "register", TRUE)

Unspent(c, purpose) == code[c] # None /\ code[c].purpose = purpose /\ ~code[c].used

\* A code that the request may use.  The portal's registration asks for no
\* purpose.
Fits(c, way, channel) ==
  \/ way \in Purpose /\ Unspent(c, way)
  \/ way = "register" /\ channel = "web" /\ \E purpose \in Purpose : Unspent(c, purpose)

InsertCode(t, c) ==
  /\ thread[t].op = "sending" /\ code[c] = None
  /\ code' = [code EXCEPT ![c] = [purpose |-> thread[t].purpose, used |-> FALSE]]
  /\ raced' = raced \cup {d \in Code \ thread[t].seen : Unspent(d, thread[t].purpose)}
  /\ Become(t, Idle)
  /\ UNCHANGED <<redis, account, signedOut, spent, slipped, session, blocklist,
                 attempts, requests, faults>>

\* The limiter's window has passed.
WindowPasses ==
  /\ attempts # [k \in Key |-> [x \in Store |-> 0]]
  /\ attempts' = [k \in Key |-> [x \in Store |-> 0]]
  /\ UNCHANGED <<redis, account, history, session, blocklist, code, thread,
                 requests, faults>>

-----------------------------------------------------------------------------
(* Signing in: the limiter is asked first, and told in a second step *)

Begin(t, p, way, channel, c) ==
  /\ Request
  /\ thread[t] = Idle
  /\ (way = "password") <=> (c = None)
  /\ way = "login" => channel = "app"      \* the portal has no login by code
  /\ ~RateLimited(KeyOf(way), p)
  /\ Become(t, [op |-> "begun", way |-> way, channel |-> channel, code |-> c, at |-> p])
  /\ UNCHANGED <<redis, account, history, session, blocklist, attempts, code, faults>>

\* The password is right and the account active, or not.
CheckPassword(t, channel) ==
  /\ thread[t].op = "begun" /\ thread[t].way = "password"
  /\ thread[t].channel = channel
  /\ RecordAttempt("login", thread[t].at)
  /\ \/ /\ registered /\ active /\ ~erased
        /\ Become(t, [op |-> "checked", channel |-> channel, epoch |-> epoch,
                      at |-> thread[t].at])
     \/ Become(t, Idle)
  /\ UNCHANGED <<redis, account, history, session, blocklist, code, requests, faults>>

Login(t) == CheckPassword(t, "app")
PortalLogin(t) == CheckPassword(t, "web")

\* .../otp/register/verify, .../otp/reset/verify: an attempt, and nothing else.
PeekCode(t) ==
  /\ thread[t].op = "begun" /\ thread[t].way \in {"register", "reset"}
  /\ RecordAttempt("otp", thread[t].at)
  /\ Become(t, Idle)
  /\ UNCHANGED <<redis, account, history, session, blocklist, code, requests, faults>>

\* The code is read: not found; found, but ten minutes old (a time that the
\* model leaves open), and marked used; or good.
ReadCode(t) ==
  /\ thread[t].op = "begun" /\ thread[t].way # "password"
  /\ RecordAttempt("otp", thread[t].at)
  /\ LET c == thread[t].code
         found == Fits(c, thread[t].way, thread[t].channel) IN
     \/ ~found /\ Become(t, Idle) /\ UNCHANGED code
     \/ found /\ Become(t, Idle) /\ code' = [code EXCEPT ![c].used = TRUE]
     \/ found /\ Become(t, [thread[t] EXCEPT !.op = "matched"]) /\ UNCHANGED code
  /\ UNCHANGED <<redis, account, history, session, blocklist, requests, faults>>

\* Mutant: a code is good until it expires.
MarkUsed_Not(c) == code

\* Nobody looks again whether another request has used it.
MarkUsed(c) == [code EXCEPT ![c].used = TRUE]

SpendCode(t, way) ==
  /\ thread[t].op = "matched" /\ thread[t].way = way
  /\ LET c == thread[t].code IN
     /\ code' = MarkUsed(c)
     /\ spent' = [spent EXCEPT ![c] = @ + 1]
     /\ raced' = IF code[c].used THEN raced \cup {c} ELSE raced

\* otp_verify: spent first, and the account read afterwards.
LoginByCode(t) ==
  /\ SpendCode(t, "login")
  /\ Become(t, IF active /\ ~erased
               THEN [op |-> "checked", channel |-> "app", epoch |-> epoch,
                     at |-> thread[t].at] ELSE Idle)
  /\ UNCHANGED <<redis, account, signedOut, slipped, session, blocklist, attempts,
                 requests, faults>>

\* The code is spent before the details are looked at.
CheckNew(t, channel) ==
  /\ SpendCode(t, "register")
  /\ thread[t].channel = channel
  /\ Become(t, IF registered THEN Idle
               ELSE [op |-> "creating", channel |-> channel, epoch |-> epoch, at |-> thread[t].at])
  /\ UNCHANGED <<redis, account, signedOut, slipped, session, blocklist, attempts,
                 requests, faults>>

Register(t) == CheckNew(t, "app")
PortalRegister(t) == CheckNew(t, "web")

\* The account's row; the unique columns refuse a second one.
CreateAccount(t) ==
  /\ thread[t].op = "creating"
  /\ registered' = TRUE
  /\ Become(t, IF registered THEN Idle ELSE [thread[t] EXCEPT !.op = "checked"])
  /\ UNCHANGED <<redis, active, erased, epoch, history, session, blocklist,
                 attempts, code, requests, faults>>

\* _create_user_session: the row is committed and the token handed out.
CreateSession(t, s) ==
  /\ thread[t].op = "checked" /\ ~Exists(s)
  /\ session' = [session EXCEPT ![s] =
       [channel |-> thread[t].channel, epoch |-> thread[t].epoch, row |-> "live"]]
  /\ slipped' = IF thread[t].epoch < epoch THEN slipped \cup {s} ELSE slipped
  /\ Become(t, Idle)
  /\ UNCHANGED <<redis, account, signedOut, spent, raced, blocklist, attempts,
                 code, requests, faults>>

-----------------------------------------------------------------------------
(* Signing out *)

Revoked(ended) ==
  [s \in Session |-> IF s \in ended THEN [session[s] EXCEPT !.row = "revoked"]
                     ELSE session[s]]

\* Mutant: the row is revoked and the token forgotten.
Blocking_None(ended, p) == blocklist

\* _add_to_jwt_blocklist for the ones of the app.
Blocking(ended, p) ==
  [blocklist EXCEPT ![StoreOf(p)] = @ \cup {s \in ended : session[s].channel = "app"}]

\* Mutant: every session but the oldest, kept as the current one.
Ended_Some == {s \in Session : Live(s) /\ session[s].epoch = epoch}

\* The rows of UserSession that are not revoked.
Ended == {s \in Session : Live(s)}

Revoke(p, s) ==
  /\ Request
  /\ session' = Revoked({s} \cap Ended)
  /\ blocklist' = Blocking({s}, p)
  /\ UNCHANGED <<redis, account, history, attempts, code, thread, faults>>

\* From another session of the account.
RevokeFrom(p, s, channel) ==
  /\ Live(s)
  /\ \E other \in Session : Accepted(other, p) /\ session[other].channel = channel
  /\ Revoke(p, s)

RevokeDevice(p, s) == RevokeFrom(p, s, "app")
PortalRevokeDevice(p, s) == RevokeFrom(p, s, "web")

\* The blocklist and the row; the portal has only the row.
Logout(p, s) == Accepted(s, p) /\ session[s].channel = "app" /\ Revoke(p, s)
PortalLogout(p, s) == Accepted(s, p) /\ session[s].channel = "web" /\ Revoke(p, s)

\* The code and the new password, in one commit.
ResetPassword(t, channel) ==
  /\ SpendCode(t, "reset")
  /\ thread[t].channel = channel
  /\ epoch' = epoch + 1
  /\ Become(t, [op |-> "revoking", epoch |-> epoch', at |-> thread[t].at])
  /\ UNCHANGED <<redis, registered, active, erased, signedOut, slipped, session,
                 blocklist, attempts, requests, faults>>

OtpConfirmReset(t) == ResetPassword(t, "app")
PortalForgotPassword(t) == ResetPassword(t, "web")

\* admin_suspend_user.
Suspend(t, p) ==
  /\ Request
  /\ thread[t] = Idle /\ registered /\ active
  /\ active' = FALSE
  /\ epoch' = epoch + 1
  /\ Become(t, [op |-> "revoking", epoch |-> epoch', at |-> p])
  /\ UNCHANGED <<redis, registered, erased, history, session, blocklist, attempts,
                 code, faults>>

\* The second commit of both: _revoke_all_user_sessions,
\* _notify_user_of_suspension.
RevokeAll(t) ==
  /\ thread[t].op = "revoking"
  /\ session' = Revoked(Ended)
  /\ blocklist' = Blocking(Ended, thread[t].at)
  /\ signedOut' = IF thread[t].epoch > signedOut THEN thread[t].epoch ELSE signedOut
  /\ Become(t, Idle)
  /\ UNCHANGED <<redis, account, spent, raced, slipped, attempts, code, requests,
                 faults>>

Reinstate ==
  /\ Request
  /\ ~active /\ active' = TRUE
  /\ UNCHANGED <<redis, registered, erased, epoch, history, session, blocklist,
                 attempts, code, thread, faults>>

\* _erase_user_data: the rows are deleted; the tokens of the app live on, and
\* count only while the account stays inactive.
Erase ==
  /\ Request
  /\ registered /\ ~erased
  /\ erased' = TRUE /\ active' = FALSE
  /\ epoch' = epoch + 1 /\ signedOut' = epoch'
  /\ slipped' = slipped \cup {s \in Session : Exists(s) /\ session[s].channel = "app"}
  /\ session' = [s \in Session |-> IF Exists(s) THEN [session[s] EXCEPT !.row = "gone"]
                                   ELSE None]
  /\ UNCHANGED <<redis, registered, spent, raced, blocklist, attempts, code, thread,
                 faults>>

\* External: a process dies, with its requests and its memory.
Restart(p) ==
  /\ faults < MaxFaults /\ faults' = faults + 1
  /\ thread' = [t \in Thread |-> IF thread[t] # Idle /\ thread[t].at = p THEN Idle
                                 ELSE thread[t]]
  /\ blocklist' = [blocklist EXCEPT ![p] = {}]
  /\ attempts' = [k \in Key |-> [attempts[k] EXCEPT ![p] = 0]]
  /\ UNCHANGED <<redis, account, history, session, code, requests>>

Next ==
  \/ \E t \in Thread, p \in Proc :
       \/ \E purpose \in Purpose : AskForCode(t, p, purpose)
       \/ Suspend(t, p)
  \/ \E t \in Thread, c \in Code : InsertCode(t, c)
  \/ \E t \in Thread, p \in Proc, way \in Way, channel \in Channel,
        c \in Code \cup {None} : Begin(t, p, way, channel, c)
  \/ \E t \in Thread :
       \/ OtpRequest(t) \/ OtpRequestForReset(t) \/ OtpRequestForRegistration(t)
       \/ Login(t) \/ PortalLogin(t) \/ PeekCode(t) \/ ReadCode(t) \/ LoginByCode(t)
       \/ Register(t) \/ PortalRegister(t) \/ CreateAccount(t)
       \/ OtpConfirmReset(t) \/ PortalForgotPassword(t) \/ RevokeAll(t)
  \/ \E t \in Thread, s \in Session : CreateSession(t, s)
  \/ \E p \in Proc, s \in Session :
       \/ RevokeDevice(p, s) \/ PortalRevokeDevice(p, s)
       \/ Logout(p, s) \/ PortalLogout(p, s)
  \/ \E p \in Proc : Restart(p)
  \/ WindowPasses \/ Reinstate \/ Erase

Spec == Init /\ [][Next]_vars

-----------------------------------------------------------------------------
(* Properties *)

\* A session revoked by its owner, a logout, a reset or a suspension is
\* refused by every process; without Redis this holds for the portal only.
RevokedIsOut ==
  \A s \in Session, p \in Proc :
    /\ Exists(s) /\ session[s].row = "revoked"
    /\ redis \/ session[s].channel = "web"
    => ~Accepted(s, p)

\* A completed reset, suspension or erasure ends every session that was there
\* before it, but those whose login was under way, and the app's after an
\* erasure that an admin undoes (_revoke_all_user_sessions).
SignedInIsCurrent ==
  \A s \in Session, p \in Proc :
    /\ Accepted(s, p)
    /\ redis \/ session[s].channel = "web"
    /\ session[s].epoch < signedOut
    => s \in slipped

\* A one-time code is good once, unless two requests had read it by then.
CodeIsSpentOnce ==
  \A c \in Code : spent[c] > 1 => c \in raced

\* Requests that have asked the limiter and have not told it yet.
LetIn == {"asking", "begun"}

\* In a window the limiter lets through no more than its limit, and what
\* other requests had asked before the last attempt was recorded.
AttemptsAreBounded ==
  \A k \in Key, x \in Store :
    attempts[k][x] + Cardinality({t \in Thread : thread[t].op \in LetIn /\
                                    KeyOf(thread[t].way) = k /\ StoreOf(thread[t].at) = x})
      <= Limit + Cardinality(Thread) - 1

\* Of one purpose one code is good, the last, unless two were asked for at once.
LastCodeOnly ==
  \A purpose \in Purpose :
    Cardinality({c \in Code \ raced : Unspent(c, purpose)}) <= 1
=============================================================================
