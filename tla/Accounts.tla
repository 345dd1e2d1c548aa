------------------------------ MODULE Accounts ------------------------------
(***************************************************************************)
(* Accounts of workers (User) and employers (Employer) in backend/app.py:  *)
(* suspension and reinstatement, the cases that people file (reports,      *)
(* appeals, rating flags, duplicate flags) and admins decide, the files    *)
(* that an account uploads, the employer's verification badge, and the     *)
(* erasure of an account.                                                  *)
(*                                                                         *)
(* Requests run in several threads and commit when they commit: what a     *)
(* request has read may be stale when it writes.  log_event commits, or    *)
(* rolls back, whatever the session holds, so a decision takes effect in   *)
(* two commits.  The object mapper writes a column only when the value     *)
(* assigned differs from the one it loaded.                                *)
(***************************************************************************)
EXTENDS Naturals, FiniteSets

CONSTANTS
  Worker, Employer,
  Case,        \* rows of the tables of reports, appeals and flags
  Thread,      \* requests that the server handles at one time
  Kind,        \* bound: kinds of case that are filed
  None,
  MaxFiles,    \* bound: files that one account uploads
  MaxRequests, \* bound: requests of one behaviour
  MaxFaults    \* bound: worker deaths, failures of log_event and of a removal

Account == Worker \cup Employer

ASSUME AccountsAssumption ==
  /\ Worker \cap Employer = {} /\ None \notin Account
  /\ Kind \subseteq {"report", "listing", "flag", "duplicate", "appeal"}
  /\ MaxFiles \in Nat /\ MaxRequests \in Nat /\ MaxFaults \in Nat

VARIABLES
  active,       \* the column active
  erased,       \* accounts with erased_at
  case,         \* the tables of cases: a row or None
  thread,       \* requests under way
  disk,         \* files in the upload folders
  uploads,      \* files that each account has uploaded: they name the next
  named,        \* files that an account's rows name
  badge,        \* Employer.verification_status
  shown,        \* history: documents that the admins' page has shown
  unreviewed,   \* history: documents that a badge reached unseen
  late,         \* history: cases filed while their party was being erased
  stray,        \* history: files no row named when erasure looked
  replaced,     \* history: documents that a later submission replaced
  unremoved,    \* history: files that an erasure failed to remove
  dropped,      \* history: cases whose lever log_event rolled back
  undone,       \* history: cases whose lever was reversed afterwards
  halted,       \* history: accounts whose erasure died half way
  requests,     \* requests so far
  faults

rows == <<active, erased, case>>
files == <<disk, uploads, named, badge>>
history == <<shown, unreviewed, late, stray, replaced, unremoved, dropped, undone,
             halted>>
vars == <<rows, files, history, thread, requests, faults>>

File == [owner : Account, number : 1 .. MaxFiles]
Badge == {"unverified", "pending", "verified", "rejected"}

\* A decision grants a case (suspend, reinstate, hide, remove) or refuses it.
Row == [kind : Kind, by : Account, about : Account \cup {None},
        status : {"open", "granted", "refused"}]

ASSUME NoneAssumption == None \notin Row

Idle == [op |-> "idle"]
Filing == [op : {"filing"}, kind : Kind, by : Account, about : Account \cup {None}]
Deciding == [op : {"loaded"}, case : Case, due : BOOLEAN]
            \cup [op : {"deciding"}, case : Case]
Uploading == [op : {"scanning"}, account : Account, was : Badge]
             \cup [op : {"saved"}, file : File, was : Badge]
Erasing == [op : {"erasing"}, account : Account, files : SUBSET File, was : BOOLEAN]

TypeOK ==
  /\ active \in [Account -> BOOLEAN]
  /\ erased \subseteq Account
  /\ case \in [Case -> Row \cup {None}]
  /\ thread \in [Thread -> {Idle} \cup Filing \cup Deciding \cup Uploading \cup Erasing]
  /\ disk \subseteq File
  /\ uploads \in [Account -> 0 .. MaxFiles]
  /\ named \in [Account -> SUBSET File]
  /\ badge \in [Employer -> Badge]
  /\ shown \cup unreviewed \cup stray \cup replaced \cup unremoved \subseteq File
  /\ late \cup dropped \cup undone \subseteq Case
  /\ halted \subseteq Account
  /\ requests \in 0 .. MaxRequests /\ faults \in 0 .. MaxFaults

Init ==
  /\ active = [a \in Account |-> TRUE]
  /\ erased = {}
  /\ case = [c \in Case |-> None]
  /\ thread = [t \in Thread |-> Idle]
  /\ disk = {}
  /\ uploads = [a \in Account |-> 0]
  /\ named = [a \in Account |-> {}]
  /\ badge = [e \in Employer |-> "unverified"]
  /\ shown = {} /\ unreviewed = {} /\ stray = {} /\ replaced = {} /\ unremoved = {}
  /\ late = {} /\ dropped = {} /\ undone = {} /\ halted = {}
  /\ requests = 0 /\ faults = 0

-----------------------------------------------------------------------------
Become(t, request) == thread' = [thread EXCEPT ![t] = request]
Filed(c) == case[c] # None
Parties(c) == {case[c].by, case[c].about} \ {None}

\* Mutant: disputes that the account is the subject of are not looked for.
Holds_FiledOnly(a) ==
  {c \in Case : Filed(c) /\ case[c].status = "open" /\ case[c].by = a}

\* _open_erasure_holds: open disputes that a is a direct party to.
Holds(a) ==
  {c \in Case : Filed(c) /\ case[c].status = "open" /\ a \in Parties(c)}

\* The bound on requests: one more.
Request == requests < MaxRequests /\ requests' = requests + 1

BeingErased(a) ==
  a \in erased \/ \E t \in Thread : thread[t].op = "erasing" /\ thread[t].account = a

OfKind(kind, party) ==
  {c \in Case : Filed(c) /\ case[c].kind = kind /\ party \in {case[c].by, case[c].about}}

\* What setting active to the given value reverses.
Reversed(a, value) ==
  IF active[a] = value THEN {} ELSE OfKind(IF value THEN "report" ELSE "appeal", a)

-----------------------------------------------------------------------------
(* Suspension by an admin, without a case *)

SetActive(a, value) ==
  /\ Request
  /\ active[a] # value
  /\ active' = [active EXCEPT ![a] = value]
  /\ undone' = undone \cup Reversed(a, value)
  /\ UNCHANGED <<erased, case, thread, files, shown, unreviewed, late, stray,
                 replaced, unremoved, dropped, halted, faults>>

\* admin_suspend_*, admin_reinstate_*: nobody looks at erased_at.
SetUserActive(w, value) == w \in Worker /\ SetActive(w, value)
SetEmployerActive(e, value) == e \in Employer /\ SetActive(e, value)

-----------------------------------------------------------------------------
(* Cases *)

MayReport(by, about) == by \in Worker /\ about \in Employer /\ active[by]
MayReportListing(by, about) == by \in Worker /\ about = None /\ active[by]
MayFlag(by, about) == about = None /\ active[by]

\* _check_duplicate_signals, when by registers.
MayPair(by, about) ==
  by \in Worker /\ about \in Worker /\ by # about /\ active[by]

\* By e-mail address and password, which erasure makes unusable.
MayAppeal(by, about) ==
  /\ about = None /\ ~active[by] /\ by \notin erased
  /\ \A c \in OfKind("appeal", by) : case[c].status # "open"

MayFile(kind, by, about) ==
  \/ kind = "report" /\ MayReport(by, about)
  \/ kind = "listing" /\ MayReportListing(by, about)
  \/ kind = "flag" /\ MayFlag(by, about)
  \/ kind = "duplicate" /\ MayPair(by, about)
  \/ kind = "appeal" /\ MayAppeal(by, about)

StartFiling(t, kind, by, about) ==
  /\ Request
  /\ thread[t] = Idle
  /\ MayFile(kind, by, about)
  /\ Become(t, [op |-> "filing", kind |-> kind, by |-> by, about |-> about])
  /\ UNCHANGED <<rows, files, history, faults>>

FileCase(t, c) ==
  /\ thread[t].op = "filing" /\ ~Filed(c)
  /\ LET q == thread[t] IN
     /\ case' = [case EXCEPT ![c] = [kind |-> q.kind, by |-> q.by,
                                     about |-> q.about, status |-> "open"]]
     /\ late' = IF BeingErased(q.by) \/ (q.about # None /\ BeingErased(q.about))
                THEN late \cup {c} ELSE late
  /\ Become(t, Idle)
  /\ UNCHANGED <<active, erased, files, shown, unreviewed, stray, replaced,
                 unremoved, dropped, undone, halted, faults, requests>>

\* A decision.  None of the routes asks whether c is still open.
Decide(t, c) ==
  Request /\ thread[t] = Idle /\ Filed(c) /\ case[c].kind # "duplicate"

\* Dismissed or denied: one commit.
Refuse(t, c) ==
  /\ Decide(t, c)
  /\ case' = [case EXCEPT ![c].status = "refused"]
  /\ UNCHANGED <<active, erased, thread, files, history, faults>>

ResolveDuplicate(t, c) ==
  /\ Request /\ thread[t] = Idle
  /\ Filed(c) /\ case[c].kind = "duplicate" /\ case[c].status = "open"
  /\ case' = [case EXCEPT ![c].status = "refused"]
  /\ UNCHANGED <<active, erased, thread, files, history, faults>>

\* A granted report suspends the employer, a granted appeal reinstates.
HasLever(c) == case[c].kind \in {"report", "appeal"}
Subject(c) == IF case[c].kind = "report" THEN case[c].about ELSE case[c].by
Value(c) == case[c].kind = "appeal"
InPlace(c) == HasLever(c) => active[Subject(c)] = Value(c)

\* Granted: the account is loaded; a change is due if it does not have the value
\* yet.  An account that has it will not be written.
LoadLever(t, c) ==
  /\ Decide(t, c)
  /\ Become(t, [op |-> "loaded", case |-> c, due |-> ~InPlace(c)])
  /\ undone' = IF InPlace(c) THEN undone \ {c} ELSE undone
  /\ dropped' = IF InPlace(c) THEN dropped \ {c} ELSE dropped
  /\ UNCHANGED <<rows, files, shown, unreviewed, late, stray, replaced, unremoved,
                 halted, faults>>

\* Mutant: nothing is committed before the status.
PullLever_Late(t) ==
  /\ thread[t].op = "loaded"
  /\ Become(t, [op |-> "deciding", case |-> thread[t].case])
  /\ UNCHANGED <<rows, files, history, faults, requests>>

\* The lever is set and log_event commits it, ...
PullLever(t) ==
  /\ thread[t].op = "loaded"
  /\ LET c == thread[t].case
         a == Subject(c) IN
     /\ Become(t, [op |-> "deciding", case |-> c])
     /\ IF thread[t].due
        THEN /\ active' = [active EXCEPT ![a] = Value(c)]
             /\ undone' = (undone \cup Reversed(a, Value(c))) \ {c}
             /\ dropped' = dropped \ {c}
        ELSE UNCHANGED <<active, undone, dropped>>
  /\ UNCHANGED <<erased, case, files, shown, unreviewed, late, stray, replaced,
                 unremoved, halted, faults, requests>>

\* ... or fails, rolls it back and says nothing.
LoseLever(t) ==
  /\ thread[t].op = "loaded"
  /\ faults < MaxFaults
  /\ dropped' = IF thread[t].due THEN dropped \cup {thread[t].case} ELSE dropped
  /\ Become(t, [op |-> "deciding", case |-> thread[t].case])
  /\ faults' = faults + 1
  /\ UNCHANGED <<rows, files, shown, unreviewed, late, stray, replaced, unremoved,
                 undone, halted, requests>>

\* The second commit: the status, whatever it is by now.
Settle(t) ==
  /\ thread[t].op = "deciding"
  /\ case' = [case EXCEPT ![thread[t].case].status = "granted"]
  /\ Become(t, Idle)
  /\ UNCHANGED <<active, erased, files, history, faults, requests>>

-----------------------------------------------------------------------------
(* Uploads: an employer's verification document replaces the last one; a    *)
(* worker's credential, application or attachment is a row more *)

StartUpload(t, a) ==
  /\ Request
  /\ thread[t] = Idle /\ active[a]
  /\ Become(t, [op |-> "scanning", account |-> a,
                was |-> IF a \in Employer THEN badge[a] ELSE "unverified"])
  /\ UNCHANGED <<rows, files, history, faults>>

\* A file type, a content check or the malware scan.
RefuseUpload(t) ==
  /\ thread[t].op = "scanning"
  /\ Become(t, Idle)
  /\ UNCHANGED <<rows, files, history, faults, requests>>

SaveFile(t) ==
  /\ thread[t].op = "scanning"
  /\ LET a == thread[t].account
         file == [owner |-> a, number |-> uploads[a] + 1] IN
     /\ uploads[a] < MaxFiles
     /\ uploads' = [uploads EXCEPT ![a] = @ + 1]
     /\ disk' = disk \cup {file}
     /\ stray' = stray \cup {file}
     /\ Become(t, [op |-> "saved", file |-> file, was |-> thread[t].was])
  /\ UNCHANGED <<rows, named, badge, shown, unreviewed, late, replaced, unremoved,
                 dropped, undone, halted, faults, requests>>

\* Mutant: only the first submission asks for a review.
NewBadge_First(a, was) ==
  IF a \in Employer /\ was = "unverified" THEN [badge EXCEPT ![a] = "pending"] ELSE badge

\* "pending" is written only if the request had not loaded "pending".
NewBadge(a, was) ==
  IF a \in Employer /\ was # "pending" THEN [badge EXCEPT ![a] = "pending"] ELSE badge

NameFile(t) ==
  /\ thread[t].op = "saved"
  /\ LET file == thread[t].file
         a == file.owner
         old == IF a \in Employer THEN named[a] \ {file} ELSE {} IN
     /\ named' = [named EXCEPT ![a] = (@ \ old) \cup {file}]
     /\ badge' = NewBadge(a, thread[t].was)
     /\ replaced' = replaced \cup old
     /\ stray' = IF BeingErased(a) THEN stray ELSE stray \ {file}
     /\ unreviewed' = IF a \in Employer /\ thread[t].was = "pending" /\ badge[a] # "pending"
                      THEN unreviewed \cup {file} ELSE unreviewed
  /\ Become(t, Idle)
  /\ UNCHANGED <<rows, disk, uploads, shown, late, unremoved, dropped, undone,
                 halted, faults, requests>>

\* admin_employer_verifications shows a pending document, ...
ShowDocument(e) ==
  /\ Request
  /\ badge[e] = "pending" /\ ~(named[e] \subseteq shown)
  /\ shown' = shown \cup named[e]
  /\ UNCHANGED <<rows, files, unreviewed, late, stray, replaced, unremoved,
                 dropped, undone, halted, thread, faults>>

\* ... and the decision is for the employer, pending or not.
DecideBadge(e, decision) ==
  /\ Request
  /\ \E f \in shown : f.owner = e
  /\ badge' = [badge EXCEPT ![e] = decision]
  /\ unreviewed' = IF decision = "verified" THEN unreviewed \cup (named[e] \ shown)
                   ELSE unreviewed
  /\ UNCHANGED <<rows, disk, uploads, named, shown, late, stray, replaced,
                 unremoved, dropped, undone, halted, thread, faults>>

-----------------------------------------------------------------------------
(* Erasure *)

\* Mutant: without the files, which are left to a later clean-up.
Found_None(a) == {}

\* The files that the rows name when the erasure looks.
Found(a) == named[a]

\* No holds, and the files that the rows name are removed from the disk; an
\* OSError is logged, and the file stays.
EraseFiles(t, a) ==
  /\ Request
  /\ thread[t] = Idle
  /\ Holds(a) = {}
  /\ \E kept \in SUBSET (Found(a) \cap disk) :
       /\ kept # {} => faults < MaxFaults
       /\ faults' = IF kept = {} THEN faults ELSE faults + 1
       /\ disk' = disk \ (Found(a) \ kept)
       /\ unremoved' = (unremoved \ Found(a)) \cup kept
  /\ Become(t, [op |-> "erasing", account |-> a, files |-> Found(a), was |-> active[a]])
  /\ UNCHANGED <<rows, uploads, named, badge, shown, unreviewed, late, stray, replaced,
                 dropped, undone, halted>>

\* With the account's login and password.
EraseOwnAccount(t, w) == w \in Worker /\ active[w] /\ EraseFiles(t, w)
EraseOwnEmployer(t, e) == e \in Employer /\ active[e] /\ EraseFiles(t, e)

\* An admin's request may also find a suspended or an erased account.
AdminErase(t, a) == ~active[a] /\ EraseFiles(t, a)

\* Mutant: the rows go on naming the files.
Unnamed_None(a, found) == named

\* The credentials deleted and the columns nulled, of the rows found; an
\* employer's document column, if it held one.
Unnamed(a, found) ==
  [named EXCEPT ![a] = IF a \in Employer /\ found # {} THEN {} ELSE @ \ found]

\* active is written only if the account was loaded with it set.
EraseRows(t) ==
  /\ thread[t].op = "erasing"
  /\ LET a == thread[t].account IN
     /\ named' = Unnamed(a, thread[t].files)
     /\ erased' = erased \cup {a}
     /\ IF thread[t].was
        THEN /\ active' = [active EXCEPT ![a] = FALSE]
             /\ undone' = undone \cup Reversed(a, FALSE)
        ELSE UNCHANGED <<active, undone>>
  /\ Become(t, Idle)
  /\ UNCHANGED <<case, disk, uploads, badge, shown, unreviewed, late, stray,
                 replaced, unremoved, dropped, halted, faults, requests>>

\* External: the worker process dies, or the database refuses the commit.
Crash(t) ==
  /\ faults < MaxFaults
  /\ thread[t] # Idle
  /\ halted' = IF thread[t].op = "erasing" THEN halted \cup {thread[t].account} ELSE halted
  /\ Become(t, Idle)
  /\ faults' = faults + 1
  /\ UNCHANGED <<rows, files, shown, unreviewed, late, stray, replaced, unremoved,
                 dropped, undone, requests>>

Next ==
  \/ \E a \in Account, value \in BOOLEAN :
       SetUserActive(a, value) \/ SetEmployerActive(a, value)
  \/ \E t \in Thread, kind \in Kind, by \in Account, about \in Account \cup {None} :
       StartFiling(t, kind, by, about)
  \/ \E t \in Thread, c \in Case :
       \/ FileCase(t, c) \/ Refuse(t, c) \/ ResolveDuplicate(t, c)
       \/ LoadLever(t, c)
  \/ \E t \in Thread, a \in Account : 
       \/ StartUpload(t, a) \/ EraseOwnAccount(t, a) \/ EraseOwnEmployer(t, a)
       \/ AdminErase(t, a)
  \/ \E t \in Thread :
       \/ PullLever(t) \/ LoseLever(t) \/ Settle(t) \/ RefuseUpload(t) \/ SaveFile(t) \/ NameFile(t)
       \/ EraseRows(t) \/ Crash(t)
  \/ \E e \in Employer : ShowDocument(e)
  \/ \E e \in Employer, decision \in {"verified", "rejected"} : DecideBadge(e, decision)

Spec == Init /\ [][Next]_vars

-----------------------------------------------------------------------------
(* Properties *)

\* An account is not erased over a dispute: an open case of an erased account
\* was filed after the erasure had looked (_open_erasure_holds).
ErasureWaits ==
  \A c \in Case :
    Filed(c) /\ case[c].status = "open" /\ c \notin late =>
      case[c].by \notin erased /\ case[c].about \notin erased

\* A case recorded as granted has taken effect: the reported employer is
\* suspended, the appellant reinstated, unless somebody reversed it after the
\* decision had loaded the account, or log_event rolled the lever back
\* (admin_resolve_report, *_appeal).
GrantedIsEffective ==
  \A c \in Case :
    Filed(c) /\ case[c].status = "granted" /\ c \notin dropped \cup undone =>
      /\ case[c].kind = "report" => ~active[case[c].about]
      /\ case[c].kind = "appeal" => active[case[c].by]

\* Files of an erased account on the disk are those erasure could not know, of
\* requests under way, of requests that died, and replaced documents; and those
\* that it knew and failed to remove.
ErasedLeavesFew ==
  \A f \in disk : f.owner \in erased => f \in stray \cup replaced \cup unremoved

\* A row names a missing file only while an erasure is under way, or where
\* one has died half way (_erase_user_data removes files before it commits).
NamedIsOnDisk ==
  \A a \in Account : \A f \in named[a] \ disk :
    \/ a \in halted
    \/ \E t \in Thread : thread[t].op = "erasing" /\ f \in thread[t].files

\* A badge is for a document an admin has seen, but for the two races: the
\* page was stale, or a submission overtook the decision.
BadgeIsReviewed ==
  \A e \in Employer :
    badge[e] = "verified" => named[e] \subseteq shown \cup unreviewed
=============================================================================
