--------------------------- MODULE AccountsProofs ---------------------------
(***************************************************************************)
(* Proofs about Accounts, for any accounts, cases, uploads and any number  *)
(* of threads, requests and faults.                                        *)
(***************************************************************************)
EXTENDS Accounts, TLAPS

-----------------------------------------------------------------------------
(* The inductive invariant *)

AnyRequest == {Idle} \cup Filing \cup Deciding \cup Uploading \cup Erasing

\* What is open about an account that is being erased came too late.
HoldsAreLate ==
  \A a \in Account : \A c \in Case :
    BeingErased(a) /\ Filed(c) /\ case[c].status = "open" /\ a \in {case[c].by, case[c].about}
      => c \in late

\* Only employers are reported.
ReportsAreOfEmployers ==
  /\ \A c \in Case : Filed(c) /\ case[c].kind = "report" => case[c].about \in Employer
  /\ \A t \in Thread :
       thread[t].op = "filing" /\ thread[t].kind = "report" => thread[t].about \in Employer

\* The lever of c is set, or known to have been lost or reversed.
Effective(c) ==
  c \notin dropped \cup undone =>
    /\ case[c].kind = "report" => ~active[case[c].about]
    /\ case[c].kind = "appeal" => active[case[c].by]

\* So it is for decisions half way, and for those that found it set.
DecisionsAreEffective ==
  /\ \A c \in Case : Filed(c) /\ case[c].status = "granted" => Effective(c)
  /\ \A t \in Thread :
       /\ thread[t].op \in {"loaded", "deciding"} => Filed(thread[t].case)
       /\ thread[t].op = "deciding" => Effective(thread[t].case)
       /\ thread[t].op = "loaded" =>
            IF thread[t].due THEN HasLever(thread[t].case) ELSE Effective(thread[t].case)

\* Uploads are numbered, and a file that no row names yet is its request's.
Known(f) == f.number <= uploads[f.owner]
Saved(t) == thread[t].op = "saved"

FilesAreKnown ==
  /\ \A f \in disk : Known(f)
  /\ \A a \in Account : \A f \in named[a] : Known(f) /\ f.owner = a
  /\ \A t \in Thread :
       /\ thread[t].op = "erasing" =>
            \A f \in thread[t].files :
              Known(f) /\ f.owner = thread[t].account
       /\ Saved(t) =>
            /\ Known(thread[t].file) /\ thread[t].file \in disk \cap stray
            /\ thread[t].file \notin named[thread[t].file.owner]
            /\ \A u \in Thread : u # t /\ Saved(u) => thread[u].file # thread[t].file

\* A file on the disk is named, or nothing but its history names it.
FilesAreNamed ==
  \A f \in disk :
    /\ f \in named[f.owner] \cup stray \cup replaced \cup unremoved
    /\ BeingErased(f.owner) => f \in stray \cup replaced \cup unremoved

AccountsInv ==
  /\ TypeOK /\ HoldsAreLate /\ ReportsAreOfEmployers /\ DecisionsAreEffective
  /\ FilesAreKnown /\ FilesAreNamed /\ NamedIsOnDisk /\ BadgeIsReviewed

-----------------------------------------------------------------------------
(* Types *)

LEMMA RequestFields ==
  ASSUME NEW r \in AnyRequest
  PROVE  /\ r.op = "filing" => r.kind \in Kind /\ r.by \in Account /\ r.about \in Account \cup {None}
         /\ r.op = "loaded" => r.case \in Case /\ r.due \in BOOLEAN
         /\ r.op = "deciding" => r.case \in Case
         /\ r.op = "scanning" => r.account \in Account /\ r.was \in Badge
         /\ r.op = "saved" => r.file \in File /\ r.was \in Badge
         /\ r.op = "erasing" => r.account \in Account /\ r.files \subseteq File /\ r.was \in BOOLEAN
BY DEF AnyRequest, Idle, Filing, Deciding, Uploading, Erasing

LEMMA FileFields ==
  ASSUME NEW f \in File
  PROVE  f.owner \in Account /\ f.number \in 1 .. MaxFiles
BY DEF File

LEMMA ThreadTyped ==
  ASSUME TypeOK, NEW t \in Thread, NEW r \in AnyRequest, Become(t, r)
  PROVE  /\ thread' \in [Thread -> AnyRequest]
         /\ \A u \in Thread : thread'[u] = IF u = t THEN r ELSE thread[u]
BY DEF TypeOK, AnyRequest, Become

LEMMA IdleTyped == Idle \in AnyRequest /\ Idle.op = "idle"
BY DEF AnyRequest, Idle

\* The status of a case changes and nothing else of it.
LEMMA CaseStatus ==
  ASSUME TypeOK, NEW c \in Case, Filed(c), NEW s \in {"open", "granted", "refused"},
         case' = [case EXCEPT ![c].status = s]
  PROVE  /\ case' \in [Case -> Row \cup {None}]
         /\ \A d \in Case : /\ Filed(d)' <=> Filed(d)
                            /\ Filed(d) => /\ case'[d].kind = case[d].kind
                                           /\ case'[d].by = case[d].by
                                           /\ case'[d].about = case[d].about
                            /\ d # c => case'[d] = case[d]
         /\ case'[c].status = s
<1>1. case[c] \in Row /\ case \in [Case -> Row \cup {None}]
  BY DEF TypeOK, Filed
<1>2. LET r == [case[c] EXCEPT !.status = s]
      IN  /\ r \in Row /\ r.kind = case[c].kind /\ r.by = case[c].by
          /\ r.about = case[c].about /\ r.status = s
  BY <1>1 DEF Row
<1>3. case'[c] = [case[c] EXCEPT !.status = s] /\ \A d \in Case : d # c => case'[d] = case[d]
  BY <1>1
<1>4. case' \in [Case -> Row \cup {None}]
  BY <1>1, <1>2
<1> QED
  BY <1>1, <1>2, <1>3, <1>4, NoneAssumption DEF Filed

-----------------------------------------------------------------------------
(* Parts that an action leaves alone *)

\* Cases and accounts stay, and the files with them.
LEMMA CasesRest ==
  ASSUME AccountsInv, UNCHANGED <<active, case, late, dropped, undone>>,
         \A a \in Account : BeingErased(a)' => BeingErased(a),
         \A t \in Thread : thread'[t].op \in {"filing", "loaded", "deciding"} => thread'[t] = thread[t]
  PROVE  HoldsAreLate' /\ ReportsAreOfEmployers' /\ DecisionsAreEffective'
<1>1. HoldsAreLate'
  BY DEF AccountsInv, HoldsAreLate, Filed
<1>2. ReportsAreOfEmployers' /\ DecisionsAreEffective'
  BY DEF AccountsInv, ReportsAreOfEmployers, DecisionsAreEffective, Effective, HasLever, Filed
<1> QED
  BY <1>1, <1>2

LEMMA FilesRest ==
  ASSUME AccountsInv, UNCHANGED <<files, shown, unreviewed, stray, replaced, unremoved>>,
         halted \subseteq halted',
         \A a \in Account : BeingErased(a)' => BeingErased(a),
         \A t \in Thread :
           /\ thread'[t].op \in {"saved", "erasing"} => thread'[t] = thread[t]
           /\ thread[t].op = "erasing" => thread'[t] = thread[t] \/ thread[t].account \in halted'
  PROVE  FilesAreKnown' /\ FilesAreNamed' /\ NamedIsOnDisk' /\ BadgeIsReviewed'
<1> USE DEF files
<1>1. FilesAreKnown'
  BY DEF AccountsInv, FilesAreKnown, Known, Saved
<1>2. FilesAreNamed'
  <2>1. \A f \in disk : f.owner \in Account
    BY FileFields DEF AccountsInv, TypeOK
  <2> QED
    BY <2>1 DEF AccountsInv, FilesAreNamed
<1>3. NamedIsOnDisk'
  <2>1. \A a \in Account : \A f \in named[a] : f.owner = a
    BY DEF AccountsInv, FilesAreKnown
  <2>2. \A t \in Thread : thread[t].op = "erasing" =>
           \A f \in thread[t].files : f.owner = thread[t].account
    BY DEF AccountsInv, FilesAreKnown
  <2> QED
    BY <2>1, <2>2 DEF AccountsInv, NamedIsOnDisk
<1>4. BadgeIsReviewed'
  BY DEF AccountsInv, BadgeIsReviewed
<1> QED
  BY <1>1, <1>2, <1>3, <1>4

-----------------------------------------------------------------------------
(* Suspension and cases *)

\* When active changes, the levers it reverses are known.
LEMMA ReversedIsKnown ==
  ASSUME AccountsInv, NEW a \in Account, NEW value \in BOOLEAN,
         active' = [active EXCEPT ![a] = value], undone' = undone \cup Reversed(a, value),
         UNCHANGED <<case, dropped>>,
         \A t \in Thread :
           thread'[t].op \in {"loaded", "deciding"} => thread'[t] = thread[t]
  PROVE  DecisionsAreEffective'
<1>1. \A b \in Account : active'[b] = IF b = a THEN value ELSE active[b]
  BY DEF AccountsInv, TypeOK
<1>2. ASSUME NEW c \in Case, Filed(c), Effective(c) PROVE Effective(c)'
  <2>1. case[c].by \in Account
    BY <1>2 DEF AccountsInv, TypeOK, Filed, Row
  <2>2. case[c].kind = "report" => case[c].about \in Account
    BY <1>2 DEF AccountsInv, ReportsAreOfEmployers, Account
  <2> QED
    BY <1>1, <1>2, <2>1, <2>2 DEF Effective, Reversed, OfKind
<1>3. \A t \in Thread : thread[t].op \in {"loaded", "deciding"} => thread[t].case \in Case
  BY RequestFields DEF AccountsInv, TypeOK, AnyRequest
<1>4. \A c \in Case : Filed(c)' /\ case'[c].status = "granted" => Effective(c)'
  BY <1>2 DEF AccountsInv, DecisionsAreEffective, Filed
<1>5. ASSUME NEW t \in Thread, thread'[t].op \in {"loaded", "deciding"}
      PROVE  /\ Filed(thread[t].case)' /\ thread'[t] = thread[t]
             /\ thread[t].op = "deciding" \/ ~thread[t].due => Effective(thread[t].case)'
             /\ thread[t].op = "loaded" /\ thread[t].due => HasLever(thread[t].case)'
  <2>1. PICK c \in Case : c = thread[t].case
    BY <1>3, <1>5
  <2>2. thread'[t] = thread[t] /\ Filed(c)
    BY <1>5, <2>1 DEF AccountsInv, DecisionsAreEffective
  <2>3. thread[t].op = "deciding" \/ ~thread[t].due => Effective(c)
    BY <1>5, <2>1, <2>2 DEF AccountsInv, DecisionsAreEffective
  <2>4. Filed(c)' /\ (Effective(c) => Effective(c)') /\ (HasLever(c) => HasLever(c)')
    BY <1>2, <2>2 DEF Filed, HasLever
  <2>5. thread[t].op = "loaded" /\ thread[t].due => HasLever(c)
    BY <2>1 DEF AccountsInv, DecisionsAreEffective
  <2> QED
    BY <2>1, <2>2, <2>3, <2>4, <2>5
<1> QED
  BY <1>4, <1>5 DEF DecisionsAreEffective

LEMMA SetActiveKeeps ==
  ASSUME AccountsInv, NEW a \in Account, NEW value \in BOOLEAN, SetActive(a, value)
  PROVE  AccountsInv'
<1> USE DEF SetActive, BeingErased
<1>1. TypeOK'
  <2>1. active' \in [Account -> BOOLEAN] /\ Reversed(a, value) \subseteq Case
    BY DEF AccountsInv, TypeOK, Reversed, OfKind
  <2>2. requests' \in 0 .. MaxRequests
    BY AccountsAssumption DEF AccountsInv, TypeOK, Request
  <2> QED
    BY <2>1, <2>2 DEF AccountsInv, TypeOK, files
<1>2. HoldsAreLate' /\ ReportsAreOfEmployers'
  BY DEF AccountsInv, HoldsAreLate, ReportsAreOfEmployers, Filed
<1>3. DecisionsAreEffective'
  BY ReversedIsKnown
<1>4. FilesAreKnown' /\ FilesAreNamed' /\ NamedIsOnDisk' /\ BadgeIsReviewed'
  BY FilesRest
<1> QED
  BY <1>1, <1>2, <1>3, <1>4 DEF AccountsInv

LEMMA StartFilingKeeps ==
  ASSUME AccountsInv, NEW t \in Thread, NEW kind \in Kind, NEW by \in Account,
         NEW about \in Account \cup {None}, StartFiling(t, kind, by, about)
  PROVE  AccountsInv'
<1> DEFINE r == [op |-> "filing", kind |-> kind, by |-> by, about |-> about]
<1>1. r \in AnyRequest /\ r.op = "filing" /\ r.kind = kind /\ r.about = about
  BY DEF AnyRequest, Filing
<1>u. Become(t, r) /\ UNCHANGED <<rows, files, history, faults>> /\ Request
  BY DEF StartFiling
<1> HIDE DEF r
<1>2. /\ thread' \in [Thread -> AnyRequest]
      /\ \A u \in Thread : thread'[u] = IF u = t THEN r ELSE thread[u]
  BY <1>1, <1>u, ThreadTyped DEF AccountsInv
<1>3. thread[t].op = "idle"
  BY IdleTyped DEF StartFiling
<1>4. \A a \in Account : BeingErased(a)' => BeingErased(a)
  BY <1>u, <1>1, <1>2 DEF BeingErased, rows
<1>5. TypeOK'
  BY <1>u, <1>2, AccountsAssumption DEF AccountsInv, TypeOK, Request, rows, files, history, AnyRequest
<1>6. HoldsAreLate'
  BY <1>u, <1>4 DEF AccountsInv, HoldsAreLate, Filed, rows, history
<1>7. ReportsAreOfEmployers'
  <2>1. kind = "report" => about \in Employer
    BY DEF StartFiling, MayFile, MayReport
  <2> QED
    BY <1>u, <1>1, <1>2, <2>1 DEF AccountsInv, ReportsAreOfEmployers, Filed, rows
<1>8. DecisionsAreEffective'
  BY <1>u, <1>1, <1>2 DEF AccountsInv, DecisionsAreEffective, Effective, HasLever, Filed, rows, history
<1>9. FilesAreKnown' /\ FilesAreNamed' /\ NamedIsOnDisk' /\ BadgeIsReviewed'
  BY <1>u, <1>1, <1>2, <1>3, <1>4, FilesRest DEF history
<1> QED
  BY <1>5, <1>6, <1>7, <1>8, <1>9 DEF AccountsInv

LEMMA FileCaseKeeps ==
  ASSUME AccountsInv, NEW t \in Thread, NEW c \in Case, FileCase(t, c)
  PROVE  AccountsInv'
<1> DEFINE q == thread[t]
           row == [kind |-> q.kind, by |-> q.by, about |-> q.about, status |-> "open"]
<1>1. q \in AnyRequest /\ q.op = "filing"
  BY DEF FileCase, AccountsInv, TypeOK, AnyRequest
<1>2. q.kind \in Kind /\ q.by \in Account /\ q.about \in Account \cup {None}
  BY <1>1, RequestFields
<1>3. /\ row \in Row /\ row # None /\ row.kind = q.kind /\ row.by = q.by /\ row.about = q.about
      /\ row.status = "open"
  BY <1>2, NoneAssumption DEF Row
<1>u. /\ case' = [case EXCEPT ![c] = row] /\ ~Filed(c)
      /\ late' = IF BeingErased(q.by) \/ (q.about # None /\ BeingErased(q.about))
                 THEN late \cup {c} ELSE late
      /\ Become(t, Idle)
      /\ UNCHANGED <<active, erased, files, shown, unreviewed, stray, replaced,
                     unremoved, dropped, undone, halted, faults, requests>>
  BY DEF FileCase
<1> HIDE DEF row
<1>4. \A d \in Case : case'[d] = IF d = c THEN row ELSE case[d]
  BY <1>u DEF AccountsInv, TypeOK
<1>5. /\ thread' \in [Thread -> AnyRequest]
      /\ \A u \in Thread : thread'[u] = IF u = t THEN Idle ELSE thread[u]
  BY <1>u, IdleTyped, ThreadTyped DEF AccountsInv
<1>6. \A a \in Account : BeingErased(a)' => BeingErased(a)
  BY <1>u, <1>5, IdleTyped DEF BeingErased
<1>7. TypeOK'
  BY <1>u, <1>3, <1>5 DEF AccountsInv, TypeOK, files, AnyRequest
<1>8. HoldsAreLate'
  <2>1. ASSUME NEW a \in Account, NEW d \in Case, BeingErased(a)', Filed(d)',
               case'[d].status = "open", a \in {case'[d].by, case'[d].about}
        PROVE  d \in late'
    <3>1. CASE d = c
      BY <1>u, <1>3, <1>4, <1>6, <2>1, <3>1, AccountsAssumption
    <3>2. CASE d # c
      BY <1>u, <1>4, <1>6, <2>1, <3>2 DEF AccountsInv, HoldsAreLate, Filed
    <3> QED
      BY <3>1, <3>2
  <2> QED
    BY <2>1 DEF HoldsAreLate
<1>9. ReportsAreOfEmployers'
  BY <1>1, <1>3, <1>4, <1>5, IdleTyped DEF AccountsInv, ReportsAreOfEmployers, Filed
<1>10. DecisionsAreEffective'
  <2>1. \A u \in Thread : thread[u].op \in {"loaded", "deciding"} => thread[u].case # c
    BY <1>u DEF AccountsInv, DecisionsAreEffective
  <2>2. \A u \in Thread :
          thread[u].op \in {"loaded", "deciding"} => thread[u].case \in Case
    BY RequestFields DEF AccountsInv, TypeOK, AnyRequest
  <2> QED
    BY <1>u, <1>3, <1>4, <1>5, <2>1, <2>2, IdleTyped
       DEF AccountsInv, DecisionsAreEffective, Effective, HasLever, Filed
<1>11. FilesAreKnown' /\ FilesAreNamed' /\ NamedIsOnDisk' /\ BadgeIsReviewed'
  BY <1>u, <1>1, <1>5, <1>6, IdleTyped, FilesRest
<1> QED
  BY <1>7, <1>8, <1>9, <1>10, <1>11 DEF AccountsInv

\* A case is refused, or granted once its lever was set: nothing else changes.
LEMMA StatusKeeps ==
  ASSUME AccountsInv, NEW c \in Case, Filed(c), NEW s \in {"granted", "refused"},
         case' = [case EXCEPT ![c].status = s],
         s = "granted" => Effective(c),
         UNCHANGED <<active, erased, files, history, faults>>,
         requests' \in 0 .. MaxRequests,
         \/ thread' = thread
         \/ \E t \in Thread : Become(t, Idle) /\ thread[t].op = "deciding"
  PROVE  AccountsInv'
<1> USE DEF history, files
<1>1. /\ case' \in [Case -> Row \cup {None}]
      /\ \A d \in Case : /\ Filed(d)' <=> Filed(d)
                         /\ Filed(d) => /\ case'[d].kind = case[d].kind
                                        /\ case'[d].by = case[d].by
                                        /\ case'[d].about = case[d].about
                         /\ d # c => case'[d] = case[d]
      /\ case'[c].status = s
  BY CaseStatus DEF AccountsInv
<1>2. /\ thread' \in [Thread -> AnyRequest]
      /\ \A u \in Thread : \/ thread'[u] = thread[u]
                           \/ thread[u].op = "deciding" /\ thread'[u].op = "idle"
  <2>1. CASE thread' = thread
    BY <2>1 DEF AccountsInv, TypeOK, AnyRequest
  <2>2. ASSUME NEW t \in Thread, Become(t, Idle), thread[t].op = "deciding"
        PROVE  /\ thread' \in [Thread -> AnyRequest]
               /\ \A u \in Thread : \/ thread'[u] = thread[u]
                                    \/ thread[u].op = "deciding" /\ thread'[u].op = "idle"
    BY <2>2, IdleTyped, ThreadTyped DEF AccountsInv
  <2> QED
    BY <2>1, <2>2
<1>3. \A a \in Account : BeingErased(a)' => BeingErased(a)
  BY <1>2 DEF BeingErased
<1>4. TypeOK'
  BY <1>1, <1>2 DEF AccountsInv, TypeOK, AnyRequest
<1>5. HoldsAreLate'
  BY <1>1, <1>3 DEF AccountsInv, HoldsAreLate
<1>6. ReportsAreOfEmployers'
  BY <1>1, <1>2 DEF AccountsInv, ReportsAreOfEmployers
<1>7. DecisionsAreEffective'
  <2>1. \A d \in Case : Filed(d) => /\ Effective(d) => Effective(d)'
                                    /\ HasLever(d) => HasLever(d)'
    BY <1>1 DEF Effective, HasLever
  <2>2. \A u \in Thread :
          thread[u].op \in {"loaded", "deciding"} => thread[u].case \in Case
    BY RequestFields DEF AccountsInv, TypeOK, AnyRequest
  <2>3. \A d \in Case : Filed(d)' /\ case'[d].status = "granted" => Effective(d)'
    BY <1>1, <2>1 DEF AccountsInv, DecisionsAreEffective
  <2> QED
    BY <1>1, <1>2, <2>1, <2>2, <2>3 DEF AccountsInv, DecisionsAreEffective
<1>8. FilesAreKnown' /\ FilesAreNamed' /\ NamedIsOnDisk' /\ BadgeIsReviewed'
  BY <1>2, <1>3, FilesRest
<1> QED
  BY <1>4, <1>5, <1>6, <1>7, <1>8 DEF AccountsInv

LEMMA RefuseKeeps ==
  ASSUME AccountsInv, NEW t \in Thread, NEW c \in Case,
         Refuse(t, c) \/ ResolveDuplicate(t, c)
  PROVE  AccountsInv'
<1>1. /\ Filed(c) /\ case' = [case EXCEPT ![c].status = "refused"] /\ thread' = thread
      /\ UNCHANGED <<active, erased, files, history, faults>>
      /\ requests' \in 0 .. MaxRequests
  BY AccountsAssumption
     DEF Refuse, ResolveDuplicate, Decide, Request, AccountsInv, TypeOK
<1> QED
  BY <1>1, StatusKeeps

LEMMA SettleKeeps ==
  ASSUME AccountsInv, NEW t \in Thread, Settle(t)
  PROVE  AccountsInv'
<1>1. thread[t].op = "deciding" /\ thread[t].case \in Case
  BY RequestFields DEF Settle, AccountsInv, TypeOK, AnyRequest
<1>2. Filed(thread[t].case) /\ Effective(thread[t].case)
  BY <1>1 DEF AccountsInv, DecisionsAreEffective
<1>3. /\ case' = [case EXCEPT ![thread[t].case].status = "granted"] /\ Become(t, Idle)
      /\ UNCHANGED <<active, erased, files, history, faults>>
      /\ requests' \in 0 .. MaxRequests
  BY DEF Settle, AccountsInv, TypeOK
<1> QED
  BY <1>1, <1>2, <1>3, StatusKeeps

\* A decision on c goes on: it has loaded the account, or set the lever, or lost
\* it.
LEMMA DecisionKeeps ==
  ASSUME AccountsInv, NEW t \in Thread, NEW c \in Case, Filed(c),
         NEW r \in AnyRequest, Become(t, r), r.op \in {"loaded", "deciding"}, r.case = c,
         thread[t].op \in {"idle", "loaded"},
         r.op = "deciding" \/ ~r.due => Effective(c)',
         r.op = "loaded" /\ r.due => HasLever(c),
         \A d \in Case : Filed(d) /\ Effective(d) => Effective(d)',
         active' \in [Account -> BOOLEAN], dropped' \subseteq Case, undone' \subseteq Case,
         UNCHANGED <<erased, case, files, shown, unreviewed, late, stray, replaced,
                     unremoved, halted>>,
         requests' \in 0 .. MaxRequests, faults' \in 0 .. MaxFaults
  PROVE  AccountsInv'
<1>1. /\ thread' \in [Thread -> AnyRequest]
      /\ \A u \in Thread : thread'[u] = IF u = t THEN r ELSE thread[u]
  BY ThreadTyped DEF AccountsInv
<1>2. \A a \in Account : BeingErased(a)' => BeingErased(a)
  BY <1>1 DEF BeingErased
<1>3. TypeOK'
  BY <1>1 DEF AccountsInv, TypeOK, files, AnyRequest
<1>4. HoldsAreLate' /\ ReportsAreOfEmployers'
  BY <1>1, <1>2 DEF AccountsInv, HoldsAreLate, ReportsAreOfEmployers, Filed
<1>5. DecisionsAreEffective'
  <2>1. \A u \in Thread :
          thread[u].op \in {"loaded", "deciding"} => thread[u].case \in Case
    BY RequestFields DEF AccountsInv, TypeOK, AnyRequest
  <2>2. \A d \in Case : Filed(d)' /\ case'[d].status = "granted" => Effective(d)'
    BY DEF AccountsInv, DecisionsAreEffective, Filed
  <2>3. ASSUME NEW u \in Thread, thread'[u].op \in {"loaded", "deciding"}
        PROVE  /\ Filed(thread[u].case)'
               /\ thread'[u].op = "deciding" \/ ~thread'[u].due => Effective(thread[u].case)'
               /\ thread'[u].op = "loaded" /\ thread'[u].due => HasLever(thread[u].case)'
    <3>1. CASE u = t
      BY <1>1, <3>1 DEF Filed, HasLever
    <3>2. CASE u # t
      <4>1. thread'[u] = thread[u] /\ thread[u].op \in {"loaded", "deciding"}
        BY <1>1, <2>3, <3>2
      <4>2. PICK d \in Case : d = thread[u].case
        BY <2>1, <4>1
      <4>3. /\ Filed(d)
            /\ thread[u].op = "deciding" \/ ~thread[u].due => Effective(d)
            /\ thread[u].op = "loaded" /\ thread[u].due => HasLever(d)
        BY <4>1, <4>2 DEF AccountsInv, DecisionsAreEffective
      <4>4. Filed(d)' /\ (Effective(d) => Effective(d)') /\ (HasLever(d) => HasLever(d)')
        BY <4>3 DEF Filed, HasLever
      <4> QED
        BY <4>1, <4>2, <4>3, <4>4
    <3> QED
      BY <3>1, <3>2
  <2> QED
    BY <2>2, <2>3 DEF DecisionsAreEffective
<1>6. FilesAreKnown' /\ FilesAreNamed' /\ NamedIsOnDisk' /\ BadgeIsReviewed'
  BY <1>1, <1>2, FilesRest
<1> QED
  BY <1>3, <1>4, <1>5, <1>6 DEF AccountsInv

LEMMA SubjectOf ==
  ASSUME AccountsInv, NEW c \in Case, Filed(c)
  PROVE  /\ HasLever(c) => Subject(c) \in Account
         /\ Value(c) \in BOOLEAN
         /\ InPlace(c) => /\ case[c].kind = "report" => ~active[case[c].about]
                          /\ case[c].kind = "appeal" => active[case[c].by]
         /\ ~InPlace(c) => HasLever(c)
<1>1. case[c].by \in Account
  BY DEF AccountsInv, TypeOK, Filed, Row
<1>2. case[c].kind = "report" => case[c].about \in Account
  BY DEF AccountsInv, ReportsAreOfEmployers, Account
<1>3. active \in [Account -> BOOLEAN]
  BY DEF AccountsInv, TypeOK
<1> QED
  BY <1>1, <1>2, <1>3 DEF HasLever, Subject, Value, InPlace

LEMMA LoadLeverKeeps ==
  ASSUME AccountsInv, NEW t \in Thread, NEW c \in Case, LoadLever(t, c)
  PROVE  AccountsInv'
<1> DEFINE r == [op |-> "loaded", case |-> c, due |-> ~InPlace(c)]
<1>1. r \in AnyRequest /\ r.op = "loaded" /\ r.case = c /\ r.due = ~InPlace(c)
  BY DEF AnyRequest, Deciding, InPlace
<1>2. /\ Become(t, r) /\ Filed(c) /\ thread[t].op = "idle"
      /\ UNCHANGED <<rows, files, shown, unreviewed, late, stray, replaced, unremoved,
                     halted, faults>>
      /\ undone' = IF InPlace(c) THEN undone \ {c} ELSE undone
      /\ dropped' = IF InPlace(c) THEN dropped \ {c} ELSE dropped
  BY IdleTyped DEF LoadLever, Decide
<1>3. requests' \in 0 .. MaxRequests /\ faults' \in 0 .. MaxFaults
  BY AccountsAssumption DEF LoadLever, Decide, Request, AccountsInv, TypeOK
<1>4. InPlace(c) => Effective(c)'
  BY <1>2, SubjectOf DEF Effective, rows
<1>5. \A d \in Case : Filed(d) /\ Effective(d) => Effective(d)'
  <2>1. ASSUME NEW d \in Case, Filed(d), Effective(d)
        PROVE  Effective(d)'
    <3>1. CASE d = c /\ InPlace(c)
      BY <1>4, <3>1
    <3>2. CASE d # c \/ ~InPlace(c)
      BY <1>2, <2>1, <3>2 DEF Effective, rows
    <3> QED
      BY <3>1, <3>2
  <2> QED
    BY <2>1
<1>6. active' \in [Account -> BOOLEAN] /\ dropped' \subseteq Case /\ undone' \subseteq Case
  BY <1>2 DEF AccountsInv, TypeOK, rows
<1> HIDE DEF r
<1>7. UNCHANGED <<erased, case>> /\ (~InPlace(c) => HasLever(c))
  BY <1>2, SubjectOf DEF rows
<1> QED
  BY <1>1, <1>2, <1>3, <1>4, <1>5, <1>6, <1>7, DecisionKeeps

LEMMA PullLeverKeeps ==
  ASSUME AccountsInv, NEW t \in Thread, PullLever(t) \/ LoseLever(t)
  PROVE  AccountsInv'
<1>1. thread[t] \in AnyRequest /\ thread[t].op = "loaded"
  BY DEF PullLever, LoseLever, AccountsInv, TypeOK, AnyRequest
<1>2. PICK c \in Case : c = thread[t].case
  BY <1>1, RequestFields
<1>3. /\ Filed(c) /\ thread[t].due \in BOOLEAN
      /\ IF thread[t].due THEN HasLever(c) ELSE Effective(c)
  BY <1>1, <1>2, RequestFields DEF AccountsInv, DecisionsAreEffective
<1> DEFINE r == [op |-> "deciding", case |-> c]
<1>4. r \in AnyRequest /\ r.op = "deciding" /\ r.case = c
  BY DEF AnyRequest, Deciding
<1>5. Become(t, r)
  BY <1>2 DEF PullLever, LoseLever
<1> HIDE DEF r
<1>6. CASE LoseLever(t)
  <2>1. /\ dropped' = IF thread[t].due THEN dropped \cup {c} ELSE dropped
        /\ UNCHANGED <<rows, files, shown, unreviewed, late, stray, replaced, unremoved,
                       undone, halted, requests>>
        /\ faults < MaxFaults /\ faults' = faults + 1
    BY <1>2, <1>6 DEF LoseLever
  <2>2. requests' \in 0 .. MaxRequests /\ faults' \in 0 .. MaxFaults
    BY <2>1, AccountsAssumption DEF AccountsInv, TypeOK
  <2>3. \A d \in Case : Filed(d) /\ Effective(d) => Effective(d)'
    BY <2>1 DEF Effective, rows
  <2>4. Effective(c)'
    BY <1>3, <2>1, <2>3 DEF Effective
  <2>5. /\ active' \in [Account -> BOOLEAN] /\ dropped' \subseteq Case
        /\ undone' \subseteq Case /\ UNCHANGED <<erased, case>>
    BY <2>1 DEF AccountsInv, TypeOK, rows
  <2> QED
    BY <1>1, <1>3, <1>4, <1>5, <2>1, <2>2, <2>3, <2>4, <2>5, DecisionKeeps
<1>7. CASE PullLever(t)
  <2>1. /\ IF thread[t].due
           THEN /\ active' = [active EXCEPT ![Subject(c)] = Value(c)]
                /\ undone' = (undone \cup Reversed(Subject(c), Value(c))) \ {c}
                /\ dropped' = dropped \ {c}
           ELSE UNCHANGED <<active, undone, dropped>>
        /\ UNCHANGED <<erased, case, files, shown, unreviewed, late, stray, replaced,
                       unremoved, halted, faults, requests>>
    BY <1>2, <1>7 DEF PullLever
  <2>2. requests' \in 0 .. MaxRequests /\ faults' \in 0 .. MaxFaults
    BY <2>1 DEF AccountsInv, TypeOK
  <2>3. /\ active' \in [Account -> BOOLEAN] /\ dropped' \subseteq Case
        /\ undone' \subseteq Case
    BY <1>3, <2>1, SubjectOf DEF AccountsInv, TypeOK, Reversed, OfKind
  <2>4. ASSUME NEW d \in Case, Filed(d), Effective(d) \/ (d = c /\ thread[t].due)
        PROVE  Effective(d)'
    <3>1. CASE ~thread[t].due
      BY <2>1, <2>4, <3>1 DEF Effective
    <3>2. CASE thread[t].due
      <4>0. HasLever(c) /\ Subject(c) \in Account
        BY <1>3, <3>2, SubjectOf
      <4>1. \A a \in Account : active'[a] = IF a = Subject(c) THEN Value(c) ELSE active[a]
        BY <2>1, <3>2 DEF AccountsInv, TypeOK
      <4>2. /\ case[d].by \in Account
            /\ case[d].kind = "report" => case[d].about \in Account
        BY <2>4 DEF AccountsInv, TypeOK, Filed, Row, ReportsAreOfEmployers, Account
      <4>3. CASE d = c
        BY <2>1, <4>0, <4>1, <4>2, <4>3 DEF Effective, Subject, Value, HasLever
      <4>4. CASE d # c
        <5>1. d \notin dropped' \cup undone' =>
                d \notin dropped \cup undone /\ d \notin Reversed(Subject(c), Value(c))
          BY <2>1, <3>2, <4>4
        <5>2. ASSUME d \notin dropped' \cup undone'
              PROVE  /\ case[d].kind = "report" => ~active'[case[d].about]
                     /\ case[d].kind = "appeal" => active'[case[d].by]
          <6>1. /\ case[d].kind = "report" => ~active[case[d].about]
                /\ case[d].kind = "appeal" => active[case[d].by]
            BY <2>4, <4>4, <5>1, <5>2 DEF Effective
          <6>2. active \in [Account -> BOOLEAN]
            BY DEF AccountsInv, TypeOK
          <6>3. /\ Value(c) /\ ~active[Subject(c)] =>
                     ~(case[d].kind = "report" /\ case[d].about = Subject(c))
                /\ ~Value(c) /\ active[Subject(c)] =>
                     ~(case[d].kind = "appeal" /\ case[d].by = Subject(c))
            BY <2>4, <4>0, <5>1, <5>2, <6>2 DEF Reversed, OfKind
          <6> QED
            BY <4>0, <4>1, <4>2, <6>1, <6>2, <6>3, SubjectOf
        <5> QED
          BY <2>1, <5>2 DEF Effective
      <4> QED
        BY <4>3, <4>4
    <3> QED
      BY <1>3, <3>1, <3>2
  <2>5. Effective(c)'
    BY <1>3, <2>4
  <2> QED
    BY <1>1, <1>3, <1>4, <1>5, <2>1, <2>2, <2>3, <2>4, <2>5, DecisionKeeps
<1> QED
  BY <1>6, <1>7

-----------------------------------------------------------------------------
(* Uploads *)

\* A request that concerns no case begins, or ends, and no file changes.
LEMMA RequestKeeps ==
  ASSUME AccountsInv, NEW t \in Thread, NEW r \in AnyRequest, Become(t, r),
         r.op \in {"idle", "scanning"},
         UNCHANGED <<rows, files, shown, unreviewed, late, stray, replaced, unremoved, dropped,
                     undone>>,
         halted \subseteq halted', halted' \subseteq Account,
         thread[t].op = "erasing" => thread[t].account \in halted',
         requests' \in 0 .. MaxRequests, faults' \in 0 .. MaxFaults
  PROVE  AccountsInv'
<1>1. /\ thread' \in [Thread -> AnyRequest]
      /\ \A u \in Thread : thread'[u] = IF u = t THEN r ELSE thread[u]
  BY ThreadTyped DEF AccountsInv
<1>2. \A a \in Account : BeingErased(a)' => BeingErased(a)
  BY <1>1 DEF BeingErased, rows
<1>3. TypeOK'
  BY <1>1 DEF AccountsInv, TypeOK, rows, files, AnyRequest
<1>4. HoldsAreLate' /\ ReportsAreOfEmployers' /\ DecisionsAreEffective'
  BY <1>1, <1>2, CasesRest DEF rows
<1>5. FilesAreKnown' /\ FilesAreNamed' /\ NamedIsOnDisk' /\ BadgeIsReviewed'
  BY <1>1, <1>2, FilesRest
<1> QED
  BY <1>3, <1>4, <1>5 DEF AccountsInv

LEMMA StartUploadKeeps ==
  ASSUME AccountsInv, NEW t \in Thread, NEW a \in Account, StartUpload(t, a)
  PROVE  AccountsInv'
<1> DEFINE w == IF a \in Employer THEN badge[a] ELSE "unverified"
           r == [op |-> "scanning", account |-> a, was |-> w]
<1>1. w \in Badge
  BY DEF AccountsInv, TypeOK, Badge
<1>2. r \in AnyRequest /\ r.op = "scanning"
  BY <1>1 DEF AnyRequest, Uploading
<1>3. Become(t, r) /\ UNCHANGED <<rows, files, history, faults>> /\ thread[t].op = "idle"
  BY IdleTyped DEF StartUpload
<1>4. requests' \in 0 .. MaxRequests
  BY AccountsAssumption DEF StartUpload, Request, AccountsInv, TypeOK
<1>5. halted \subseteq Account /\ faults \in 0 .. MaxFaults
  BY DEF AccountsInv, TypeOK
<1> HIDE DEF r
<1> QED
  BY <1>2, <1>3, <1>4, <1>5, RequestKeeps DEF history

LEMMA RefuseUploadKeeps ==
  ASSUME AccountsInv, NEW t \in Thread, RefuseUpload(t)
  PROVE  AccountsInv'
<1>1. /\ halted \subseteq Account /\ requests \in 0 .. MaxRequests
      /\ faults \in 0 .. MaxFaults
  BY DEF AccountsInv, TypeOK
<1> QED
  BY <1>1, IdleTyped, RequestKeeps DEF RefuseUpload, history

LEMMA CrashKeeps ==
  ASSUME AccountsInv, NEW t \in Thread, Crash(t)
  PROVE  AccountsInv'
<1>1. thread[t].op = "erasing" => thread[t].account \in Account
  BY RequestFields DEF AccountsInv, TypeOK, AnyRequest
<1>2. /\ halted \subseteq halted' /\ halted' \subseteq Account
      /\ thread[t].op = "erasing" => thread[t].account \in halted'
  BY <1>1 DEF Crash, AccountsInv, TypeOK
<1>3. requests' \in 0 .. MaxRequests /\ faults' \in 0 .. MaxFaults
  BY AccountsAssumption DEF Crash, AccountsInv, TypeOK
<1> QED
  BY <1>2, <1>3, IdleTyped, RequestKeeps DEF Crash

LEMMA SaveFileKeeps ==
  ASSUME AccountsInv, NEW t \in Thread, SaveFile(t)
  PROVE  AccountsInv'
<1> DEFINE a == thread[t].account
<1>0. PICK file : file = [owner |-> a, number |-> uploads[a] + 1]
  OBVIOUS
<1> DEFINE r == [op |-> "saved", file |-> file, was |-> thread[t].was]
<1>1. a \in Account /\ thread[t].was \in Badge /\ thread[t].op = "scanning"
  BY RequestFields DEF SaveFile, AccountsInv, TypeOK, AnyRequest
<1>2. uploads[a] \in 0 .. MaxFiles /\ uploads[a] < MaxFiles
  BY <1>1 DEF SaveFile, AccountsInv, TypeOK
<1>3. file \in File /\ file.owner = a /\ file.number = uploads[a] + 1
  BY <1>0, <1>1, <1>2, AccountsAssumption DEF File
<1>u. /\ uploads' = [uploads EXCEPT ![a] = @ + 1]
      /\ disk' = disk \cup {file} /\ stray' = stray \cup {file} /\ Become(t, r)
      /\ UNCHANGED <<rows, named, badge, shown, unreviewed, late, replaced, unremoved,
                     dropped, undone, halted, faults, requests>>
  BY <1>0 DEF SaveFile
<1>4. r \in AnyRequest /\ r.op = "saved" /\ r.file = file
  BY <1>1, <1>3 DEF AnyRequest, Uploading
<1> HIDE DEF r
<1>5. /\ thread' \in [Thread -> AnyRequest]
      /\ \A u \in Thread : thread'[u] = IF u = t THEN r ELSE thread[u]
  BY <1>4, <1>u, ThreadTyped DEF AccountsInv
<1>6. /\ uploads' \in [Account -> 0 .. MaxFiles]
      /\ uploads'[a] = uploads[a] + 1
      /\ \A b \in Account : b # a => uploads'[b] = uploads[b]
  BY <1>1, <1>2, <1>u, AccountsAssumption DEF AccountsInv, TypeOK
<1>7. \A b \in Account : BeingErased(b)' => BeingErased(b)
  BY <1>u, <1>4, <1>5 DEF BeingErased, rows
<1>8. TypeOK'
  BY <1>u, <1>3, <1>5, <1>6 DEF AccountsInv, TypeOK, rows, AnyRequest
<1>9. HoldsAreLate' /\ ReportsAreOfEmployers' /\ DecisionsAreEffective'
  BY <1>u, <1>4, <1>5, <1>7, CasesRest DEF rows
<1>10. \A f \in File : Known(f) => Known(f)' /\ f # file
  <2>1. \A f \in File : f.owner \in Account /\ f.number \in Nat
    BY FileFields, AccountsAssumption
  <2>2. \A b \in Account : uploads[b] \in Nat
    BY AccountsAssumption DEF AccountsInv, TypeOK
  <2> QED
    BY <1>1, <1>3, <1>6, <2>1, <2>2 DEF Known
<1>11. Known(file)'
  BY <1>1, <1>2, <1>3, <1>6 DEF Known
<1>12. /\ disk \subseteq File /\ \A b \in Account : named[b] \subseteq File
       /\ \A u \in Thread : /\ thread[u].op = "erasing" => thread[u].files \subseteq File
                            /\ Saved(u) => thread[u].file \in File
  BY RequestFields DEF AccountsInv, TypeOK, AnyRequest, Saved
<1>13. FilesAreKnown'
  <2>1. \A f \in disk' : Known(f)'
    BY <1>u, <1>10, <1>11, <1>12 DEF AccountsInv, FilesAreKnown
  <2>2. \A b \in Account : \A f \in named'[b] : Known(f)' /\ f.owner = b
    BY <1>u, <1>10, <1>12 DEF AccountsInv, FilesAreKnown
  <2>3. ASSUME NEW u \in Thread, thread'[u].op = "erasing", NEW f \in thread'[u].files
        PROVE  Known(f)' /\ f.owner = thread'[u].account
    BY <1>u, <1>4, <1>5, <1>10, <1>12, <2>3 DEF AccountsInv, FilesAreKnown
  <2>4. ASSUME NEW u \in Thread, Saved(u)'
        PROVE  /\ Known(thread[u].file)' /\ thread'[u].file \in disk' \cap stray'
               /\ thread'[u].file \notin named'[thread'[u].file.owner]
    <3>1. CASE u = t
      <4>1. thread'[u].file = file
        BY <1>4, <1>5, <3>1
      <4>2. file \notin named[a]
        BY <1>1, <1>10, <1>12 DEF AccountsInv, FilesAreKnown
      <4> QED
        BY <1>u, <1>3, <1>11, <4>1, <4>2 DEF Known
    <3>2. CASE u # t
      <4>1. Saved(u) /\ thread'[u] = thread[u]
        BY <1>5, <2>4, <3>2 DEF Saved
      <4>2. PICK f \in File : f = thread[u].file
        BY <1>12, <4>1
      <4>3. Known(f) /\ f \in disk \cap stray /\ f \notin named[f.owner]
        BY <4>1, <4>2 DEF AccountsInv, FilesAreKnown
      <4>4. Known(f)'
        BY <1>10, <4>3
      <4> QED
        BY <1>u, <4>1, <4>2, <4>3, <4>4 DEF Known
    <3> QED
      BY <3>1, <3>2
  <2>5. ASSUME NEW u \in Thread, NEW v \in Thread, Saved(u)', Saved(v)', u # v
        PROVE  thread'[u].file # thread'[v].file
    <3>1. \A x \in Thread : x # t /\ Saved(x)' =>
            Saved(x) /\ thread'[x] = thread[x] /\ thread[x].file # file
      BY <1>5, <1>10, <1>12 DEF Saved, AccountsInv, FilesAreKnown
    <3>2. thread'[t].file = file
      BY <1>4, <1>5
    <3> QED
      BY <2>5, <3>1, <3>2 DEF AccountsInv, FilesAreKnown
  <2> QED
    BY <2>1, <2>2, <2>3, <2>4, <2>5 DEF FilesAreKnown
<1>14. FilesAreNamed'
  BY <1>u, <1>7, <1>12, FileFields DEF AccountsInv, FilesAreNamed
<1>15. NamedIsOnDisk'
  BY <1>u, <1>1, <1>5 DEF AccountsInv, NamedIsOnDisk
<1>16. BadgeIsReviewed'
  BY <1>u DEF AccountsInv, BadgeIsReviewed
<1> QED
  BY <1>8, <1>9, <1>13, <1>14, <1>15, <1>16 DEF AccountsInv

LEMMA NameFileKeeps ==
  ASSUME AccountsInv, NEW t \in Thread, NameFile(t)
  PROVE  AccountsInv'
<1>1. thread[t].op = "saved" /\ thread[t].file \in File /\ thread[t].was \in Badge
  BY RequestFields DEF NameFile, AccountsInv, TypeOK, AnyRequest
<1>2. PICK file \in File : file = thread[t].file
  BY <1>1
<1>3. PICK a \in Account : a = file.owner
  BY FileFields
<1>4. PICK old : old = IF a \in Employer THEN named[a] \ {file} ELSE {}
  OBVIOUS
<1>u. /\ named' = [named EXCEPT ![a] = (@ \ old) \cup {file}]
      /\ badge' = NewBadge(a, thread[t].was)
      /\ replaced' = replaced \cup old
      /\ stray' = IF BeingErased(a) THEN stray ELSE stray \ {file}
      /\ unreviewed' = IF a \in Employer /\ thread[t].was = "pending" /\ badge[a] # "pending"
                       THEN unreviewed \cup {file} ELSE unreviewed
      /\ Become(t, Idle)
      /\ UNCHANGED <<rows, disk, uploads, shown, late, unremoved, dropped, undone,
                     halted, faults, requests>>
  BY <1>2, <1>3, <1>4 DEF NameFile
<1>5. /\ thread' \in [Thread -> AnyRequest]
      /\ \A u \in Thread : thread'[u] = IF u = t THEN Idle ELSE thread[u]
  BY <1>u, IdleTyped, ThreadTyped DEF AccountsInv
<1>6. /\ named' \in [Account -> SUBSET File]
      /\ named'[a] = (named[a] \ old) \cup {file}
      /\ \A b \in Account : b # a => named'[b] = named[b]
      /\ old \subseteq named[a] /\ named[a] \subseteq File
  BY <1>u, <1>4 DEF AccountsInv, TypeOK
<1>7. \A b \in Account : BeingErased(b)' => BeingErased(b)
  BY <1>u, <1>5, IdleTyped DEF BeingErased, rows
<1>8. /\ Known(file) /\ file \in disk \cap stray /\ file \notin named[a]
      /\ \A u \in Thread : u # t /\ Saved(u) => thread[u].file # file
  BY <1>1, <1>2, <1>3 DEF AccountsInv, FilesAreKnown, Saved
<1>9. badge' \in [Employer -> Badge] /\ \A e \in Employer : e # a => badge'[e] = badge[e]
  BY <1>u DEF NewBadge, AccountsInv, TypeOK, Badge
<1>10. TypeOK'
  BY <1>u, <1>5, <1>6, <1>9 DEF AccountsInv, TypeOK, rows, AnyRequest
<1>11. HoldsAreLate' /\ ReportsAreOfEmployers' /\ DecisionsAreEffective'
  BY <1>u, <1>5, <1>7, IdleTyped, CasesRest DEF rows
<1>12. FilesAreKnown'
  <2>1. \A f \in disk' : Known(f)'
    BY <1>u DEF AccountsInv, FilesAreKnown, Known
  <2>2. \A b \in Account : \A f \in named'[b] : Known(f)' /\ f.owner = b
    BY <1>u, <1>3, <1>6, <1>8 DEF AccountsInv, FilesAreKnown, Known
  <2>3. ASSUME NEW u \in Thread, thread'[u].op = "erasing", NEW f \in thread'[u].files
        PROVE  Known(f)' /\ f.owner = thread'[u].account
    BY <1>u, <1>5, <2>3, IdleTyped DEF AccountsInv, FilesAreKnown, Known
  <2>4. ASSUME NEW u \in Thread, Saved(u)'
        PROVE  /\ Known(thread[u].file)' /\ thread'[u].file \in disk' \cap stray'
               /\ thread'[u].file \notin named'[thread'[u].file.owner]
    <3>1. u # t /\ Saved(u) /\ thread'[u] = thread[u] /\ thread[u].file # file
      BY <1>5, <1>8, <2>4, IdleTyped DEF Saved
    <3>2. PICK f \in File : f = thread[u].file
      BY <3>1, RequestFields DEF Saved, AccountsInv, TypeOK, AnyRequest
    <3>3. /\ Known(f) /\ f \in disk \cap stray /\ f \notin named[f.owner] /\ f # file
          /\ f.owner \in Account
      BY <3>1, <3>2, FileFields DEF AccountsInv, FilesAreKnown
    <3>4. f \in stray' /\ f \notin named'[f.owner] /\ f \in disk'
      BY <1>u, <1>6, <3>3
    <3> QED
      BY <1>u, <3>1, <3>2, <3>3, <3>4 DEF Known
  <2>5. ASSUME NEW u \in Thread, NEW v \in Thread, Saved(u)', Saved(v)', u # v
        PROVE  thread'[u].file # thread'[v].file
    BY <1>5, <2>5, IdleTyped DEF Saved, AccountsInv, FilesAreKnown
  <2> QED
    BY <2>1, <2>2, <2>3, <2>4, <2>5 DEF FilesAreKnown
<1>13. FilesAreNamed'
  <2>1. ASSUME NEW f \in disk', f \in File
        PROVE  f \in named'[f.owner] \cup stray' \cup replaced' \cup unremoved'
    <3>1. f.owner \in Account /\ f \in named[f.owner] \cup stray \cup replaced \cup unremoved
      BY <1>u, <2>1, FileFields DEF AccountsInv, FilesAreNamed
    <3> QED
      BY <1>u, <1>3, <1>6, <3>1
  <2>2. ASSUME NEW f \in disk', f \in File, BeingErased(f.owner)'
        PROVE  f \in stray' \cup replaced' \cup unremoved'
    <3>1. BeingErased(f.owner) /\ f \in stray \cup replaced \cup unremoved
      BY <1>u, <1>7, <2>2, FileFields DEF AccountsInv, FilesAreNamed
    <3> QED
      BY <1>u, <1>3, <3>1
  <2> QED
    BY <1>u, <2>1, <2>2 DEF FilesAreNamed, AccountsInv, TypeOK
<1>14. NamedIsOnDisk'
  <2>1. ASSUME NEW b \in Account, NEW f \in named'[b] \ disk'
        PROVE  f \in named[b] \ disk
    BY <1>u, <1>6, <1>8, <2>1
  <2> QED
    BY <1>u, <1>1, <1>5, <2>1 DEF AccountsInv, NamedIsOnDisk
<1>15. BadgeIsReviewed'
  <2>1. ASSUME NEW e \in Employer, badge'[e] = "verified"
        PROVE  named'[e] \subseteq shown' \cup unreviewed'
    <3>1. CASE e # a
      BY <1>u, <1>6, <1>9, <2>1, <3>1 DEF AccountsInv, BadgeIsReviewed, Account
    <3>2. CASE e = a
      <4>1. named'[e] = {file}
        BY <1>4, <1>6, <3>2
      <4>2. thread[t].was = "pending" /\ badge[e] # "pending"
        BY <1>u, <2>1, <3>2 DEF NewBadge, AccountsInv, TypeOK
      <4> QED
        BY <1>u, <3>2, <4>1, <4>2
    <3> QED
      BY <3>1, <3>2
  <2> QED
    BY <2>1 DEF BadgeIsReviewed
<1> QED
  BY <1>10, <1>11, <1>12, <1>13, <1>14, <1>15 DEF AccountsInv

\* An admin sees a document, or decides: the badges change and nothing else.
LEMMA BadgeKeeps ==
  ASSUME AccountsInv, badge' \in [Employer -> Badge], shown \subseteq shown', shown' \subseteq File,
         unreviewed \subseteq unreviewed', unreviewed' \subseteq File, BadgeIsReviewed',
         UNCHANGED <<rows, disk, uploads, named, late, stray, replaced, unremoved,
                     dropped, undone, halted, thread, faults>>,
         requests' \in 0 .. MaxRequests
  PROVE  AccountsInv'
<1>1. \A a \in Account : BeingErased(a)' <=> BeingErased(a)
  BY DEF BeingErased, rows
<1>2. TypeOK'
  BY DEF AccountsInv, TypeOK, rows
<1>3. HoldsAreLate' /\ ReportsAreOfEmployers' /\ DecisionsAreEffective'
  BY <1>1, CasesRest DEF rows
<1>4. FilesAreKnown' /\ NamedIsOnDisk'
  BY DEF AccountsInv, FilesAreKnown, Known, Saved, NamedIsOnDisk
<1>5. FilesAreNamed'
  <2>1. \A f \in disk : f.owner \in Account
    BY FileFields DEF AccountsInv, TypeOK
  <2> QED
    BY <1>1, <2>1 DEF AccountsInv, FilesAreNamed
<1> QED
  BY <1>2, <1>3, <1>4, <1>5 DEF AccountsInv

LEMMA ShowDocumentKeeps ==
  ASSUME AccountsInv, NEW e \in Employer, ShowDocument(e)
  PROVE  AccountsInv'
<1>1. requests' \in 0 .. MaxRequests
  BY AccountsAssumption DEF ShowDocument, Request, AccountsInv, TypeOK
<1>2. named[e] \subseteq File
  BY DEF AccountsInv, TypeOK, Account
<1>3. BadgeIsReviewed'
  BY DEF ShowDocument, files, AccountsInv, BadgeIsReviewed
<1> QED
  BY <1>1, <1>2, <1>3, BadgeKeeps DEF ShowDocument, files, AccountsInv, TypeOK

LEMMA DecideBadgeKeeps ==
  ASSUME AccountsInv, NEW e \in Employer, NEW d \in {"verified", "rejected"}, DecideBadge(e, d)
  PROVE  AccountsInv'
<1>1. requests' \in 0 .. MaxRequests
  BY AccountsAssumption DEF DecideBadge, Request, AccountsInv, TypeOK
<1>2. named[e] \subseteq File
  BY DEF AccountsInv, TypeOK, Account
<1>3. /\ badge' \in [Employer -> Badge] /\ badge'[e] = d
      /\ \A x \in Employer : x # e => badge'[x] = badge[x]
  BY DEF DecideBadge, AccountsInv, TypeOK, Badge
<1>4. unreviewed \subseteq unreviewed' /\ unreviewed' \subseteq File
  BY <1>2 DEF DecideBadge, AccountsInv, TypeOK
<1>5. BadgeIsReviewed'
  BY <1>3 DEF DecideBadge, AccountsInv, BadgeIsReviewed
<1> QED
  BY <1>1, <1>3, <1>4, <1>5, BadgeKeeps DEF DecideBadge, AccountsInv, TypeOK

-----------------------------------------------------------------------------
(* Erasure *)

LEMMA EraseFilesKeeps ==
  ASSUME AccountsInv, NEW t \in Thread, NEW a \in Account, EraseFiles(t, a)
  PROVE  AccountsInv'
<1> DEFINE r == [op |-> "erasing", account |-> a, files |-> named[a], was |-> active[a]]
<1>1. r \in AnyRequest /\ r.op = "erasing" /\ r.account = a /\ r.files = named[a]
  BY DEF AnyRequest, Erasing, AccountsInv, TypeOK
<1>0. PICK kept \in SUBSET (named[a] \cap disk) :
        /\ kept # {} => faults < MaxFaults
        /\ faults' = IF kept = {} THEN faults ELSE faults + 1
        /\ disk' = disk \ (named[a] \ kept)
        /\ unremoved' = (unremoved \ named[a]) \cup kept
  BY DEF EraseFiles, Found
<1>u. /\ Become(t, r) /\ Holds(a) = {}
      /\ UNCHANGED <<rows, uploads, named, badge, shown, unreviewed, late, stray, replaced,
                     dropped, undone, halted>>
      /\ thread[t].op = "idle"
  BY IdleTyped DEF EraseFiles, Found
<1> HIDE DEF r
<1>2. /\ thread' \in [Thread -> AnyRequest]
      /\ \A u \in Thread : thread'[u] = IF u = t THEN r ELSE thread[u]
  BY <1>1, <1>u, ThreadTyped DEF AccountsInv
<1>3. \A b \in Account : BeingErased(b)' => BeingErased(b) \/ b = a
  BY <1>u, <1>1, <1>2 DEF BeingErased, rows
<1>4. requests' \in 0 .. MaxRequests /\ faults' \in 0 .. MaxFaults
  BY <1>0, AccountsAssumption DEF EraseFiles, Request, AccountsInv, TypeOK
<1>5. TypeOK'
  BY <1>0, <1>u, <1>2, <1>4 DEF AccountsInv, TypeOK, rows, AnyRequest
<1>6. HoldsAreLate'
  <2>1. \A c \in Case : Filed(c) /\ case[c].status = "open" => a \notin {case[c].by, case[c].about}
    BY <1>u, AccountsAssumption DEF Holds, Parties
  <2> QED
    BY <1>u, <1>3, <2>1 DEF AccountsInv, HoldsAreLate, Filed, rows
<1>7. ReportsAreOfEmployers' /\ DecisionsAreEffective'
  BY <1>u, <1>1, <1>2
     DEF AccountsInv, ReportsAreOfEmployers, DecisionsAreEffective, Effective, HasLever, Filed, rows
<1>8. FilesAreKnown'
  <2>1. \A f \in disk' : Known(f)'
    BY <1>0, <1>u DEF AccountsInv, FilesAreKnown, Known
  <2>2. \A b \in Account : \A f \in named'[b] : Known(f)' /\ f.owner = b
    BY <1>u DEF AccountsInv, FilesAreKnown, Known
  <2>3. ASSUME NEW u \in Thread, thread'[u].op = "erasing", NEW f \in thread'[u].files
        PROVE  Known(f)' /\ f.owner = thread'[u].account
    BY <1>u, <1>1, <1>2, <2>3 DEF AccountsInv, FilesAreKnown, Known
  <2>4. ASSUME NEW u \in Thread, Saved(u)'
        PROVE  /\ Known(thread[u].file)' /\ thread'[u].file \in disk' \cap stray'
               /\ thread'[u].file \notin named'[thread'[u].file.owner]
               /\ Saved(u) /\ thread'[u] = thread[u]
    <3>1. Saved(u) /\ thread'[u] = thread[u]
      BY <1>1, <1>2, <2>4 DEF Saved
    <3>2. PICK f \in File : f = thread[u].file
      BY <3>1, RequestFields DEF Saved, AccountsInv, TypeOK, AnyRequest
    <3>3. Known(f) /\ f \in disk \cap stray /\ f \notin named[f.owner]
      BY <3>1, <3>2 DEF AccountsInv, FilesAreKnown
    <3>4. f \notin named[a]
      BY <3>3 DEF AccountsInv, FilesAreKnown
    <3> QED
      BY <1>0, <1>u, <3>1, <3>2, <3>3, <3>4 DEF Known
  <2> QED
    BY <2>1, <2>2, <2>3, <2>4 DEF FilesAreKnown, AccountsInv
<1>9. FilesAreNamed'
  <2>1. ASSUME NEW f \in disk'
        PROVE  /\ f \in named'[f.owner] \cup stray' \cup replaced' \cup unremoved'
               /\ BeingErased(f.owner)' => f \in stray' \cup replaced' \cup unremoved'
    <3>1. f \in disk /\ f.owner \in Account /\ (f \in named[a] => f \in unremoved')
      BY <1>0, FileFields DEF AccountsInv, TypeOK
    <3>2. f \notin named[a] => (f \in unremoved => f \in unremoved')
      BY <1>0
    <3>3. f \notin named[a] =>
            /\ f \in named[f.owner] \cup stray \cup replaced \cup unremoved
            /\ BeingErased(f.owner) => f \in stray \cup replaced \cup unremoved
      BY <3>1 DEF AccountsInv, FilesAreNamed
    <3>4. CASE f \in named[a]
      BY <3>1, <3>4
    <3>5. CASE f \notin named[a]
      BY <1>u, <1>3, <3>1, <3>2, <3>3, <3>5
    <3> QED
      BY <3>4, <3>5
  <2> QED
    BY <2>1 DEF FilesAreNamed
<1>10. NamedIsOnDisk'
  <2>1. ASSUME NEW b \in Account, NEW f \in named'[b] \ disk'
        PROVE  \/ b \in halted'
               \/ \E u \in Thread : thread'[u].op = "erasing" /\ f \in thread'[u].files
    <3>1. CASE f \in named[a]
      BY <1>1, <1>2, <3>1
    <3>2. CASE f \notin named[a]
      <4>1. f \in named[b] \ disk
        BY <1>0, <1>u, <2>1, <3>2
      <4> QED
        BY <1>u, <1>2, <4>1 DEF AccountsInv, NamedIsOnDisk
    <3> QED
      BY <3>1, <3>2
  <2> QED
    BY <2>1 DEF NamedIsOnDisk
<1>11. BadgeIsReviewed'
  BY <1>u DEF AccountsInv, BadgeIsReviewed
<1> QED
  BY <1>5, <1>6, <1>7, <1>8, <1>9, <1>10, <1>11 DEF AccountsInv

LEMMA EraseRowsKeeps ==
  ASSUME AccountsInv, NEW t \in Thread, EraseRows(t)
  PROVE  AccountsInv'
<1>1. thread[t].op = "erasing" /\ thread[t].account \in Account
  BY RequestFields DEF EraseRows, AccountsInv, TypeOK, AnyRequest
<1>2. PICK a \in Account : a = thread[t].account
  BY <1>1
<1>3. PICK found : found = thread[t].files
  OBVIOUS
<1>u. /\ named' = Unnamed(a, found)
      /\ erased' = erased \cup {a}
      /\ \/ /\ active' = [active EXCEPT ![a] = FALSE]
            /\ undone' = undone \cup Reversed(a, FALSE)
         \/ UNCHANGED <<active, undone>>
      /\ Become(t, Idle)
      /\ UNCHANGED <<case, disk, uploads, badge, shown, unreviewed, late, stray,
                     replaced, unremoved, dropped, halted, faults, requests>>
  BY <1>2, <1>3 DEF EraseRows
<1>4. /\ thread' \in [Thread -> AnyRequest]
      /\ \A u \in Thread : thread'[u] = IF u = t THEN Idle ELSE thread[u]
  BY <1>u, IdleTyped, ThreadTyped DEF AccountsInv
<1>5. \A b \in Account : BeingErased(b)' => BeingErased(b)
  BY <1>1, <1>2, <1>u, <1>4, IdleTyped DEF BeingErased
<1>6. BeingErased(a)
  BY <1>1, <1>2 DEF BeingErased
<1>7. /\ named' \in [Account -> SUBSET File]
      /\ named'[a] \subseteq named[a] \ found
      /\ \A b \in Account : b # a => named'[b] = named[b]
  <2>1. \A f \in found : f.owner = a
    BY <1>1, <1>2, <1>3 DEF AccountsInv, FilesAreKnown
  <2> QED
    BY <1>u, <2>1 DEF Unnamed, AccountsInv, TypeOK
<1>8. TypeOK'
  <2>1. active' \in [Account -> BOOLEAN] /\ undone' \subseteq Case
    BY <1>u DEF AccountsInv, TypeOK, Reversed, OfKind
  <2> QED
    BY <1>u, <1>4, <1>7, <2>1 DEF AccountsInv, TypeOK, AnyRequest
<1>9. HoldsAreLate' /\ ReportsAreOfEmployers'
  BY <1>u, <1>4, <1>5, IdleTyped DEF AccountsInv, HoldsAreLate, ReportsAreOfEmployers, Filed
<1>10. DecisionsAreEffective'
  <2>1. CASE UNCHANGED <<active, undone>>
    BY <1>u, <1>4, <2>1, IdleTyped DEF AccountsInv, DecisionsAreEffective, Effective, HasLever, Filed
  <2>2. CASE /\ active' = [active EXCEPT ![a] = FALSE]
             /\ undone' = undone \cup Reversed(a, FALSE)
    BY <1>u, <1>4, <2>2, IdleTyped, ReversedIsKnown
  <2> QED
    BY <1>u, <2>1, <2>2
<1>11. FilesAreKnown'
  <2>1. \A f \in disk' : Known(f)'
    BY <1>u DEF AccountsInv, FilesAreKnown, Known
  <2>2. \A b \in Account : \A f \in named'[b] : Known(f)' /\ f.owner = b
    BY <1>u, <1>7 DEF AccountsInv, FilesAreKnown, Known
  <2>3. ASSUME NEW u \in Thread, thread'[u].op = "erasing", NEW f \in thread'[u].files
        PROVE  Known(f)' /\ f.owner = thread'[u].account
    BY <1>u, <1>4, <2>3, IdleTyped DEF AccountsInv, FilesAreKnown, Known
  <2>4. ASSUME NEW u \in Thread, Saved(u)'
        PROVE  /\ Known(thread[u].file)' /\ thread'[u].file \in disk' \cap stray'
               /\ thread'[u].file \notin named'[thread'[u].file.owner]
               /\ Saved(u) /\ thread'[u] = thread[u]
    <3>1. Saved(u) /\ thread'[u] = thread[u]
      BY <1>4, <2>4, IdleTyped DEF Saved
    <3>2. PICK f \in File : f = thread[u].file
      BY <3>1, RequestFields DEF Saved, AccountsInv, TypeOK, AnyRequest
    <3>3. Known(f) /\ f \in disk \cap stray /\ f \notin named[f.owner] /\ f.owner \in Account
      BY <3>1, <3>2, FileFields DEF AccountsInv, FilesAreKnown
    <3> QED
      BY <1>u, <1>7, <3>1, <3>2, <3>3 DEF Known
  <2> QED
    BY <2>1, <2>2, <2>3, <2>4 DEF FilesAreKnown, AccountsInv
<1>12. FilesAreNamed'
  <2>1. ASSUME NEW f \in disk'
        PROVE  /\ f \in named'[f.owner] \cup stray' \cup replaced' \cup unremoved'
               /\ BeingErased(f.owner)' => f \in stray' \cup replaced' \cup unremoved'
    <3>1. f \in disk /\ f.owner \in Account
      BY <1>u, FileFields DEF AccountsInv, TypeOK
    <3> QED
      BY <1>u, <1>5, <1>6, <1>7, <3>1 DEF AccountsInv, FilesAreNamed
  <2> QED
    BY <2>1 DEF FilesAreNamed
<1>13. NamedIsOnDisk'
  <2>1. ASSUME NEW b \in Account, NEW f \in named'[b] \ disk'
        PROVE  \/ b \in halted'
               \/ \E u \in Thread : thread'[u].op = "erasing" /\ f \in thread'[u].files
    <3>1. f \in named[b] \ disk /\ (b = a => f \notin found)
      BY <1>u, <1>7, <2>1
    <3>2. f \notin found
      BY <1>1, <1>2, <1>3, <3>1 DEF AccountsInv, FilesAreKnown
    <3> QED
      BY <1>u, <1>3, <1>4, <3>1, <3>2 DEF AccountsInv, NamedIsOnDisk
  <2> QED
    BY <2>1 DEF NamedIsOnDisk
<1>14. BadgeIsReviewed'
  <2>1. \A e \in Employer : named'[e] \subseteq named[e]
    BY <1>7 DEF Account
  <2> QED
    BY <1>u, <2>1 DEF AccountsInv, BadgeIsReviewed
<1> QED
  BY <1>8, <1>9, <1>10, <1>11, <1>12, <1>13, <1>14 DEF AccountsInv

-----------------------------------------------------------------------------
(* The theorems *)

LEMMA AccountsStart == Init => AccountsInv
<1> SUFFICES ASSUME Init PROVE AccountsInv
  OBVIOUS
<1>1. TypeOK
  BY AccountsAssumption, IdleTyped DEF Init, TypeOK, Badge, AnyRequest
<1>2. HoldsAreLate /\ ReportsAreOfEmployers /\ DecisionsAreEffective
  BY IdleTyped DEF Init, HoldsAreLate, ReportsAreOfEmployers, DecisionsAreEffective, Filed
<1>3. FilesAreKnown /\ FilesAreNamed /\ NamedIsOnDisk /\ BadgeIsReviewed
  BY IdleTyped, AccountsAssumption
     DEF Init, FilesAreKnown, FilesAreNamed, NamedIsOnDisk, BadgeIsReviewed, Saved, Account
<1> QED
  BY <1>1, <1>2, <1>3 DEF AccountsInv

LEMMA AccountsStep == AccountsInv /\ [Next]_vars => AccountsInv'
<1> SUFFICES ASSUME AccountsInv, [Next]_vars PROVE AccountsInv'
  OBVIOUS
<1>1. ASSUME NEW a \in Account, NEW value \in BOOLEAN,
             SetUserActive(a, value) \/ SetEmployerActive(a, value)
      PROVE  AccountsInv'
  BY <1>1, SetActiveKeeps DEF SetUserActive, SetEmployerActive
<1>2. ASSUME NEW t \in Thread, NEW kind \in Kind, NEW by \in Account,
             NEW about \in Account \cup {None}, StartFiling(t, kind, by, about)
      PROVE  AccountsInv'
  BY <1>2, StartFilingKeeps
<1>3. ASSUME NEW t \in Thread, NEW c \in Case,
             \/ FileCase(t, c) \/ Refuse(t, c) \/ ResolveDuplicate(t, c)
             \/ LoadLever(t, c)
      PROVE  AccountsInv'
  BY <1>3, FileCaseKeeps, RefuseKeeps, LoadLeverKeeps
<1>4. ASSUME NEW t \in Thread, NEW a \in Account,
             \/ StartUpload(t, a) \/ EraseOwnAccount(t, a) \/ EraseOwnEmployer(t, a)
             \/ AdminErase(t, a)
      PROVE  AccountsInv'
  BY <1>4, StartUploadKeeps, EraseFilesKeeps DEF EraseOwnAccount, EraseOwnEmployer, AdminErase
<1>5. ASSUME NEW t \in Thread,
             \/ PullLever(t) \/ LoseLever(t) \/ Settle(t) \/ RefuseUpload(t) \/ SaveFile(t) \/ NameFile(t)
             \/ EraseRows(t) \/ Crash(t)
      PROVE  AccountsInv'
  BY <1>5, PullLeverKeeps, SettleKeeps, RefuseUploadKeeps, SaveFileKeeps, NameFileKeeps, EraseRowsKeeps,
     CrashKeeps
<1>6. ASSUME NEW e \in Employer, ShowDocument(e)
      PROVE  AccountsInv'
  BY <1>6, ShowDocumentKeeps
<1>7. ASSUME NEW e \in Employer, NEW d \in {"verified", "rejected"}, DecideBadge(e, d)
      PROVE  AccountsInv'
  BY <1>7, DecideBadgeKeeps
<1>8. CASE UNCHANGED vars
  <2>1. UNCHANGED <<rows, files, history, thread, requests, faults>>
    BY <1>8 DEF vars
  <2>2. \A a \in Account : BeingErased(a)' => BeingErased(a)
    BY <2>1 DEF BeingErased, rows
  <2>3. TypeOK'
    BY <2>1 DEF AccountsInv, TypeOK, rows, files, history
  <2> QED
    BY <2>1, <2>2, <2>3, CasesRest, FilesRest DEF AccountsInv, rows, history
<1> QED
  BY <1>1, <1>2, <1>3, <1>4, <1>5, <1>6, <1>7, <1>8 DEF Next

\* Every behaviour keeps the inductive invariant.
THEOREM AccountsInvariant == Spec => []AccountsInv
BY AccountsStart, AccountsStep, PTL DEF Spec

\* Every variable of the accounts keeps its type.
THEOREM AccountTypes == Spec => []TypeOK
<1>1. AccountsInv => TypeOK
  BY DEF AccountsInv
<1> QED
  BY <1>1, AccountsInvariant, PTL

\* An account is not erased over a dispute that was open when erasure looked.
THEOREM ErasuresWait == Spec => []ErasureWaits
<1>1. AccountsInv => ErasureWaits
  BY DEF AccountsInv, TypeOK, HoldsAreLate, ErasureWaits, BeingErased
<1> QED
  BY <1>1, AccountsInvariant, PTL

\* A granted case has taken effect, unless it was reversed after the decision had
\* loaded the account, or rolled back.
THEOREM GrantedCasesAreEffective == Spec => []GrantedIsEffective
<1>1. AccountsInv => GrantedIsEffective
  BY DEF AccountsInv, DecisionsAreEffective, Effective, GrantedIsEffective
<1> QED
  BY <1>1, AccountsInvariant, PTL

\* Erasure leaves only files that it could not know or failed to remove.
THEOREM ErasureLeavesFew == Spec => []ErasedLeavesFew
<1>1. AccountsInv => ErasedLeavesFew
  BY DEF AccountsInv, FilesAreNamed, ErasedLeavesFew, BeingErased
<1> QED
  BY <1>1, AccountsInvariant, PTL

\* A row names a missing file only in or after an erasure half way.
THEOREM NamedFilesAreOnDisk == Spec => []NamedIsOnDisk
<1>1. AccountsInv => NamedIsOnDisk
  BY DEF AccountsInv
<1> QED
  BY <1>1, AccountsInvariant, PTL

\* A badge is for a document that an admin has seen, but for the two races.
THEOREM BadgesAreReviewed == Spec => []BadgeIsReviewed
<1>1. AccountsInv => BadgeIsReviewed
  BY DEF AccountsInv
<1> QED
  BY <1>1, AccountsInvariant, PTL
=============================================================================
