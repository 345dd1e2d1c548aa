-------------------------------- MODULE Gigs --------------------------------
(***************************************************************************)
(* What becomes of an application (backend/app.py): the employer decides,  *)
(* completes gigs, both sides rate a completed gig, ratings are flagged    *)
(* and hidden, the worker is notified, and the employer's trust score is   *)
(* computed from it all.                                                   *)
(*                                                                         *)
(* The applications are those of one worker with one employer, whose       *)
(* requests (two tabs, two people on one account) run side by side.  A     *)
(* request reads a row, commits, and builds its notice from the row as it  *)
(* is after the commit: the session expires what it has loaded.            *)
(***************************************************************************)
EXTENDS Integers, Sequences, FiniteSets, FiniteSetsExt

CONSTANTS
  App,
  Gig,         \* applications to jobs of type "gig"
  Flag,        \* rows of RatingFlag
  Thread, None,
  Given,       \* bound: scores that are given
  Context,     \* bound: what else the employer's trust score depends on
  MaxAge,      \* bound: half-lives that a rating grows old
  MaxRequests, \* bound: requests of one behaviour
  MaxFaults    \* bound: worker deaths and failures to notify

ASSUME GigsAssumption ==
  /\ Gig \subseteq App
  /\ Given \subseteq 1 .. 5          \* _GIG_RATING_SCORE_RANGE
  /\ MaxAge \in Nat /\ MaxRequests \in Nat /\ MaxFaults \in Nat

VARIABLES
  status,      \* Application.status
  rating,      \* the table of ratings, one slot per unique key
  flag,        \* the table of rating flags
  inbox,       \* the worker's Notification rows, oldest first
  thread,      \* requests under way
  hired,       \* history: applications that were ever Accepted
  reopened,    \* history: Completed applications decided afterwards
  overlapped,  \* history: applications with two requests under way at once
  untold,      \* history: applications with a notice lost
  requests, faults

rows == <<status, rating, flag>>
history == <<hired, reopened, overlapped, untold>>
counters == <<requests, faults>>
vars == <<rows, inbox, thread, history, counters>>

Direction == {"worker_to_employer", "employer_to_worker"}
Decision == {"Accepted", "Rejected"}
Status == {"absent", "Pending", "Completed"} \cup Decision
Key == App \X Direction            \* uq_rating_application_direction
RatingRow == [score : Given, hidden : BOOLEAN]
FlagRow == [of : Key, status : {"open", "actioned", "dismissed"}]
Notice == [app : App, says : Status \cup {"rated"}]

ASSUME NoneAssumption == None \notin RatingRow \cup FlagRow

Idle == [op |-> "idle"]
GigOp == {"deciding", "completing", "telling", "delivering", "rating", "hiding"}
GigRequest ==
  [op : {"deciding"}, app : App, was : Status, to : Decision]
    \cup [op : {"completing"}, app : App]
    \cup [op : {"telling"}, app : App, was : Status]
    \cup [op : {"delivering"}, app : App, says : Status \cup {"rated"}]
    \cup [op : {"rating"}, of : Key, score : Given]
    \cup [op : {"hiding"}, flag : Flag]

TypeRows ==
  /\ status \in [App -> Status]
  /\ rating \in [Key -> RatingRow \cup {None}]
  /\ flag \in [Flag -> FlagRow \cup {None}]
  /\ hired \cup reopened \cup overlapped \cup untold \subseteq App
  /\ requests \in 0 .. MaxRequests /\ faults \in 0 .. MaxFaults

TypeOK ==
  /\ TypeRows
  /\ inbox \in Seq(Notice)
  /\ thread \in [Thread -> GigRequest \cup {Idle}]

Init ==
  /\ status \in [App -> {"absent", "Pending"}]
  /\ rating = [k \in Key |-> None]
  /\ flag = [f \in Flag |-> None]
  /\ inbox = <<>>
  /\ thread = [t \in Thread |-> Idle]
  /\ hired = {} /\ reopened = {} /\ overlapped = {} /\ untold = {}
  /\ requests = 0 /\ faults = 0

-----------------------------------------------------------------------------
Become(t, request) == thread' = [thread EXCEPT ![t] = request]

\* The bound on requests: one more.
Counted == requests < MaxRequests /\ requests' = requests + 1
Fault == faults < MaxFaults /\ faults' = faults + 1

Begin(t, request) ==
  Counted /\ thread[t] = Idle /\ Become(t, request) /\ UNCHANGED faults

\* A request that writes the status of a, or is about to tell of it.
About(t, a) ==
  /\ thread[t].op \in {"deciding", "completing", "telling", "delivering"}
  /\ thread[t].app = a

Overlap(a) ==
  overlapped' = IF \E t \in Thread : About(t, a) THEN overlapped \cup {a} ELSE overlapped

Rated(k) == rating[k] # None
Visible(direction) ==
  {k \in Key : k[2] = direction /\ Rated(k) /\ ~rating[k].hidden}

-----------------------------------------------------------------------------
(* Applying, deciding and completing *)

\* An application arrives (module Applications).
Apply(a) ==
  /\ Counted
  /\ status[a] = "absent"
  /\ status' = [status EXCEPT ![a] = "Pending"]
  /\ UNCHANGED <<rating, flag, inbox, thread, history, faults>>

\* employer_applications: any application of the job, whatever its status.
StartDecision(t, a, to) ==
  /\ status[a] # "absent"
  /\ Begin(t, [op |-> "deciding", app |-> a, was |-> status[a], to |-> to])
  /\ Overlap(a)
  /\ UNCHANGED <<rows, inbox, hired, reopened, untold>>

\* A value equal to the one loaded is not written.
Written(t) ==
  LET a == thread[t].app
  IN  IF thread[t].was = thread[t].to THEN status[a] ELSE thread[t].to

CommitDecision(t) ==
  LET a == thread[t].app IN
  /\ thread[t].op = "deciding"
  /\ status' = [status EXCEPT ![a] = Written(t)]
  /\ hired' = IF Written(t) = "Accepted" THEN hired \cup {a} ELSE hired
  /\ reopened' = IF status[a] = "Completed" /\ Written(t) # "Completed"
                 THEN reopened \cup {a} ELSE reopened
  /\ Become(t, [op |-> "telling", app |-> a, was |-> thread[t].was])
  /\ UNCHANGED <<rating, flag, inbox, overlapped, untold, counters>>

\* Mutant: the notice is made of the row as it was loaded.
Told_Loaded(t) == thread[t].was

\* The status a notice tells: the row, loaded again after log_event's commit.
Told(t) == status[thread[t].app]

ComposeNotice(t) ==
  /\ thread[t].op = "telling"
  /\ Become(t, [op |-> "delivering", app |-> thread[t].app, says |-> Told(t)])
  /\ UNCHANGED <<rows, inbox, history, counters>>

\* notify_user
Deliver(t) ==
  /\ thread[t].op = "delivering"
  /\ inbox' = Append(inbox, [app |-> thread[t].app, says |-> thread[t].says])
  /\ Become(t, Idle)
  /\ UNCHANGED <<rows, history, counters>>

MayComplete(a) == a \in Gig /\ status[a] = "Accepted"

\* employer_complete_application
StartCompletion(t, a) ==
  /\ MayComplete(a)
  /\ Begin(t, [op |-> "completing", app |-> a])
  /\ Overlap(a)
  /\ UNCHANGED <<rows, inbox, hired, reopened, untold>>

CommitCompletion(t) ==
  LET a == thread[t].app IN
  /\ thread[t].op = "completing"
  /\ status' = [status EXCEPT ![a] = "Completed"]
  /\ Become(t, [op |-> "delivering", app |-> a, says |-> "Completed"])
  /\ UNCHANGED <<rating, flag, inbox, history, counters>>

-----------------------------------------------------------------------------
(* Ratings *)

\* Mutant: an accepted gig may be rated before it is completed.
MayRate_Early(k) == status[k[1]] \in {"Accepted", "Completed"} /\ ~Rated(k)

MayRate(k) == status[k[1]] = "Completed" /\ ~Rated(k)

\* rate_employer, portal_rate_employer, employer_rate_worker
StartRating(t, k, score) ==
  /\ MayRate(k)
  /\ Begin(t, [op |-> "rating", of |-> k, score |-> score])
  /\ UNCHANGED <<rows, inbox, history>>

NewRating(score) == [score |-> score, hidden |-> FALSE]

\* The unique constraint.
Fits(k) == ~Rated(k)

CommitRating(t) ==
  LET k == thread[t].of IN
  /\ thread[t].op = "rating"
  /\ Fits(k)
  /\ rating' = [rating EXCEPT ![k] = NewRating(thread[t].score)]
  /\ Become(t, IF k[2] = "employer_to_worker"
               THEN [op |-> "delivering", app |-> k[1], says |-> "rated"] ELSE Idle)
  /\ UNCHANGED <<status, flag, inbox, history, counters>>

\* IntegrityError: the request ends in an error.
LoseRating(t) ==
  /\ thread[t].op = "rating"
  /\ ~Fits(thread[t].of)
  /\ Become(t, Idle)
  /\ UNCHANGED <<rows, inbox, history, counters>>

\* flag_rating, portal_flag_rating, employer_flag_rating: the rated side,
\* also of a hidden rating and while another flag is open.
FileFlag(f, k) ==
  /\ Counted
  /\ flag[f] = None /\ Rated(k)
  /\ flag' = [flag EXCEPT ![f] = [of |-> k, status |-> "open"]]
  /\ UNCHANGED <<status, rating, inbox, thread, history, faults>>

\* admin_resolve_rating_flag, "hide": log_event commits the rating first.
HideRating(t, f) ==
  /\ flag[f] # None
  /\ Begin(t, [op |-> "hiding", flag |-> f])
  /\ rating' = [rating EXCEPT ![flag[f].of].hidden = TRUE]
  /\ UNCHANGED <<status, flag, inbox, history>>

\* log_event fails: it rolls the hiding back and says nothing.
LoseHiding(t, f) ==
  /\ flag[f] # None
  /\ Counted /\ Fault
  /\ thread[t] = Idle /\ Become(t, [op |-> "hiding", flag |-> f])
  /\ UNCHANGED <<rows, inbox, history>>

MarkFlag(t) ==
  /\ thread[t].op = "hiding"
  /\ flag' = [flag EXCEPT ![thread[t].flag].status = "actioned"]
  /\ Become(t, Idle)
  /\ UNCHANGED <<status, rating, inbox, history, counters>>

\* "dismiss": also a flag that was actioned, whose rating stays hidden.
DismissFlag(f) ==
  /\ Counted
  /\ flag[f] # None
  /\ flag' = [flag EXCEPT ![f].status = "dismissed"]
  /\ UNCHANGED <<status, rating, inbox, thread, history, faults>>

-----------------------------------------------------------------------------
\* A worker process dies, or notify_user cannot commit its row.
LosesNotice(t) ==
  IF thread[t].op \in {"telling", "delivering"} THEN {thread[t].app} ELSE {}

Crash(t) ==
  /\ thread[t].op \in GigOp
  /\ Fault
  /\ untold' = untold \cup LosesNotice(t)
  /\ Become(t, Idle)
  /\ UNCHANGED <<rows, inbox, hired, reopened, overlapped, requests>>

EmployerStep(t) ==
  \/ \E a \in App : StartCompletion(t, a) \/ \E to \in Decision : StartDecision(t, a, to)
  \/ CommitDecision(t) \/ CommitCompletion(t) \/ ComposeNotice(t) \/ Deliver(t)

RatingStep(t) ==
  \/ \E k \in Key, score \in Given : StartRating(t, k, score)
  \/ CommitRating(t) \/ LoseRating(t)

FlagStep ==
  \E f \in Flag : \/ \E k \in Key : FileFlag(f, k)
                  \/ DismissFlag(f)
                  \/ \E t \in Thread : HideRating(t, f) \/ LoseHiding(t, f)

Next ==
  \/ \E a \in App : Apply(a)
  \/ \E t \in Thread : EmployerStep(t) \/ RatingStep(t) \/ MarkFlag(t) \/ Crash(t)
  \/ FlagStep

Spec == Init /\ [][Next]_vars

-----------------------------------------------------------------------------
(* _employer_trust_summary: the rest of its input, which others determine *)

\* How many half-lives old each rating is.
Ages == [Visible("worker_to_employer") -> 0 .. MaxAge]

\* The employer's verification, the open reports about it, its applications
\* from other workers, how many it responded to, and their visible ratings.
ASSUME ContextAssumption ==
  Context \subseteq [badge : {"unverified", "pending", "verified", "rejected"},
                     reports : Nat, others : Nat, answered : Nat,
                     earlier : SUBSET [score : 1 .. 5, age : 0 .. MaxAge]]

Component(badge) == CASE badge = "verified" -> 20 [] badge = "rejected" -> 0
                      [] OTHER -> 10

\* Mutant: only those accepted in the end count as responded to.
Responded_Hired == {a \in App : status[a] \in {"Accepted", "Completed"}}

Responded == {a \in App : status[a] \notin {"absent", "Pending"}}

Received == {a \in App : status[a] # "absent"}

\* num / den, rounded half to even as Python's round does.
Rounded(num, den) ==
  LET floor == num \div den
      twice == 2 * (num % den)
  IN  IF twice > den \/ (twice = den /\ floor % 2 = 1) THEN floor + 1 ELSE floor

\* A rating's weight halves with each half-life.
Weight(halves) == 2 ^ (MaxAge - halves)

\* Three phantom ratings of 3 come first; without ratings that is the prior.
Weights(age, earlier) ==
  SumFunction([k \in DOMAIN age |-> Weight(age[k])])
    + SumFunction([r \in earlier |-> Weight(r.age)]) + 3 * Weight(0)

Weighted(score, age, earlier) ==
  SumFunction([k \in DOMAIN age |-> score[k] * Weight(age[k])])
    + SumFunction([r \in earlier |-> r.score * Weight(r.age)]) + 9 * Weight(0)

TrustScore(age, context) ==
  LET weights    == Weights(age, context.earlier)
      weighted   == Weighted([k \in DOMAIN age |-> rating[k].score], age, context.earlier)
      received   == Cardinality(Received) + context.others
      responded  == Cardinality(Responded) + Min({context.others, context.answered})
      enough     == received >= 3
      total      == IF enough THEN received ELSE 2
      outcomes   == IF enough THEN responded ELSE 1     \* of 20, neutral: half
      fixed      == Component(context.badge) + Max({0, 20 - 4 * context.reports})
      numerator  == 8 * weighted * total + (20 * outcomes + fixed * total) * weights
  IN  Max({0, Min({100, Rounded(numerator, weights * total)})})

-----------------------------------------------------------------------------
(* Properties *)

\* A rating stays what it was when it was given ("Immutable once created",
\* Rating), however many submissions of one key race, and once hidden it is
\* never shown again, whatever is decided about later flags.
RatingsStand ==
  [][\A k \in Key :
       Rated(k) => /\ rating'[k] # None
                   /\ rating'[k].score = rating[k].score
                   /\ rating[k].hidden => rating'[k].hidden]_vars

\* Ratings are earned: whoever is rated was accepted for a gig that was
\* completed, which only a decision taken after the completion can hide.
RatedWasHired ==
  \A k \in Key :
    Rated(k) => /\ k[1] \in Gig \cap hired
                /\ status[k[1]] = "Completed" \/ k[1] \in reopened

\* Only an accepted application becomes Completed ("Only an accepted
\* application can be marked complete"), unless a decision and a completion
\* of it were under way at once.
CompletedFromAccepted ==
  [][\A a \in App :
       status[a] # "Completed" /\ status'[a] = "Completed"
         => status[a] = "Accepted" \/ a \in overlapped]_vars

\* When nothing about an application is under way, the last notice its worker
\* got tells the status it has, unless two requests overlapped or a notice was
\* lost: nothing repeats or corrects a notice.
LastTold(a) ==
  LET told == {i \in DOMAIN inbox : inbox[i].app = a /\ inbox[i].says \in Status}
  IN  IF told = {} THEN None ELSE inbox[Max(told)].says

NoticeIsStatus ==
  \A a \in App :
    \/ a \in overlapped \cup untold
    \/ \E t \in Thread : About(t, a)
    \/ LastTold(a) = IF status[a] \in {"absent", "Pending"} THEN None ELSE status[a]

\* Answering an applicant, with whatever answer, never lowers the employer's
\* trust score; nor does the best rating, or hiding the worst ("rewards
\* actually responding to applicants over any particular hire/reject ratio").
FallsFor ==
  \/ \E a \in App : status[a] = "absent" /\ status'[a] # "absent"
  \/ \E k \in Key : ~Rated(k) /\ rating'[k] # None /\ rating'[k].score < 5
  \/ \E k \in Key : Rated(k) /\ rating[k].score > 1 /\ ~rating[k].hidden /\ rating'[k].hidden

TrustFallsForAReason ==
  [][(status' # status \/ rating' # rating) /\ ~FallsFor =>
       \A context \in Context, age \in Ages :
         \A newAge \in {g \in Ages' : \A k \in DOMAIN age \cap DOMAIN g : g[k] = age[k]} :
           TrustScore(newAge, context)' >= TrustScore(age, context)]_vars
=============================================================================
