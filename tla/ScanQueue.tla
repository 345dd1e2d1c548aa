----------------------------- MODULE ScanQueue -----------------------------
(***************************************************************************)
(* The job scanner (backend/scanner): pg_cron and administrators queue     *)
(* scan runs, one poller per worker process claims them, and a scan turns  *)
(* a source's board into Job rows in many commits, minutes apart.  Other   *)
(* workers, the stale-run reaper, the reaper of expired jobs, an           *)
(* administrator removing a listing, a scan started from the command line  *)
(* and a worker's death come in between.                                   *)
(*                                                                         *)
(* Time is kept as three facts: whether a source is due, whether a running *)
(* run is over 30 minutes old, which listings are a week past their        *)
(* deadline.  Ids of closed runs and deleted jobs are used again once      *)
(* nothing holds them, so behaviours are endless and the state is finite.  *)
(***************************************************************************)
EXTENDS Naturals, Sequences, FiniteSets, FiniteSetsExt

CONSTANTS
  Source, Listing,
  SourceOf,      \* the board each listing is on
  Run, JobId,    \* primary keys of ScanRun and Job
  Poller,        \* worker processes running run_forever
  Cli,           \* scripts/run_scan.py processes
  Admin,         \* concurrent admin_scanner_trigger_source requests
  None,
  MaxBackfill,   \* MAX_JOBS_BACKFILLED_PER_SCAN
  MaxFaults      \* bound: worker deaths of one behaviour

ASSUME ScanQueueAssumption ==
  /\ SourceOf \in [Listing -> Source]
  /\ None \notin Source \cup Listing \cup Run \cup JobId
  /\ Poller \cap Cli = {}
  /\ MaxBackfill \in Nat \ {0} /\ MaxFaults \in Nat

VARIABLES
  active, due,   \* of each source
  run, queue,    \* the scan_run table; ids of its queued rows, oldest first
  job,           \* the scraped rows of the job table
  longPast,      \* listings past their deadline and REAP_GRACE_DAYS
  scan,          \* what each process is doing in run_scan_for_source
  request,       \* trigger requests that have passed the already_pending check
  alerts,        \* alerts sent for each listing; 2 stands for more
  overlapped,    \* history: sources that ever had two scans under way
  faults

tableVars == <<run, queue, job>>
clockVars == <<active, due, longPast>>
vars == <<active, due, run, queue, job, longPast, scan, request, alerts,
          overlapped, faults>>

Worker == Poller \cup Cli
Open == {"queued", "running"}

\* How much a row's description says: nothing, a listing-page stub, the
\* detail page (MIN_USEFUL_DESCRIPTION_LENGTH or more).
Text == 0 .. 2
Stub == 0 .. 1
Full == 2

RunRow == [source : Source \cup {None}, old : BOOLEAN,
           status : {"none", "success", "failed"} \cup Open]

\* idle -> claimed -> scraping -> upserting -> backfilling -> callback
Scan == [pc : {"idle", "claimed", "scraping", "upserting", "backfilling",
               "callback"},
         run : Run \cup {None},
         read : UNION {[found -> [job : JobId \cup {None}, seen : Text,
                                  offer : Stub]] : found \in SUBSET Listing},
         created : SUBSET JobId, todo : SUBSET JobId]

TypeOK ==
  /\ active \in [Source -> BOOLEAN] /\ due \in [Source -> BOOLEAN]
  /\ run \in [Run -> RunRow]
  /\ queue \in Seq(Run)
  /\ job \in [JobId -> [listing : Listing \cup {None}, text : Text]]
  /\ longPast \subseteq Listing
  /\ scan \in [Worker -> Scan]
  /\ request \in [Admin -> Source \cup {None}]
  /\ alerts \in [Listing -> 0 .. 2]
  /\ overlapped \in [Source -> BOOLEAN]
  /\ faults \in Nat

NoRun == [source |-> None, old |-> FALSE, status |-> "none"]
NoJob == [listing |-> None, text |-> 0]
Idle == [pc |-> "idle", run |-> None, read |-> <<>>, created |-> {}, todo |-> {}]

Init ==
  /\ active = [s \in Source |-> TRUE]
  /\ due = [s \in Source |-> TRUE]     \* last_scan_started_at is NULL
  /\ run = [r \in Run |-> NoRun]
  /\ queue = <<>>
  /\ job = [j \in JobId |-> NoJob]
  /\ longPast = {}
  /\ scan = [w \in Worker |-> Idle]
  /\ request = [a \in Admin |-> None]
  /\ alerts = [l \in Listing |-> 0]
  /\ overlapped = [s \in Source |-> FALSE]
  /\ faults = 0

-----------------------------------------------------------------------------
Live(j) == job[j].listing # None
OpenRuns(s) == {r \in Run : run[r].source = s /\ run[r].status \in Open}
SourceScanned(w) == run[scan[w].run].source

\* w is between last_scan_started_at and the end of its scan of s
Scanning(w, s) ==
  scan[w].pc \notin {"idle", "claimed", "callback"} /\ SourceScanned(w) = s

FreeRun(r) ==
  run[r].status \notin Open /\ \A w \in Worker : scan[w].run # r

FreeJob(j) ==
  /\ ~Live(j)
  /\ \A w \in Worker :
       /\ j \notin scan[w].created \cup scan[w].todo
       /\ \A l \in DOMAIN scan[w].read : scan[w].read[l].job # j

NewRun(r, s, status) ==
  /\ FreeRun(r)
  /\ run' = [run EXCEPT ![r] = [source |-> s, old |-> FALSE, status |-> status]]

-----------------------------------------------------------------------------
(* Queueing *)

\* Mutant: without NOT EXISTS.
QueueDue_Unguarded(s, r) ==
  /\ active[s] /\ due[s]
  /\ NewRun(r, s, "queued")
  /\ queue' = Append(queue, r)
  /\ UNCHANGED <<clockVars, job, scan, request, alerts, overlapped, faults>>

\* youthchain-queue-due-scans, one row of its INSERT ... SELECT
QueueDue(s, r) ==
  /\ active[s] /\ due[s]
  /\ OpenRuns(s) = {}
  /\ NewRun(r, s, "queued")
  /\ queue' = Append(queue, r)
  /\ UNCHANGED <<clockVars, job, scan, request, alerts, overlapped, faults>>

\* admin_scanner_trigger_source looks for an open run ...
OpenTrigger(a, s) ==
  /\ request[a] = None
  /\ OpenRuns(s) = {}
  /\ request' = [request EXCEPT ![a] = s]
  /\ UNCHANGED <<clockVars, tableVars, scan, alerts, overlapped, faults>>

\* ... and inserts its own
CommitTrigger(a, r) ==
  /\ request[a] # None
  /\ request' = [request EXCEPT ![a] = None]
  /\ NewRun(r, request[a], "queued")
  /\ queue' = Append(queue, r)
  /\ UNCHANGED <<clockVars, job, scan, alerts, overlapped, faults>>

\* admin_scanner_update_source
ToggleActive(s) ==
  /\ active' = [active EXCEPT ![s] = ~@]
  /\ UNCHANGED <<due, longPast, tableVars, scan, request, alerts, overlapped, faults>>

\* Mutant: only queued runs are looked at.
ReapStale_Queued ==
  LET stale == {r \in Run : run[r].status = "queued" /\ run[r].old} IN
  /\ stale # {}
  /\ run' = [r \in Run |->
               IF r \in stale THEN [run[r] EXCEPT !.status = "failed"] ELSE run[r]]
  /\ UNCHANGED <<clockVars, queue, job, scan, request, alerts, overlapped, faults>>

\* youthchain-reap-stale-scan-runs
ReapStale ==
  LET stale == {r \in Run : run[r].status = "running" /\ run[r].old} IN
  /\ stale # {}
  /\ run' = [r \in Run |->
               IF r \in stale THEN [run[r] EXCEPT !.status = "failed"] ELSE run[r]]
  /\ UNCHANGED <<clockVars, queue, job, scan, request, alerts, overlapped, faults>>

-----------------------------------------------------------------------------
(* One scan *)

\* Mutant: the claimed run is not marked, as with a SELECT without UPDATE.
Claim_Unmarked(w) ==
  /\ scan[w].pc = "idle" /\ queue # <<>>
  /\ scan' = [scan EXCEPT ![w] = [Idle EXCEPT !.pc = "claimed", !.run = Head(queue)]]
  /\ UNCHANGED <<run, queue, clockVars, job, request, alerts, overlapped, faults>>

\* claim_next_due_scan_run
Claim(w) ==
  /\ scan[w].pc = "idle" /\ queue # <<>>
  /\ scan' = [scan EXCEPT ![w] = [Idle EXCEPT !.pc = "claimed", !.run = Head(queue)]]
  /\ run' = [run EXCEPT ![Head(queue)].status = "running"]
  /\ queue' = Tail(queue)
  /\ UNCHANGED <<clockVars, job, request, alerts, overlapped, faults>>

\* run_scan.py: a run of its own, whatever is queued or running
StartDirect(w, s, r) ==
  /\ scan[w].pc = "idle"
  /\ NewRun(r, s, "running")
  /\ scan' = [scan EXCEPT ![w] = [Idle EXCEPT !.pc = "claimed", !.run = r]]
  /\ UNCHANGED <<clockVars, queue, job, request, alerts, overlapped, faults>>

\* source.last_scan_started_at = now
Start(w) ==
  LET s == SourceScanned(w) IN
  /\ scan[w].pc = "claimed"
  /\ scan' = [scan EXCEPT ![w].pc = "scraping"]
  /\ due' = [due EXCEPT ![s] = FALSE]
  /\ overlapped' = [overlapped EXCEPT ![s] =
                      @ \/ \E v \in Worker \ {w} : Scanning(v, s)]
  /\ UNCHANGED <<active, longPast, tableVars, request, alerts, faults>>

\* ScanSourceError or ScanExtractionError: the run fails, nothing to alert
ScrapeFails(w) ==
  /\ scan[w].pc = "scraping"
  /\ run' = [run EXCEPT ![scan[w].run].status = "failed"]
  /\ scan' = [scan EXCEPT ![w] = Idle]
  /\ UNCHANGED <<clockVars, queue, job, request, alerts, overlapped, faults>>

RowsOf(l) == {j \in JobId : job[j].listing = l}

\* Mutant: a listing's row is never found again (an unstable external_id).
Read_NoLookup(w, offer) ==
  /\ scan[w].pc = "scraping"
  /\ \A l \in DOMAIN offer : SourceOf[l] = SourceScanned(w)
  /\ scan' = [scan EXCEPT ![w].pc = "upserting",
                ![w].read = [l \in DOMAIN offer |->
                               [job |-> None, seen |-> 0, offer |-> offer[l]]]]
  /\ UNCHANGED <<clockVars, tableVars, request, alerts, overlapped, faults>>

\* The board was scraped and its listings extracted; each is looked up by
\* (source_id, external_id).
Read(w, offer) ==
  /\ scan[w].pc = "scraping"
  /\ \A l \in DOMAIN offer : SourceOf[l] = SourceScanned(w)
  /\ \E first \in [DOMAIN offer -> JobId \cup {None}] :
       /\ \A l \in DOMAIN offer : IF RowsOf(l) = {} THEN first[l] = None
                                  ELSE first[l] \in RowsOf(l)
       /\ scan' = [scan EXCEPT ![w].pc = "upserting",
            ![w].read = [l \in DOMAIN offer |->
                           [job |-> first[l], offer |-> offer[l],
                            seen |-> IF first[l] = None THEN 0
                                     ELSE job[first[l]].text]]]
  /\ UNCHANGED <<clockVars, tableVars, request, alerts, overlapped, faults>>

\* An exception reaches run_forever (or ends the command): rollback, and the
\* run is left as it is.
Abort(w) ==
  /\ scan' = [scan EXCEPT ![w] = Idle]
  /\ UNCHANGED <<clockVars, tableVars, request, alerts, overlapped, faults>>

\* Mutant: the board's text replaces the row's.
PreferFullerText_Newest(new, existing) == new

\* _prefer_fuller_text: the longer of the two
PreferFullerText(new, existing) == IF new > existing THEN new ELSE existing

\* The listing pass is committed.  A row it read may have been deleted in
\* the meantime (StaleDataError); a description is only written when
\* it differs from what was read.
Upsert(w) ==
  LET read == scan[w].read
      ids  == {read[l].job : l \in DOMAIN read} \ {None}
      missing == {l \in DOMAIN read : read[l].job = None}
      text(l) == PreferFullerText(read[l].offer, read[l].seen)
      thin(l) == read[l].offer < Full /\ read[l].seen < Full
  IN
  /\ scan[w].pc = "upserting"
  /\ IF \E j \in ids : ~Live(j) THEN Abort(w)
     ELSE
     /\ \E new \in [missing -> {j \in JobId : FreeJob(j)}] :
          LET row(l) == IF l \in missing THEN new[l] ELSE read[l].job
              needing == {row(l) : l \in {k \in DOMAIN read : thin(k)}}
          IN /\ \A l, k \in missing : new[l] = new[k] => l = k
             /\ job' = [j \in JobId |->
                  IF \E l \in DOMAIN read :
                       row(l) = j /\ (l \in missing \/ text(l) # read[l].seen)
                  THEN LET l == CHOOSE l \in DOMAIN read : row(l) = j
                       IN [listing |-> l, text |-> text(l)]
                  ELSE job[j]]
             /\ \E todo \in kSubset(Min({MaxBackfill, Cardinality(needing)}), needing) :
                  scan' = [scan EXCEPT ![w].pc = "backfilling", ![w].read = <<>>,
                             ![w].created = {new[l] : l \in missing},
                             ![w].todo = todo]
     /\ UNCHANGED <<clockVars, run, queue, request, alerts, overlapped, faults>>

\* One detail page, committed on its own: the row is read again, so one that
\* was deleted raises; a page that cannot be read leaves the row as it is.  What
\* the page says of the job is written whether or not it is the longer text.
Backfill(w, j) ==
  /\ scan[w].pc = "backfilling" /\ j \in scan[w].todo
  /\ IF ~Live(j) THEN Abort(w)
     ELSE /\ scan' = [scan EXCEPT ![w].todo = @ \ {j}]
          /\ \/ \E text \in Text \ {0} : job' = [job EXCEPT ![j].text = text]
             \/ UNCHANGED job
          /\ UNCHANGED <<clockVars, run, queue, request, alerts, overlapped, faults>>

\* status = "success", whatever the reaper has made of the run meanwhile
Finish(w) ==
  /\ scan[w].pc = "backfilling" /\ scan[w].todo = {}
  /\ run' = [run EXCEPT ![scan[w].run].status = "success"]
  /\ scan' = [scan EXCEPT ![w].pc = "callback"]
  /\ UNCHANGED <<clockVars, queue, job, request, alerts, overlapped, faults>>

\* run_scan.py calls _dispatch_job_alerts_for_scan(outcome): one alert for
\* each created row that is still there (and matches a saved search).
Dispatch(w) ==
  LET fresh == {job[j].listing : j \in scan[w].created} \ {None} IN
  /\ scan[w].pc = "callback"
  /\ alerts' = [l \in Listing |-> IF l \in fresh THEN Min({alerts[l] + 1, 2})
                                  ELSE alerts[l]]
  /\ scan' = [scan EXCEPT ![w] = Idle]
  /\ UNCHANGED <<clockVars, tableVars, request, overlapped, faults>>

\* run_forever calls on_scan_complete(outcome, source_id), but
\* _dispatch_job_alerts_for_scan takes one argument: TypeError, rollback.
CallbackRaises(w) == scan[w].pc = "callback" /\ Abort(w)

-----------------------------------------------------------------------------
(* What goes on around a scan *)

\* scanner.reaper, from the poll loop
ReapExpired(w) ==
  LET expired == {j \in JobId : job[j].listing \in longPast} IN
  /\ scan[w].pc = "idle"
  /\ expired # {}
  /\ job' = [j \in JobId |-> IF j \in expired THEN NoJob ELSE job[j]]
  /\ UNCHANGED <<clockVars, run, queue, scan, request, alerts, overlapped, faults>>

\* admin_resolve_listing_report: "remove_listing"
RemoveListing(j) ==
  /\ Live(j)
  /\ job' = [job EXCEPT ![j] = NoJob]
  /\ UNCHANGED <<clockVars, run, queue, scan, request, alerts, overlapped, faults>>

\* A process dies: its transaction is rolled back, its scan forgotten.
Crash(w) ==
  /\ scan[w].pc # "idle"
  /\ faults < MaxFaults /\ faults' = faults + 1
  /\ scan' = [scan EXCEPT ![w] = Idle]
  /\ UNCHANGED <<clockVars, tableVars, request, alerts, overlapped>>

\* Not between the claim and the start, which follow each other at once.
GetsOld(r) ==
  /\ run[r].status = "running" /\ ~run[r].old
  /\ \A w \in Worker : scan[w].run = r => scan[w].pc # "claimed"
  /\ run' = [run EXCEPT ![r].old = TRUE]
  /\ UNCHANGED <<clockVars, queue, job, scan, request, alerts, overlapped, faults>>

\* scan_frequency_minutes is at least 30, the reaper's age limit: a source
\* only becomes due again when its running runs are that old.
BecomesDue(s) ==
  /\ ~due[s]
  /\ \A r \in Run : run[r].source = s /\ run[r].status = "running" => run[r].old
  /\ due' = [due EXCEPT ![s] = TRUE]
  /\ UNCHANGED <<active, longPast, tableVars, scan, request, alerts, overlapped, faults>>

DeadlinePasses(l) ==
  /\ l \notin longPast
  /\ longPast' = longPast \cup {l}
  /\ UNCHANGED <<active, due, tableVars, scan, request, alerts, overlapped, faults>>

-----------------------------------------------------------------------------
Offers == UNION {[found -> Stub] : found \in SUBSET Listing}

ScanStep(w) ==
  \/ Start(w) \/ ScrapeFails(w) \/ Upsert(w) \/ Finish(w)
  \/ \E offer \in Offers : Read(w, offer)
  \/ \E j \in JobId : Backfill(w, j)

PollerStep(w) == Claim(w) \/ ScanStep(w) \/ CallbackRaises(w)
CliStep(w) == ScanStep(w) \/ Dispatch(w)

QueueStep ==
  \/ \E s \in Source, r \in Run : QueueDue(s, r)
  \/ \E a \in Admin : \/ \E s \in Source : OpenTrigger(a, s)
                      \/ \E r \in Run : CommitTrigger(a, r)
  \/ \E s \in Source : ToggleActive(s)
  \/ ReapStale

TimeStep ==
  \/ \E r \in Run : GetsOld(r)
  \/ \E s \in Source : BecomesDue(s)
  \/ \E l \in Listing : DeadlinePasses(l)

Next ==
  \/ QueueStep
  \/ TimeStep
  \/ \E w \in Poller : PollerStep(w) \/ ReapExpired(w)
  \/ \E w \in Cli : CliStep(w) \/ \E s \in Source, r \in Run : StartDirect(w, s, r)
  \/ \E w \in Worker : Crash(w)
  \/ \E j \in JobId : RemoveListing(j)

Spec == Init /\ [][Next]_vars

\* pg_cron runs, time passes and processes that run are scheduled;
\* administrators and commands promise nothing.
Fairness ==
  /\ \A s \in Source : /\ WF_vars(BecomesDue(s))
                       /\ WF_vars(\E r \in Run : QueueDue(s, r))
  /\ \A r \in Run : WF_vars(GetsOld(r))
  /\ WF_vars(ReapStale)
  /\ \A w \in Poller : WF_vars(PollerStep(w))
  /\ \A w \in Cli : WF_vars(CliStep(w))

FairSpec == Spec /\ Fairness

-----------------------------------------------------------------------------
(* Properties *)

\* However many workers poll, a run is executed by one of them ("zero risk of
\* two workers claiming the same scan_run", scanner/poller.py).
OneWorkerPerRun ==
  \A v, w \in Worker :
    scan[v].run # None /\ scan[v].run = scan[w].run => v = w

\* Redundant runs cannot pile up: the check before each insert leaves room for
\* one run per request that passed it before another was inserted, and no more.
NoPile ==
  \A s \in Source :
    Cardinality({r \in Run : run[r].source = s /\ run[r].status = "queued"})
      + Cardinality({a \in Admin : request[a] = s}) <= 1 + Cardinality(Admin)

\* The get-or-create by external_id needs no unique constraint as long as a
\* source's scans do not overlap: crashes, aborted scans, reaped and removed
\* rows never leave two rows for one listing.
NoDuplicateRows ==
  \A i, j \in JobId :
    Live(i) /\ job[i].listing = job[j].listing /\ ~overlapped[SourceOf[job[i].listing]]
      => i = j

\* A rescan never replaces a backfilled description by a stub, scans that
\* overlap apart (_prefer_fuller_text).
FullTextKept ==
  [][\A j \in JobId :
       Live(j) /\ job[j].text = Full /\ job'[j].listing = job[j].listing
         /\ ~overlapped[SourceOf[job[j].listing]] => job'[j].text = Full]_vars

\* No crash, abort or race blocks a source for ever: while it stays active, it
\* is scanned again and again (what the stale-run reaper is for).
SourcesAreRescanned ==
  \A s \in Source :
    []<>(\E w \in Worker : Scanning(w, s)) \/ []<>(~active[s])

-----------------------------------------------------------------------------
(* What the source says and the code does not do *)

\* poller.py:67-75, app.py:9894-9897: the callback runs after every real scan
\* and alerts are fired for what the scan created.
AlertsFollowScans ==
  [][\A w \in Worker, j \in JobId :
       scan[w].pc = "callback" /\ scan'[w].pc = "idle" /\ faults' = faults
         /\ j \in scan[w].created /\ Live(j)
         => alerts'[job[j].listing] > 0]_vars
=============================================================================
