--------------------------- MODULE ScanQueueProofs ---------------------------
(***************************************************************************)
(* Proofs about ScanQueue, for any sources, listings, runs, rows, workers  *)
(* and administrators: who executes a run, and what scans that do not      *)
(* overlap leave in the table of jobs.                                     *)
(***************************************************************************)
EXTENDS ScanQueue, FiniteSetTheorems, TLAPS

-----------------------------------------------------------------------------
(* The inductive invariant *)

\* A queued run is in the queue once and no worker has it.
QueueInv ==
  /\ \A i, k \in 1 .. Len(queue) : queue[i] = queue[k] => i = k
  /\ \A i \in 1 .. Len(queue) :
       /\ run[queue[i]].status = "queued" /\ run[queue[i]].source \in Source
       /\ \A w \in Worker : scan[w].run # queue[i]

\* A scan has a run of its own, which keeps its source.
HeldInv ==
  /\ OneWorkerPerRun
  /\ \A w \in Worker :
       scan[w].pc # "idle" => scan[w].run \in Run /\ run[scan[w].run].source \in Source
  /\ \A a \in Admin : request[a] # None => request[a] \in Source

ScannersInv ==
  \A s \in Source : ~overlapped[s] =>
    \A v, w \in Worker : Scanning(v, s) /\ Scanning(w, s) => v = w

\* What a scan has read of a listing is still so, as long as it is alone.
ReadInv ==
  \A w \in Worker : scan[w].pc = "upserting" =>
    \A l \in DOMAIN scan[w].read :
      /\ SourceOf[l] = SourceScanned(w)
      /\ scan[w].read[l].job # None => job[scan[w].read[l].job].listing \in {l, None}
      /\ ~overlapped[SourceOf[l]] =>
           /\ RowsOf(l) \subseteq {scan[w].read[l].job}
           /\ scan[w].read[l].job # None /\ Live(scan[w].read[l].job)
                => scan[w].read[l].seen = job[scan[w].read[l].job].text

\* A scan completes rows of its own source, which have no full description as
\* long as it is alone.
TodoInv ==
  \A w \in Worker : scan[w].pc = "backfilling" =>
    \A j \in scan[w].todo : Live(j) =>
      /\ SourceOf[job[j].listing] = SourceScanned(w)
      /\ ~overlapped[SourceOf[job[j].listing]] => job[j].text # Full

RowsInv == ScannersInv /\ ReadInv /\ TodoInv /\ NoDuplicateRows

ScanInv == TypeOK /\ QueueInv /\ HeldInv /\ RowsInv

-----------------------------------------------------------------------------
(* Types *)

ReadRow == [job : JobId \cup {None}, seen : Text, offer : Stub]
Reads == UNION {[found -> ReadRow] : found \in SUBSET Listing}
Phase == {"idle", "claimed", "scraping", "upserting", "backfilling", "callback"}

LEMMA ScanFields ==
  ASSUME NEW r \in Scan
  PROVE  /\ r.pc \in Phase /\ r.run \in Run \cup {None}
         /\ r.read \in Reads /\ r.created \subseteq JobId /\ r.todo \subseteq JobId
BY DEF Scan, Reads, ReadRow, Phase

LEMMA ReadFields ==
  ASSUME NEW f \in Reads
  PROVE  /\ DOMAIN f \subseteq Listing
         /\ \A l \in DOMAIN f : /\ f[l].job \in JobId \cup {None}
                                /\ f[l].seen \in Text /\ f[l].offer \in Stub
BY DEF Reads, ReadRow

LEMMA IdleTyped ==
  /\ Idle \in Scan /\ Idle.pc = "idle" /\ Idle.run = None /\ Idle.created = {}
  /\ Idle.todo = {} /\ Idle.read = <<>> /\ Idle.read \in Reads
<1>1. <<>> \in [{} -> ReadRow]
  OBVIOUS
<1>2. <<>> \in Reads
  BY <1>1 DEF Reads
<1> QED
  BY <1>2 DEF Idle, Scan, Reads, ReadRow

LEMMA WorkersTyped ==
  ASSUME TypeOK, NEW w \in Worker
  PROVE  /\ scan[w].pc \in Phase /\ scan[w].run \in Run \cup {None}
         /\ scan[w].read \in Reads /\ scan[w].created \subseteq JobId
         /\ scan[w].todo \subseteq JobId /\ scan[w] \in Scan
BY ScanFields DEF TypeOK

\* w goes on with r.
LEMMA Goes ==
  ASSUME TypeOK, NEW w \in Worker, NEW r \in Scan, scan' = [scan EXCEPT ![w] = r]
  PROVE  /\ scan' \in [Worker -> Scan]
         /\ \A v \in Worker : scan'[v] = IF v = w THEN r ELSE scan[v]
BY DEF TypeOK

LEMMA RunsTyped ==
  ASSUME TypeOK, NEW r \in Run
  PROVE  /\ run[r] \in RunRow /\ run[r].source \in Source \cup {None}
         /\ run[r].old \in BOOLEAN
         /\ run[r].status \in {"none", "success", "failed", "queued", "running"}
BY DEF TypeOK, RunRow, Open

\* A run gets another status and keeps its source.
LEMMA StatusSet ==
  ASSUME TypeOK, NEW r \in Run, NEW st \in {"success", "failed", "running"},
         run' = [run EXCEPT ![r].status = st]
  PROVE  /\ run' \in [Run -> RunRow]
         /\ \A q \in Run : /\ run'[q].source = run[q].source
                           /\ q # r => run'[q] = run[q]
<1>1. run \in [Run -> RunRow]
  BY DEF TypeOK
<1>2. PICK row : row = [run[r] EXCEPT !.status = st]
  OBVIOUS
<1>3. row \in RunRow /\ row.source = run[r].source
  BY <1>1, <1>2 DEF RunRow, Open
<1>4. run' = [run EXCEPT ![r] = row]
  BY <1>2
<1> QED
  BY <1>1, <1>3, <1>4

LEMMA NewRunSet ==
  ASSUME TypeOK, NEW r \in Run, NEW s \in Source, NEW st \in {"queued", "running"},
         NewRun(r, s, st)
  PROVE  /\ run' \in [Run -> RunRow] /\ run'[r].source = s /\ run'[r].status = st
         /\ \A q \in Run : q # r => run'[q] = run[q]
         /\ run[r].status \notin Open /\ \A w \in Worker : scan[w].run # r
<1>1. run \in [Run -> RunRow]
  BY DEF TypeOK
<1>2. PICK row : row = [source |-> s, old |-> FALSE, status |-> st]
  OBVIOUS
<1>3. row \in RunRow /\ row.source = s /\ row.status = st
  BY <1>2 DEF RunRow, Open
<1>4. run' = [run EXCEPT ![r] = row]
  BY <1>2 DEF NewRun
<1> QED
  BY <1>1, <1>3, <1>4 DEF NewRun, FreeRun

\* A fact of arithmetic that FiniteSetsExt states by a choice.
LEMMA MinOfTwo ==
  ASSUME NEW a \in Nat, NEW b \in Nat
  PROVE  Min({a, b}) \in {a, b} /\ Min({a, b}) <= a /\ Min({a, b}) <= b
<1>1. \E x \in {a, b} : \A y \in {a, b} : x <= y
  OBVIOUS
<1>2. Min({a, b}) \in {a, b} /\ \A y \in {a, b} : Min({a, b}) <= y
  BY <1>1 DEF Min
<1> QED
  BY <1>2

-----------------------------------------------------------------------------
(* What most steps leave alone *)

\* Scans go on or stop, runs keep their source, and what is queued stays so.
LEMMA RunsKept ==
  ASSUME ScanInv, queue' = queue, request' = request,
         \A w \in Worker : \/ scan'[w] = scan[w] \/ scan'[w] = Idle
                           \/ scan[w].pc # "idle" /\ scan'[w].run = scan[w].run,
         \A r \in Run : /\ run'[r].source = run[r].source
                        /\ \/ run'[r].status = run[r].status
                           \/ run[r].status # "queued"
                           \/ \E w \in Worker : scan[w].run = r
  PROVE  QueueInv' /\ HeldInv'
<1>1. \A w \in Worker : scan'[w].run \in {scan[w].run, None}
  BY IdleTyped
<1>2. \A i \in 1 .. Len(queue) : queue[i] \in Run /\ queue[i] # None
  BY ScanQueueAssumption DEF ScanInv, TypeOK
<1>3. QueueInv'
  <2>1. \A i \in 1 .. Len(queue) : \A w \in Worker : scan'[w].run # queue[i]
    BY <1>1, <1>2 DEF ScanInv, QueueInv
  <2>2. \A i \in 1 .. Len(queue) :
          run'[queue[i]].status = "queued" /\ run'[queue[i]].source \in Source
    BY <1>2 DEF ScanInv, QueueInv
  <2> QED
    BY <2>1, <2>2 DEF ScanInv, QueueInv
<1>4. OneWorkerPerRun'
  BY <1>1 DEF ScanInv, HeldInv, OneWorkerPerRun
<1>5. ASSUME NEW w \in Worker, scan'[w].pc # "idle"
      PROVE  scan'[w].run \in Run /\ run'[scan'[w].run].source \in Source
  <2>1. scan[w].pc # "idle" /\ scan'[w].run = scan[w].run
    BY <1>5, IdleTyped
  <2> QED
    BY <2>1 DEF ScanInv, HeldInv
<1> QED
  BY <1>3, <1>4, <1>5 DEF ScanInv, HeldInv

\* Scans stop, or have nothing to do with rows yet; rows are deleted.
LEMMA ReadsKept ==
  ASSUME ScanInv, \A s \in Source : overlapped[s] => overlapped'[s],
         \A w \in Worker : scan'[w] = scan[w] \/ scan'[w].pc \notin {"upserting", "backfilling"},
         \A w \in Worker : scan'[w] = scan[w] /\ scan[w].pc # "idle"
           => run'[scan[w].run].source = run[scan[w].run].source,
         \A j \in JobId : job'[j] = job[j] \/ job'[j] = NoJob
  PROVE  ReadInv' /\ TodoInv' /\ NoDuplicateRows'
<1>1. ASSUME NEW w \in Worker, scan'[w].pc \in {"upserting", "backfilling"}
      PROVE  scan'[w] = scan[w] /\ SourceScanned(w)' = SourceScanned(w)
  BY <1>1 DEF SourceScanned
<1>2. \A j \in JobId : job'[j].listing \in {job[j].listing, None}
  BY DEF NoJob
<1>3. \A j \in JobId : Live(j)' => Live(j) /\ job'[j] = job[j]
  BY DEF NoJob, Live
<1>4. \A l \in Listing : ~overlapped'[SourceOf[l]] => ~overlapped[SourceOf[l]]
  BY ScanQueueAssumption
<1>5. ReadInv'
  <2>1. ASSUME NEW w \in Worker, scan'[w].pc = "upserting",
               NEW l \in DOMAIN scan[w].read
        PROVE  /\ SourceOf[l] = SourceScanned(w)'
               /\ scan[w].read[l].job # None
                    => job'[scan[w].read[l].job].listing \in {l, None}
               /\ ~overlapped'[SourceOf[l]] =>
                    /\ RowsOf(l)' \subseteq {scan[w].read[l].job}
                    /\ scan[w].read[l].job # None /\ job'[scan[w].read[l].job].listing # None
                         => scan[w].read[l].seen = job'[scan[w].read[l].job].text
    <3>1. scan'[w] = scan[w] /\ SourceScanned(w)' = SourceScanned(w)
      BY <1>1, <2>1
    <3>2. scan[w].read[l].job \in JobId \cup {None} /\ l \in Listing
      BY <3>1, WorkersTyped, ReadFields DEF ScanInv
    <3>3. RowsOf(l)' \subseteq RowsOf(l)
      BY <1>3, <3>2, ScanQueueAssumption DEF RowsOf, Live
    <3>4. /\ SourceOf[l] = SourceScanned(w)
          /\ scan[w].read[l].job # None => job[scan[w].read[l].job].listing \in {l, None}
          /\ ~overlapped[SourceOf[l]] =>
               /\ RowsOf(l) \subseteq {scan[w].read[l].job}
               /\ scan[w].read[l].job # None /\ Live(scan[w].read[l].job)
                    => scan[w].read[l].seen = job[scan[w].read[l].job].text
      BY <2>1, <3>1 DEF ScanInv, RowsInv, ReadInv
    <3>5. PICK id : id = scan[w].read[l].job
      OBVIOUS
    <3>6. id # None => job'[id].listing \in {l, None}
      BY <1>2, <3>2, <3>4, <3>5
    <3>7. id # None /\ job'[id].listing # None => Live(id) /\ job'[id] = job[id]
      BY <1>3, <3>2, <3>5 DEF Live
    <3> QED
      BY <1>4, <3>1, <3>2, <3>3, <3>4, <3>5, <3>6, <3>7
  <2>2. \A w \in Worker : scan'[w].pc = "upserting" => scan'[w] = scan[w]
    BY <1>1
  <2> QED
    BY <2>1, <2>2 DEF ReadInv, Live
<1>6. TodoInv'
  <2> SUFFICES ASSUME NEW w \in Worker, scan'[w].pc = "backfilling",
                      NEW j \in scan'[w].todo, Live(j)'
               PROVE  /\ SourceOf[job'[j].listing] = SourceScanned(w)'
                      /\ ~overlapped'[SourceOf[job'[j].listing]] => job'[j].text # Full
    BY DEF TodoInv
  <2>1. scan'[w] = scan[w] /\ SourceScanned(w)' = SourceScanned(w)
    BY <1>1
  <2>2. j \in JobId
    BY <2>1, WorkersTyped DEF ScanInv
  <2>3. Live(j) /\ job'[j] = job[j] /\ job[j].listing \in Listing
    BY <1>3, <2>2 DEF Live, ScanInv, TypeOK
  <2>4. /\ SourceOf[job[j].listing] = SourceScanned(w)
        /\ ~overlapped[SourceOf[job[j].listing]] => job[j].text # Full
    BY <2>1, <2>3 DEF ScanInv, RowsInv, TodoInv
  <2> QED
    BY <1>4, <2>1, <2>3, <2>4
<1>7. NoDuplicateRows'
  <2>1. \A j \in JobId : job'[j].listing # None => job[j].listing # None /\ job'[j] = job[j]
    BY <1>3 DEF Live
  <2>2. \A j \in JobId : job[j].listing # None => job[j].listing \in Listing
    BY DEF ScanInv, TypeOK
  <2> QED
    BY <1>4, <2>1, <2>2 DEF ScanInv, RowsInv, NoDuplicateRows, Live
<1> QED
  BY <1>5, <1>6, <1>7

LEMMA RowsKept ==
  ASSUME ScanInv, overlapped' = overlapped,
         \A w \in Worker : scan'[w] = scan[w] \/ scan'[w].pc \in {"idle", "claimed", "callback"},
         \A w \in Worker : scan'[w] = scan[w] /\ scan[w].pc # "idle"
           => run'[scan[w].run].source = run[scan[w].run].source,
         \A j \in JobId : job'[j] = job[j] \/ job'[j] = NoJob
  PROVE  RowsInv'
<1>1. ReadInv' /\ TodoInv' /\ NoDuplicateRows'
  BY ReadsKept
<1>2. \A w \in Worker, s \in Source : Scanning(w, s)' => Scanning(w, s)
  BY DEF Scanning, SourceScanned
<1>3. ScannersInv'
  BY <1>2 DEF ScanInv, RowsInv, ScannersInv
<1> QED
  BY <1>1, <1>3 DEF RowsInv

\* A run is opened for s and queued.
LEMMA QueuedOne ==
  ASSUME ScanInv, NEW r \in Run, NEW s \in Source, NewRun(r, s, "queued"),
         queue' = Append(queue, r), request' \in [Admin -> Source \cup {None}],
         \A a \in Admin : request'[a] \in {request[a], None},
         UNCHANGED <<clockVars, job, scan, alerts, overlapped, faults>>
  PROVE  ScanInv'
<1>1. /\ run' \in [Run -> RunRow] /\ run'[r].source = s /\ run'[r].status = "queued"
      /\ \A q \in Run : q # r => run'[q] = run[q]
      /\ run[r].status \notin Open /\ \A w \in Worker : scan[w].run # r
  BY NewRunSet DEF ScanInv
<1>2. queue \in Seq(Run)
  BY DEF ScanInv, TypeOK
<1>3. /\ queue' \in Seq(Run) /\ Len(queue') = Len(queue) + 1
      /\ queue'[Len(queue) + 1] = r
      /\ \A i \in 1 .. Len(queue) : queue'[i] = queue[i] /\ queue[i] \in Run
  BY <1>2
<1>4. \A i \in 1 .. Len(queue') : i \in 1 .. Len(queue) \/ i = Len(queue) + 1
  BY <1>2, <1>3
<1>5. \A i \in 1 .. Len(queue) : queue[i] # r
  BY <1>1 DEF ScanInv, QueueInv, Open
<1>6. TypeOK'
  BY <1>1, <1>3 DEF ScanInv, TypeOK, clockVars
<1>7. QueueInv'
  <2>1. \A i, k \in 1 .. Len(queue') : queue'[i] = queue'[k] => i = k
    BY <1>3, <1>4, <1>5 DEF ScanInv, QueueInv
  <2>2. ASSUME NEW i \in 1 .. Len(queue')
        PROVE  /\ run'[queue'[i]].status = "queued" /\ run'[queue'[i]].source \in Source
               /\ \A w \in Worker : scan[w].run # queue'[i]
    <3>1. CASE i \in 1 .. Len(queue)
      <4>1. queue'[i] = queue[i] /\ run'[queue[i]] = run[queue[i]]
        BY <1>1, <1>3, <1>5, <3>1
      <4> QED
        BY <3>1, <4>1 DEF ScanInv, QueueInv
    <3>2. CASE i = Len(queue) + 1
      BY <1>1, <1>3, <3>2
    <3> QED
      BY <1>4, <3>1, <3>2
  <2> QED
    BY <2>1, <2>2 DEF QueueInv
<1>8. \A w \in Worker : scan[w].pc # "idle" => scan[w].run \in Run /\ run'[scan[w].run] = run[scan[w].run]
  BY <1>1 DEF ScanInv, HeldInv
<1>9. HeldInv'
  BY <1>8 DEF ScanInv, HeldInv, OneWorkerPerRun
<1>10. RowsInv'
  BY <1>8, RowsKept
<1> QED
  BY <1>6, <1>7, <1>9, <1>10 DEF ScanInv

LEMMA QueueDueKeeps ==
  ASSUME ScanInv, NEW s \in Source, NEW r \in Run, QueueDue(s, r)
  PROVE  ScanInv'
BY QueuedOne DEF QueueDue, ScanInv, TypeOK

LEMMA CommitTriggerKeeps ==
  ASSUME ScanInv, NEW a \in Admin, NEW r \in Run, CommitTrigger(a, r)
  PROVE  ScanInv'
<1>1. request[a] \in Source
  BY DEF CommitTrigger, ScanInv, HeldInv
<1>2. request \in [Admin -> Source \cup {None}]
  BY DEF ScanInv, TypeOK
<1>3. request' = [request EXCEPT ![a] = None]
  BY DEF CommitTrigger
<1>4. request' \in [Admin -> Source \cup {None}] /\ \A b \in Admin : request'[b] \in {request[b], None}
  BY <1>2, <1>3
<1> QED
  BY <1>1, <1>4, QueuedOne DEF CommitTrigger

LEMMA OpenTriggerKeeps ==
  ASSUME ScanInv, NEW a \in Admin, NEW s \in Source, OpenTrigger(a, s)
  PROVE  ScanInv'
<1>1. request \in [Admin -> Source \cup {None}]
  BY DEF ScanInv, TypeOK
<1>2. /\ request' \in [Admin -> Source \cup {None}]
      /\ \A b \in Admin : request'[b] = IF b = a THEN s ELSE request[b]
  BY <1>1 DEF OpenTrigger
<1>3. TypeOK'
  BY <1>2 DEF OpenTrigger, ScanInv, TypeOK, clockVars, tableVars
<1>4. RowsInv'
  BY RowsKept DEF OpenTrigger, clockVars, tableVars
<1>5. QueueInv'
  BY DEF OpenTrigger, ScanInv, QueueInv, tableVars
<1>6. HeldInv'
  BY <1>2 DEF OpenTrigger, ScanInv, HeldInv, OneWorkerPerRun, tableVars
<1> QED
  BY <1>3, <1>4, <1>5, <1>6 DEF ScanInv

\* Steps that touch neither runs nor requests.
LEMMA RunsUntouched ==
  ASSUME ScanInv, UNCHANGED <<run, queue, request>>,
         \A w \in Worker : \/ scan'[w] = scan[w] \/ scan'[w] = Idle
                           \/ scan[w].pc # "idle" /\ scan'[w].run = scan[w].run
  PROVE  QueueInv' /\ HeldInv'
BY RunsKept

\* The clock's and the administrators' steps that touch no table.
LEMMA CalendarKeeps ==
  ASSUME ScanInv, active' \in [Source -> BOOLEAN], due' \in [Source -> BOOLEAN],
         longPast' \subseteq Listing,
         UNCHANGED <<tableVars, scan, request, alerts, overlapped, faults>>
  PROVE  ScanInv'
<1>1. TypeOK'
  BY DEF ScanInv, TypeOK, tableVars
<1>2. QueueInv' /\ HeldInv'
  BY RunsUntouched DEF tableVars
<1>3. RowsInv'
  BY RowsKept DEF tableVars
<1> QED
  BY <1>1, <1>2, <1>3 DEF ScanInv

LEMMA ClockKeeps ==
  ASSUME ScanInv,
         \/ \E s \in Source : ToggleActive(s) \/ BecomesDue(s)
         \/ \E l \in Listing : DeadlinePasses(l)
  PROVE  ScanInv'
<1>1. CASE \E s \in Source : ToggleActive(s)
  BY <1>1, CalendarKeeps DEF ToggleActive, ScanInv, TypeOK
<1>2. CASE \E s \in Source : BecomesDue(s)
  BY <1>2, CalendarKeeps DEF BecomesDue, ScanInv, TypeOK
<1>3. CASE \E l \in Listing : DeadlinePasses(l)
  BY <1>3, CalendarKeeps DEF DeadlinePasses, ScanInv, TypeOK
<1> QED
  BY <1>1, <1>2, <1>3

\* The reaper and the clock change runs that are under way.
LEMMA AgeingKeeps ==
  ASSUME ScanInv, ReapStale \/ \E r \in Run : GetsOld(r)
  PROVE  ScanInv'
<1>1. UNCHANGED <<clockVars, queue, job, scan, request, alerts, overlapped, faults>>
  BY DEF ReapStale, GetsOld
<1>2. run' \in [Run -> RunRow]
  <2>1. run \in [Run -> RunRow]
    BY DEF ScanInv, TypeOK
  <2>2. CASE ReapStale
    <3>1. \A r \in Run : [run[r] EXCEPT !.status = "failed"] \in RunRow
      BY <2>1 DEF RunRow
    <3> QED
      BY <2>1, <2>2, <3>1 DEF ReapStale
  <2>3. CASE \E r \in Run : GetsOld(r)
    <3>1. \A r \in Run : [run[r] EXCEPT !.old = TRUE] \in RunRow
      BY <2>1 DEF RunRow
    <3>2. PICK r \in Run : run' = [run EXCEPT ![r].old = TRUE]
      BY <2>3 DEF GetsOld
    <3> QED
      BY <2>1, <3>1, <3>2
  <2> QED
    BY <2>2, <2>3
<1>3. \A r \in Run : /\ run'[r].source = run[r].source
                     /\ run'[r].status = run[r].status \/ run[r].status # "queued"
  <2>1. run \in [Run -> RunRow]
    BY DEF ScanInv, TypeOK
  <2>2. CASE ReapStale
    BY <2>1, <2>2 DEF ReapStale, RunRow
  <2>3. CASE \E r \in Run : GetsOld(r)
    <3>1. PICK r \in Run : run' = [run EXCEPT ![r].old = TRUE]
      BY <2>3 DEF GetsOld
    <3>2. \A q \in Run : run'[q] = IF q = r THEN [run[r] EXCEPT !.old = TRUE] ELSE run[q]
      BY <2>1, <3>1
    <3> QED
      BY <2>1, <3>2 DEF RunRow
  <2> QED
    BY <2>2, <2>3
<1>4. TypeOK'
  BY <1>1, <1>2 DEF ScanInv, TypeOK, clockVars
<1>5. QueueInv' /\ HeldInv'
  BY <1>1, <1>3, RunsKept
<1>6. \A w \in Worker : scan[w].pc # "idle" => run'[scan[w].run].source = run[scan[w].run].source
  BY <1>3 DEF ScanInv, HeldInv
<1>7. RowsInv'
  BY <1>1, <1>6, RowsKept
<1> QED
  BY <1>4, <1>5, <1>7 DEF ScanInv

-----------------------------------------------------------------------------
(* Beginning and ending a scan *)

\* w takes a run that nobody has.
Takes(w, r, c) ==
  /\ c.run = r
  /\ \A v \in Worker : scan[v].run # r
  /\ \A v \in Worker : scan'[v] = IF v = w THEN c ELSE scan[v]
  /\ run'[r].source \in Source
  /\ \A q \in Run : q # r => run'[q].source = run[q].source
  /\ request' = request

LEMMA TakesRun ==
  ASSUME ScanInv, NEW w \in Worker, NEW r \in Run, NEW c \in Scan, Takes(w, r, c)
  PROVE  HeldInv'
<1> USE DEF Takes
<1>1. OneWorkerPerRun'
  <2> SUFFICES ASSUME NEW u \in Worker, NEW v \in Worker,
                      scan'[u].run # None, scan'[u].run = scan'[v].run
               PROVE  u = v
    BY DEF OneWorkerPerRun
  <2>1. CASE u = w \/ v = w
    <3>1. scan'[w] = c
      OBVIOUS
    <3>2. \A x \in Worker : x # w => scan'[x].run # r
      OBVIOUS
    <3> QED
      BY <2>1, <3>1, <3>2
  <2>2. CASE u # w /\ v # w
    <3>1. scan'[u] = scan[u] /\ scan'[v] = scan[v]
      BY <2>2
    <3> QED
      BY <3>1 DEF ScanInv, HeldInv, OneWorkerPerRun
  <2> QED
    BY <2>1, <2>2
<1>2. ASSUME NEW v \in Worker, scan'[v].pc # "idle"
      PROVE  scan'[v].run \in Run /\ run'[scan'[v].run].source \in Source
  <2>1. CASE v = w
    BY <2>1
  <2>2. CASE v # w
    <3>1. scan'[v] = scan[v]
      BY <2>2
    <3>2. scan[v].run \in Run /\ run[scan[v].run].source \in Source /\ scan[v].run # r
      BY <1>2, <3>1 DEF ScanInv, HeldInv
    <3> QED
      BY <3>1, <3>2
  <2> QED
    BY <2>1, <2>2
<1> QED
  BY <1>1, <1>2 DEF ScanInv, HeldInv

LEMMA ClaimKeeps ==
  ASSUME ScanInv, NEW w \in Worker, Claim(w)
  PROVE  ScanInv'
<1> DEFINE h == Head(queue)
<1> PICK c : c = [Idle EXCEPT !.pc = "claimed", !.run = h]
  OBVIOUS
<1>1. queue \in Seq(Run) /\ queue # <<>> /\ queue' = Tail(queue)
  BY DEF Claim, ScanInv, TypeOK
<1>2. /\ h = queue[1] /\ h \in Run /\ 1 \in 1 .. Len(queue)
      /\ queue' \in Seq(Run) /\ Len(queue') = Len(queue) - 1
      /\ \A i \in 1 .. Len(queue') : queue'[i] = queue[i + 1] /\ i + 1 \in 1 .. Len(queue)
                                     /\ i + 1 # 1
  BY <1>1
<1>3. /\ run[h].source \in Source /\ \A v \in Worker : scan[v].run # h
      /\ \A i \in 1 .. Len(queue') : queue'[i] # h /\ queue'[i] \in Run
  BY <1>1, <1>2 DEF ScanInv, QueueInv
<1>4. c \in Scan /\ c.pc = "claimed" /\ c.run = h
  BY <1>2, IdleTyped DEF Scan, Idle
<1>5. /\ scan' \in [Worker -> Scan]
      /\ \A v \in Worker : scan'[v] = IF v = w THEN c ELSE scan[v]
  BY <1>4, Goes DEF Claim, ScanInv
<1>6. /\ run' \in [Run -> RunRow]
      /\ \A q \in Run : run'[q].source = run[q].source /\ (q # h => run'[q] = run[q])
  BY <1>2, StatusSet DEF Claim, ScanInv
<1> HIDE DEF h
<1>7. TypeOK'
  BY <1>2, <1>5, <1>6 DEF Claim, ScanInv, TypeOK, clockVars
<1>8. QueueInv'
  <2>1. \A i, k \in 1 .. Len(queue') : queue'[i] = queue'[k] => i = k
    <3>1. \A i, k \in 1 .. Len(queue') : queue[i + 1] = queue[k + 1] => i + 1 = k + 1
      BY <1>2 DEF ScanInv, QueueInv
    <3>2. Len(queue') \in Nat
      BY <1>2
    <3> QED
      BY <1>2, <3>1, <3>2
  <2>2. ASSUME NEW i \in 1 .. Len(queue')
        PROVE  /\ run'[queue'[i]].status = "queued" /\ run'[queue'[i]].source \in Source
               /\ \A v \in Worker : scan'[v].run # queue'[i]
    <3>1. /\ run[queue'[i]].status = "queued" /\ run[queue'[i]].source \in Source
          /\ \A v \in Worker : scan[v].run # queue'[i]
      BY <1>2 DEF ScanInv, QueueInv
    <3>2. run'[queue'[i]] = run[queue'[i]]
      BY <1>3, <1>6
    <3> QED
      BY <1>3, <1>4, <1>5, <3>1, <3>2
  <2> QED
    BY <2>1, <2>2 DEF QueueInv
<1>9. HeldInv'
  <2>1. Takes(w, h, c)
    BY <1>2, <1>3, <1>4, <1>5, <1>6 DEF Claim, Takes
  <2> QED
    BY <1>2, <1>4, <2>1, TakesRun
<1>10. \A v \in Worker : scan[v].pc # "idle" => run'[scan[v].run].source = run[scan[v].run].source
  BY <1>6 DEF ScanInv, HeldInv
<1>11. RowsInv'
  BY <1>4, <1>5, <1>10, RowsKept DEF Claim
<1> QED
  BY <1>7, <1>8, <1>9, <1>11 DEF ScanInv

LEMMA StartDirectKeeps ==
  ASSUME ScanInv, NEW w \in Worker, NEW s \in Source, NEW r \in Run, StartDirect(w, s, r)
  PROVE  ScanInv'
<1> PICK c : c = [Idle EXCEPT !.pc = "claimed", !.run = r]
  OBVIOUS
<1>1. c \in Scan /\ c.pc = "claimed" /\ c.run = r
  BY IdleTyped DEF Scan, Idle
<1>2. /\ scan' \in [Worker -> Scan]
      /\ \A v \in Worker : scan'[v] = IF v = w THEN c ELSE scan[v]
  BY <1>1, Goes DEF StartDirect, ScanInv
<1>3. /\ run' \in [Run -> RunRow] /\ run'[r].source = s
      /\ \A q \in Run : q # r => run'[q] = run[q]
      /\ run[r].status \notin Open /\ \A v \in Worker : scan[v].run # r
  BY NewRunSet DEF StartDirect, ScanInv
<1>4. \A i \in 1 .. Len(queue) : queue[i] # r /\ queue[i] \in Run
  BY <1>3 DEF ScanInv, QueueInv, Open, TypeOK
<1>5. TypeOK'
  BY <1>2, <1>3 DEF StartDirect, ScanInv, TypeOK, clockVars
<1>6. QueueInv'
  BY <1>1, <1>2, <1>3, <1>4 DEF StartDirect, ScanInv, QueueInv
<1>7. HeldInv'
  <2>1. Takes(w, r, c)
    BY <1>1, <1>2, <1>3 DEF StartDirect, Takes
  <2> QED
    BY <1>1, <2>1, TakesRun
<1>8. \A v \in Worker : scan[v].pc # "idle" => run'[scan[v].run].source = run[scan[v].run].source
  BY <1>3 DEF ScanInv, HeldInv
<1>9. RowsInv'
  BY <1>1, <1>2, <1>8, RowsKept DEF StartDirect
<1> QED
  BY <1>5, <1>6, <1>7, <1>9 DEF ScanInv

LEMMA AbortKeeps ==
  ASSUME ScanInv, NEW w \in Worker, scan' = [scan EXCEPT ![w] = Idle],
         UNCHANGED <<clockVars, tableVars, request, overlapped>>,
         alerts' \in [Listing -> 0 .. 2], faults' \in Nat
  PROVE  ScanInv'
<1>1. /\ scan' \in [Worker -> Scan]
      /\ \A v \in Worker : scan'[v] = IF v = w THEN Idle ELSE scan[v]
  BY Goes, IdleTyped DEF ScanInv
<1>2. TypeOK'
  BY <1>1 DEF ScanInv, TypeOK, clockVars, tableVars
<1>3. QueueInv' /\ HeldInv'
  BY <1>1, RunsUntouched DEF tableVars
<1>4. RowsInv'
  BY <1>1, IdleTyped, RowsKept DEF tableVars
<1> QED
  BY <1>2, <1>3, <1>4 DEF ScanInv

LEMMA CrashKeeps ==
  ASSUME ScanInv, NEW w \in Worker, Crash(w)
  PROVE  ScanInv'
<1>1. faults' \in Nat /\ alerts' \in [Listing -> 0 .. 2]
  BY DEF Crash, ScanInv, TypeOK
<1> QED
  BY <1>1, AbortKeeps DEF Crash

LEMMA CallbackRaisesKeeps ==
  ASSUME ScanInv, NEW w \in Worker, CallbackRaises(w)
  PROVE  ScanInv'
BY AbortKeeps DEF CallbackRaises, Abort, ScanInv, TypeOK

LEMMA DispatchKeeps ==
  ASSUME ScanInv, NEW w \in Worker, Dispatch(w)
  PROVE  ScanInv'
<1>1. alerts \in [Listing -> 0 .. 2]
  BY DEF ScanInv, TypeOK
<1>2. \A l \in Listing : Min({alerts[l] + 1, 2}) \in 0 .. 2
  <2> TAKE l \in Listing
  <2>1. alerts[l] + 1 \in Nat /\ alerts[l] + 1 >= 1
    BY <1>1
  <2>2. Min({alerts[l] + 1, 2}) \in {alerts[l] + 1, 2} /\ Min({alerts[l] + 1, 2}) <= 2
    BY <2>1, MinOfTwo
  <2> QED
    BY <2>1, <2>2
<1>3. alerts' \in [Listing -> 0 .. 2]
  BY <1>1, <1>2 DEF Dispatch
<1> QED
  BY <1>3, AbortKeeps DEF Dispatch, ScanInv, TypeOK

LEMMA ClosingKeeps ==
  ASSUME ScanInv, NEW w \in Worker, ScrapeFails(w) \/ Finish(w)
  PROVE  ScanInv'
<1> PICK c : c = IF ScrapeFails(w) THEN Idle ELSE [scan[w] EXCEPT !.pc = "callback"]
  OBVIOUS
<1>1. scan[w] \in Scan /\ scan[w].pc # "idle" /\ scan[w].run \in Run
  BY WorkersTyped DEF ScanInv, HeldInv, ScrapeFails, Finish
<1>2. /\ c \in Scan /\ c.pc \in {"idle", "callback"}
      /\ c = Idle \/ c.run = scan[w].run
  BY <1>1, IdleTyped DEF Scan
<1>3. scan' = [scan EXCEPT ![w] = c]
  BY DEF ScrapeFails, Finish
<1>4. /\ scan' \in [Worker -> Scan]
      /\ \A v \in Worker : scan'[v] = IF v = w THEN c ELSE scan[v]
  BY <1>2, <1>3, Goes DEF ScanInv
<1>5. /\ run' \in [Run -> RunRow]
      /\ \A q \in Run : /\ run'[q].source = run[q].source
                        /\ q # scan[w].run => run'[q] = run[q]
  BY <1>1, StatusSet DEF ScrapeFails, Finish, ScanInv
<1>6. UNCHANGED <<clockVars, queue, job, request, alerts, overlapped, faults>>
  BY DEF ScrapeFails, Finish
<1>7. TypeOK'
  BY <1>4, <1>5, <1>6 DEF ScanInv, TypeOK, clockVars
<1>8. QueueInv' /\ HeldInv'
  BY <1>1, <1>2, <1>4, <1>5, <1>6, RunsKept
<1>9. \A v \in Worker : scan[v].pc # "idle" => run'[scan[v].run].source = run[scan[v].run].source
  BY <1>5 DEF ScanInv, HeldInv
<1>10. RowsInv'
  BY <1>2, <1>4, <1>6, <1>9, RowsKept
<1> QED
  BY <1>7, <1>8, <1>10 DEF ScanInv

\* Rows are deleted.
LEMMA DeletingKeeps ==
  ASSUME ScanInv, (\E w \in Poller : ReapExpired(w)) \/ (\E j \in JobId : RemoveListing(j))
  PROVE  ScanInv'
<1>1. job \in [JobId -> [listing : Listing \cup {None}, text : Text]]
  BY DEF ScanInv, TypeOK
<1>2. NoJob \in [listing : Listing \cup {None}, text : Text]
  BY DEF NoJob, Text
<1>3. /\ job' \in [JobId -> [listing : Listing \cup {None}, text : Text]]
      /\ \A j \in JobId : job'[j] = job[j] \/ job'[j] = NoJob
  BY <1>1, <1>2 DEF ReapExpired, RemoveListing
<1>4. UNCHANGED <<clockVars, run, queue, scan, request, alerts, overlapped, faults>>
  BY DEF ReapExpired, RemoveListing
<1>5. TypeOK'
  BY <1>3, <1>4 DEF ScanInv, TypeOK, clockVars
<1>6. QueueInv' /\ HeldInv'
  BY <1>4, RunsUntouched
<1>7. RowsInv'
  BY <1>3, <1>4, RowsKept
<1> QED
  BY <1>5, <1>6, <1>7 DEF ScanInv

-----------------------------------------------------------------------------
(* A scan at work *)

\* Steps of a scan that go on with its run.
LEMMA WorkerGoes ==
  ASSUME ScanInv, NEW w \in Worker, NEW c \in Scan, scan' = [scan EXCEPT ![w] = c],
         c.run = scan[w].run, scan[w].pc # "idle", UNCHANGED <<run, queue, request>>
  PROVE  /\ QueueInv' /\ HeldInv' /\ scan' \in [Worker -> Scan]
         /\ \A v \in Worker : scan'[v] = IF v = w THEN c ELSE scan[v]
         /\ \A v \in Worker : SourceScanned(v)' = SourceScanned(v)
<1>1. /\ scan' \in [Worker -> Scan]
      /\ \A v \in Worker : scan'[v] = IF v = w THEN c ELSE scan[v]
  BY Goes DEF ScanInv
<1>2. QueueInv' /\ HeldInv'
  BY <1>1, RunsUntouched
<1>3. \A v \in Worker : SourceScanned(v)' = SourceScanned(v)
  BY <1>1 DEF SourceScanned
<1> QED
  BY <1>1, <1>2, <1>3

LEMMA StartKeeps ==
  ASSUME ScanInv, NEW w \in Worker, Start(w)
  PROVE  ScanInv'
<1> DEFINE s == SourceScanned(w)
<1> PICK c : c = [scan[w] EXCEPT !.pc = "scraping"]
  OBVIOUS
<1>1. scan[w] \in Scan /\ scan[w].pc = "claimed" /\ s \in Source
  BY WorkersTyped DEF Start, ScanInv, HeldInv, SourceScanned
<1>2. c \in Scan /\ c.run = scan[w].run /\ c.pc = "scraping" /\ scan' = [scan EXCEPT ![w] = c]
  BY <1>1 DEF Start, Scan
<1>3. UNCHANGED <<active, longPast, run, queue, job, request, alerts, faults>>
  BY DEF Start, tableVars
<1>4. /\ QueueInv' /\ HeldInv' /\ scan' \in [Worker -> Scan]
      /\ \A v \in Worker : scan'[v] = IF v = w THEN c ELSE scan[v]
      /\ \A v \in Worker : SourceScanned(v)' = SourceScanned(v)
  BY <1>1, <1>2, <1>3, WorkerGoes
<1>5. /\ overlapped' \in [Source -> BOOLEAN]
      /\ \A t \in Source : overlapped[t] => overlapped'[t]
      /\ ~overlapped'[s] => \A v \in Worker \ {w} : ~Scanning(v, s)
  <2>1. overlapped \in [Source -> BOOLEAN]
    BY DEF ScanInv, TypeOK
  <2>2. PICK b \in BOOLEAN : b = (overlapped[s] \/ \E v \in Worker \ {w} : Scanning(v, s))
    OBVIOUS
  <2>3. overlapped' = [overlapped EXCEPT ![s] = b]
    BY <2>2 DEF Start
  <2> QED
    BY <1>1, <2>1, <2>2, <2>3
<1>6. due' \in [Source -> BOOLEAN]
  BY DEF Start, ScanInv, TypeOK
<1> HIDE DEF s
<1>7. TypeOK'
  BY <1>3, <1>4, <1>5, <1>6 DEF ScanInv, TypeOK
<1>8. ReadInv' /\ TodoInv' /\ NoDuplicateRows'
  BY <1>2, <1>3, <1>4, <1>5, ReadsKept
<1>9. ScannersInv'
  <2>1. \A v \in Worker, t \in Source : v # w /\ Scanning(v, t)' => Scanning(v, t)
    BY <1>4 DEF Scanning
  <2>2. \A t \in Source : Scanning(w, t)' => t = s
    BY <1>4 DEF Scanning, s
  <2>3. ASSUME NEW t \in Source, ~overlapped'[t], NEW u \in Worker, NEW v \in Worker,
               Scanning(u, t)', Scanning(v, t)'
        PROVE  u = v
    <3>1. ~overlapped[t]
      BY <1>5, <2>3
    <3>2. CASE t = s
      BY <1>5, <2>1, <2>3, <3>2
    <3>3. CASE t # s
      <4>1. u # w /\ v # w
        BY <2>2, <2>3, <3>3
      <4>2. Scanning(u, t) /\ Scanning(v, t)
        BY <2>1, <2>3, <4>1
      <4> QED
        BY <3>1, <4>2 DEF ScanInv, RowsInv, ScannersInv
    <3> QED
      BY <3>2, <3>3
  <2> QED
    BY <2>3 DEF ScannersInv
<1> QED
  BY <1>4, <1>7, <1>8, <1>9 DEF ScanInv, RowsInv

LEMMA ReadKeeps ==
  ASSUME ScanInv, NEW w \in Worker, NEW offer \in Offers, Read(w, offer)
  PROVE  ScanInv'
<1>1. DOMAIN offer \subseteq Listing /\ \A l \in DOMAIN offer : offer[l] \in Stub
  BY DEF Offers
<1>2. PICK first \in [DOMAIN offer -> JobId \cup {None}] :
        /\ \A l \in DOMAIN offer : IF RowsOf(l) = {} THEN first[l] = None
                                   ELSE first[l] \in RowsOf(l)
        /\ scan' = [scan EXCEPT ![w].pc = "upserting",
             ![w].read = [l \in DOMAIN offer |->
                            [job |-> first[l], offer |-> offer[l],
                             seen |-> IF first[l] = None THEN 0
                                      ELSE job[first[l]].text]]]
  BY DEF Read
<1> PICK read : read = [l \in DOMAIN offer |->
                          [job |-> first[l], offer |-> offer[l],
                           seen |-> IF first[l] = None THEN 0 ELSE job[first[l]].text]]
  OBVIOUS
<1> PICK c : c = [scan[w] EXCEPT !.pc = "upserting", !.read = read]
  OBVIOUS
<1>3. scan[w] \in Scan /\ scan[w].pc = "scraping"
  BY WorkersTyped DEF Read, ScanInv
<1>4. /\ DOMAIN read = DOMAIN offer
      /\ \A l \in DOMAIN offer :
           /\ read[l].job = first[l] /\ read[l].offer = offer[l]
           /\ read[l].seen = IF first[l] = None THEN 0 ELSE job[first[l]].text
           /\ read[l] \in ReadRow
  <2>1. \A l \in DOMAIN offer : first[l] # None => job[first[l]].text \in Text
    BY DEF ScanInv, TypeOK
  <2> QED
    BY <1>1, <2>1 DEF ReadRow, Text
<1>5. read \in Reads
  <2>1. read \in [DOMAIN offer -> ReadRow]
    BY <1>4
  <2> QED
    BY <1>1, <2>1 DEF Reads
<1>6. c \in Scan /\ c.pc = "upserting" /\ c.read = read /\ c.run = scan[w].run
  BY <1>3, <1>5 DEF Scan, Reads, ReadRow
<1>7. scan' = [scan EXCEPT ![w] = c]
  BY <1>2
<1>8. UNCHANGED <<clockVars, tableVars, request, alerts, overlapped, faults>>
  BY DEF Read
<1>9. /\ QueueInv' /\ HeldInv' /\ scan' \in [Worker -> Scan]
      /\ \A v \in Worker : scan'[v] = IF v = w THEN c ELSE scan[v]
      /\ \A v \in Worker : SourceScanned(v)' = SourceScanned(v)
  BY <1>3, <1>6, <1>7, <1>8, WorkerGoes DEF tableVars
<1>10. TypeOK'
  BY <1>8, <1>9 DEF ScanInv, TypeOK, clockVars, tableVars
<1>11. ScannersInv'
  <2>1. \A v \in Worker, t \in Source : Scanning(v, t)' => Scanning(v, t)
    BY <1>3, <1>9 DEF Scanning
  <2> QED
    BY <1>8, <2>1 DEF ScanInv, RowsInv, ScannersInv
<1>12. ReadInv'
  <2>1. \A l \in DOMAIN read :
          /\ SourceOf[l] = SourceScanned(w)
          /\ read[l].job # None => job[read[l].job].listing \in {l, None}
          /\ ~overlapped[SourceOf[l]] =>
               /\ RowsOf(l) \subseteq {read[l].job}
               /\ read[l].job # None /\ Live(read[l].job) => read[l].seen = job[read[l].job].text
    <3> TAKE l \in DOMAIN read
    <3>1. SourceOf[l] = SourceScanned(w)
      BY <1>4 DEF Read
    <3>2. read[l].job # None => read[l].job \in RowsOf(l)
      BY <1>2, <1>4
    <3>3. ~overlapped[SourceOf[l]] => RowsOf(l) \subseteq {read[l].job}
      <4>1. l \in Listing /\ l # None
        BY <1>1, <1>4, ScanQueueAssumption
      <4>2. ~overlapped[SourceOf[l]] => \A i, k \in RowsOf(l) : i = k
        BY <4>1 DEF ScanInv, RowsInv, NoDuplicateRows, RowsOf, Live
      <4>3. RowsOf(l) # {} => read[l].job \in RowsOf(l)
        BY <1>2, <1>4
      <4> QED
        BY <4>2, <4>3
    <3> QED
      BY <1>4, <3>1, <3>2, <3>3 DEF RowsOf
  <2>2. \A v \in Worker : scan'[v].pc = "upserting" =>
          (v = w /\ scan'[v].read = read) \/ (scan'[v] = scan[v] /\ scan[v].pc = "upserting")
    BY <1>6, <1>9
  <2>3. job' = job /\ overlapped' = overlapped
    BY <1>8 DEF tableVars
  <2>4. ASSUME NEW v \in Worker, scan'[v].pc = "upserting"
        PROVE  \A l \in DOMAIN scan'[v].read :
                 /\ SourceOf[l] = SourceScanned(v)'
                 /\ scan'[v].read[l].job # None => job'[scan'[v].read[l].job].listing \in {l, None}
                 /\ ~overlapped'[SourceOf[l]] =>
                      /\ {j \in JobId : job'[j].listing = l} \subseteq {scan'[v].read[l].job}
                      /\ scan'[v].read[l].job # None /\ job'[scan'[v].read[l].job].listing # None
                           => scan'[v].read[l].seen = job'[scan'[v].read[l].job].text
    <3> PICK rd : rd = scan'[v].read
      OBVIOUS
    <3>1. \A l \in DOMAIN rd :
            /\ SourceOf[l] = SourceScanned(v)
            /\ rd[l].job # None => job[rd[l].job].listing \in {l, None}
            /\ ~overlapped[SourceOf[l]] =>
                 /\ RowsOf(l) \subseteq {rd[l].job}
                 /\ rd[l].job # None /\ Live(rd[l].job) => rd[l].seen = job[rd[l].job].text
      <4>1. CASE v = w /\ rd = read
        BY <2>1, <4>1
      <4>2. CASE rd = scan[v].read /\ scan[v].pc = "upserting"
        BY <4>2 DEF ScanInv, RowsInv, ReadInv
      <4> QED
        BY <2>2, <2>4, <4>1, <4>2
    <3> QED
      BY <1>9, <2>3, <3>1 DEF RowsOf, Live
  <2> QED
    BY <2>4 DEF ReadInv, RowsOf, Live
<1>13. TodoInv'
  BY <1>6, <1>8, <1>9 DEF ScanInv, RowsInv, TodoInv, Live, tableVars
<1>14. NoDuplicateRows'
  BY <1>8 DEF ScanInv, RowsInv, NoDuplicateRows, Live, tableVars
<1> QED
  BY <1>9, <1>10, <1>11, <1>12, <1>13, <1>14 DEF ScanInv, RowsInv

\* What a step may do to full descriptions.
FullStep ==
  \A j \in JobId :
    Live(j) /\ job[j].text = Full /\ job'[j].listing = job[j].listing
      /\ ~overlapped[SourceOf[job[j].listing]] => job'[j].text = Full

LEMMA BackfillKeeps ==
  ASSUME ScanInv, NEW w \in Worker, NEW j \in JobId, Backfill(w, j)
  PROVE  ScanInv' /\ FullStep
<1>1. CASE ~Live(j)
  <2>1. Abort(w)
    BY <1>1 DEF Backfill
  <2>2. ScanInv'
    BY <2>1, AbortKeeps DEF Abort, ScanInv, TypeOK
  <2> QED
    BY <2>1, <2>2 DEF Abort, tableVars, FullStep
<1>2. CASE Live(j)
  <2> PICK c : c = [scan[w] EXCEPT !.todo = @ \ {j}]
    OBVIOUS
  <2>1. /\ scan[w] \in Scan /\ scan[w].pc = "backfilling" /\ j \in scan[w].todo
        /\ scan' = [scan EXCEPT ![w] = c]
        /\ UNCHANGED <<clockVars, run, queue, request, alerts, overlapped, faults>>
    BY <1>2, WorkersTyped DEF Backfill, ScanInv
  <2>2. /\ c \in Scan /\ c.run = scan[w].run /\ c.pc = "backfilling"
        /\ c.todo \subseteq scan[w].todo /\ j \notin c.todo
    BY <2>1 DEF Scan
  <2>3. /\ QueueInv' /\ HeldInv' /\ scan' \in [Worker -> Scan]
        /\ \A v \in Worker : scan'[v] = IF v = w THEN c ELSE scan[v]
        /\ \A v \in Worker : SourceScanned(v)' = SourceScanned(v)
    BY <2>1, <2>2, WorkerGoes
  <2>4. /\ job' \in [JobId -> [listing : Listing \cup {None}, text : Text]]
        /\ \A i \in JobId : /\ job'[i].listing = job[i].listing
                            /\ job'[i] = job[i] \/ i = j
    <3>1. job \in [JobId -> [listing : Listing \cup {None}, text : Text]]
      BY DEF ScanInv, TypeOK
    <3>2. job' = job \/ \E text \in Text : job' = [job EXCEPT ![j].text = text]
      BY <1>2 DEF Backfill
    <3>3. ASSUME NEW text \in Text, job' = [job EXCEPT ![j].text = text]
          PROVE  /\ job' \in [JobId -> [listing : Listing \cup {None}, text : Text]]
                 /\ \A i \in JobId : /\ job'[i].listing = job[i].listing
                                     /\ job'[i] = job[i] \/ i = j
      <4>1. PICK row : row = [job[j] EXCEPT !.text = text]
        OBVIOUS
      <4>2. /\ row \in [listing : Listing \cup {None}, text : Text]
            /\ row.listing = job[j].listing
        BY <3>1, <4>1
      <4>3. job' = [job EXCEPT ![j] = row]
        BY <3>3, <4>1
      <4> QED
        BY <3>1, <4>2, <4>3
    <3> QED
      BY <3>1, <3>2, <3>3
  <2>5. TypeOK'
    BY <2>1, <2>3, <2>4 DEF ScanInv, TypeOK, clockVars
  <2>6. ScannersInv'
    <3>1. \A v \in Worker, t \in Source : Scanning(v, t)' => Scanning(v, t)
      BY <2>1, <2>2, <2>3 DEF Scanning
    <3> QED
      BY <2>1, <3>1 DEF ScanInv, RowsInv, ScannersInv
  <2>7. ReadInv'
    <3>1. ASSUME NEW v \in Worker, scan'[v].pc = "upserting", NEW l \in DOMAIN scan[v].read
          PROVE  /\ SourceOf[l] = SourceScanned(v)'
                 /\ scan[v].read[l].job # None
                      => job'[scan[v].read[l].job].listing \in {l, None}
                 /\ ~overlapped'[SourceOf[l]] =>
                      /\ RowsOf(l)' \subseteq {scan[v].read[l].job}
                      /\ scan[v].read[l].job # None /\ job'[scan[v].read[l].job].listing # None
                           => scan[v].read[l].seen = job'[scan[v].read[l].job].text
      <4>1. scan'[v] = scan[v] /\ v # w /\ scan[v].pc = "upserting"
        BY <2>2, <2>3, <3>1
      <4>2. /\ SourceOf[l] = SourceScanned(v)
            /\ scan[v].read[l].job # None => job[scan[v].read[l].job].listing \in {l, None}
            /\ ~overlapped[SourceOf[l]] =>
                 /\ RowsOf(l) \subseteq {scan[v].read[l].job}
                 /\ scan[v].read[l].job # None /\ Live(scan[v].read[l].job)
                      => scan[v].read[l].seen = job[scan[v].read[l].job].text
        BY <3>1, <4>1 DEF ScanInv, RowsInv, ReadInv
      <4>3. PICK id : id = scan[v].read[l].job
        OBVIOUS
      <4>4. id \in JobId \cup {None} /\ l \in Listing
        BY <4>3, WorkersTyped, ReadFields DEF ScanInv
      <4>5. RowsOf(l)' = RowsOf(l)
        BY <2>4 DEF RowsOf
      <4>6. ~overlapped[SourceOf[l]] /\ id # None /\ Live(id) => id # j
        <5> SUFFICES ASSUME ~overlapped[SourceOf[l]], id = j, Live(j) PROVE FALSE
          OBVIOUS
        <5>1. SourceOf[l] = SourceScanned(w)
          <6>1. job[j].listing = l
            BY <4>2, <4>3, <4>4, ScanQueueAssumption DEF Live
          <6> QED
            BY <2>1, <6>1 DEF ScanInv, RowsInv, TodoInv
        <5>2. Scanning(v, SourceOf[l]) /\ Scanning(w, SourceOf[l])
          BY <2>1, <4>1, <4>2, <5>1 DEF Scanning
        <5> QED
          BY <4>1, <4>4, <5>2, ScanQueueAssumption DEF ScanInv, RowsInv, ScannersInv
      <4>7. id # None => job'[id].listing = job[id].listing
        BY <2>4, <4>4
      <4>8. id # None /\ id # j => job'[id] = job[id]
        BY <2>4, <4>4
      <4> QED
        BY <2>1, <2>3, <4>2, <4>3, <4>5, <4>6, <4>7, <4>8 DEF Live
    <3>2. \A v \in Worker : scan'[v].pc = "upserting" => scan'[v] = scan[v]
      BY <2>2, <2>3
    <3> QED
      BY <3>1, <3>2 DEF ReadInv, Live
  <2>8. TodoInv'
    <3>1. \A v \in Worker : scan'[v].pc = "backfilling" =>
            scan[v].pc = "backfilling" /\ scan'[v].todo \subseteq scan[v].todo
      BY <2>1, <2>2, <2>3
    <3>2. \A v \in Worker : scan[v].todo \subseteq JobId
      BY WorkersTyped DEF ScanInv
    <3> SUFFICES ASSUME NEW v \in Worker, scan'[v].pc = "backfilling",
                        NEW i \in scan'[v].todo, job'[i].listing # None
                 PROVE  /\ SourceOf[job[i].listing] = SourceScanned(v)
                        /\ job'[i].listing = job[i].listing
                        /\ ~overlapped[SourceOf[job[i].listing]] => job'[i] = job[i]
                        /\ ~overlapped[SourceOf[job[i].listing]] => job[i].text # Full
      BY <2>1, <2>3 DEF TodoInv, Live
    <3>3. i \in JobId /\ i \in scan[v].todo /\ scan[v].pc = "backfilling"
      BY <3>1, <3>2
    <3>4. job'[i].listing = job[i].listing /\ Live(i) /\ SourceOf[job[i].listing] \in Source
      BY <2>4, <3>3, ScanQueueAssumption DEF Live, ScanInv, TypeOK
    <3>5. /\ SourceOf[job[i].listing] = SourceScanned(v)
          /\ ~overlapped[SourceOf[job[i].listing]] => job[i].text # Full
      BY <3>3, <3>4 DEF ScanInv, RowsInv, TodoInv
    <3>6. ~overlapped[SourceOf[job[i].listing]] => i # j
      <4> SUFFICES ASSUME ~overlapped[SourceOf[job[j].listing]], i = j PROVE FALSE
        OBVIOUS
      <4>1. SourceOf[job[j].listing] = SourceScanned(w)
        BY <1>2, <2>1 DEF ScanInv, RowsInv, TodoInv
      <4>2. Scanning(v, SourceOf[job[j].listing]) /\ Scanning(w, SourceOf[job[j].listing])
        BY <2>1, <3>3, <3>5, <4>1 DEF Scanning
      <4>3. v = w
        BY <3>4, <4>2 DEF ScanInv, RowsInv, ScannersInv
      <4> QED
        BY <2>1, <2>2, <2>3, <4>3
    <3> QED
      BY <2>4, <3>3, <3>4, <3>5, <3>6
  <2>9. NoDuplicateRows'
    BY <2>1, <2>4 DEF ScanInv, RowsInv, NoDuplicateRows, Live
  <2>10. FullStep
    <3>1. ~overlapped[SourceOf[job[j].listing]] => job[j].text # Full
      BY <1>2, <2>1 DEF ScanInv, RowsInv, TodoInv
    <3> QED
      BY <2>4, <3>1 DEF FullStep
  <2> QED
    BY <2>3, <2>5, <2>6, <2>7, <2>8, <2>9, <2>10 DEF ScanInv, RowsInv
<1> QED
  BY <1>1, <1>2

-----------------------------------------------------------------------------
(* The listing pass *)

RowType == [listing : Listing \cup {None}, text : Text]

\* What the commit of w's listing pass does to the rows: those it had read get
\* the fuller text, listings that had none get one row each.
Upserted(w) ==
  /\ job' \in [JobId -> RowType]
  /\ \A j \in JobId : Live(j) =>
       \/ job'[j] = job[j]
       \/ \E l \in DOMAIN scan[w].read :
            /\ scan[w].read[l].job = j
            /\ job'[j] = [listing |-> l,
                          text |-> PreferFullerText(scan[w].read[l].offer, scan[w].read[l].seen)]
  /\ \A j \in JobId : ~Live(j) =>
       \/ job'[j] = job[j]
       \/ FreeJob(j) /\ \E l \in DOMAIN scan[w].read :
                          scan[w].read[l].job = None /\ job'[j].listing = l
  /\ \A i, j \in JobId : ~Live(i) /\ ~Live(j) /\ job'[i].listing # None
                           /\ job'[i].listing = job'[j].listing => i = j

\* What it leaves to complete: rows without a full description, as long as the
\* scan is alone.
Completes(w, todo) ==
  /\ todo \subseteq JobId
  /\ \A j \in todo :
       /\ job'[j].listing \in DOMAIN scan[w].read
       /\ ~overlapped[SourceOf[job'[j].listing]] => job'[j].text # Full

LEMMA UpsertEffect ==
  ASSUME ScanInv, NEW w \in Worker, Upsert(w)
  PROVE  \/ Abort(w)
         \/ /\ Upserted(w)
            /\ \E created \in SUBSET JobId, todo \in SUBSET JobId :
                 /\ scan' = [scan EXCEPT ![w].pc = "backfilling", ![w].read = <<>>,
                               ![w].created = created, ![w].todo = todo]
                 /\ Completes(w, todo)
            /\ UNCHANGED <<clockVars, run, queue, request, alerts, overlapped, faults>>
<1> DEFINE read == scan[w].read
           ids  == {read[l].job : l \in DOMAIN read} \ {None}
           missing == {l \in DOMAIN read : read[l].job = None}
           text(l) == PreferFullerText(read[l].offer, read[l].seen)
           thin(l) == read[l].offer < Full /\ read[l].seen < Full
<1>1. scan[w].pc = "upserting"
  BY DEF Upsert
<1>2. CASE \E j \in ids : ~Live(j)
  BY <1>2 DEF Upsert
<1>3. CASE ~ \E j \in ids : ~Live(j)
  <2>1. PICK new \in [missing -> {j \in JobId : FreeJob(j)}] :
          LET row(l) == IF l \in missing THEN new[l] ELSE read[l].job
              needing == {row(l) : l \in {k \in DOMAIN read : thin(k)}}
          IN /\ \A l, k \in missing : new[l] = new[k] => l = k
             /\ job' = [j \in JobId |->
                  IF \E l \in DOMAIN read :
                       row(l) = j /\ (l \in missing \/ text(l) # read[l].seen)
                  THEN LET l == CHOOSE l \in DOMAIN read : row(l) = j
                       IN [listing |-> l, text |-> text(l)]
                  ELSE job[j]]
             /\ \E todo \in kSubset(Min({MaxBackfill, Cardinality(needing)}), needing) :
                  scan' = [scan EXCEPT ![w].pc = "backfilling", ![w].read = <<>>,
                             ![w].created = {new[l] : l \in missing},
                             ![w].todo = todo]
    BY <1>3 DEF Upsert
  <2> DEFINE row(l) == IF l \in missing THEN new[l] ELSE read[l].job
             needing == {row(l) : l \in {k \in DOMAIN read : thin(k)}}
             changed(j) == \E l \in DOMAIN read :
                             row(l) = j /\ (l \in missing \/ text(l) # read[l].seen)
             of(j) == CHOOSE l \in DOMAIN read : row(l) = j
  <2>2. \A j \in JobId :
          job'[j] = IF changed(j) THEN [listing |-> of(j), text |-> text(of(j))] ELSE job[j]
    BY <2>1
  <2>3. PICK todo \in kSubset(Min({MaxBackfill, Cardinality(needing)}), needing) :
          scan' = [scan EXCEPT ![w].pc = "backfilling", ![w].read = <<>>,
                     ![w].created = {new[l] : l \in missing}, ![w].todo = todo]
    BY <2>1
  <2>4. todo \subseteq needing
    BY <2>3 DEF kSubset
  <2>5. /\ DOMAIN read \subseteq Listing
        /\ \A l \in DOMAIN read : /\ read[l].job \in JobId \cup {None}
                                  /\ read[l].seen \in Text /\ read[l].offer \in Stub
    BY WorkersTyped, ReadFields DEF ScanInv
  <2>6. \A l \in DOMAIN read : text(l) \in Text
    BY <2>5 DEF PreferFullerText, Text, Stub
  <2>7. \A l \in missing : new[l] \in JobId /\ FreeJob(new[l]) /\ ~Live(new[l])
    BY DEF FreeJob
  <2>8. \A l \in DOMAIN read \ missing :
          /\ read[l].job # None /\ read[l].job \in JobId /\ Live(read[l].job)
          /\ job[read[l].job].listing = l
    <3>1. \A l \in DOMAIN read \ missing :
            read[l].job # None /\ read[l].job \in JobId /\ Live(read[l].job)
      BY <1>3, <2>5
    <3>2. \A l \in DOMAIN read : read[l].job # None => job[read[l].job].listing \in {l, None}
      BY <1>1 DEF ScanInv, RowsInv, ReadInv
    <3> QED
      BY <3>1, <3>2 DEF Live
  <2>9. \A l \in DOMAIN read : row(l) \in JobId /\ (l \in missing <=> ~Live(row(l)))
    BY <2>7, <2>8
  <2>10. \A j \in JobId : changed(j) => of(j) \in DOMAIN read /\ row(of(j)) = j
    OBVIOUS
  <2>own. \A l, k \in DOMAIN read : row(l) = row(k) => l = k
    <3> SUFFICES ASSUME NEW l \in DOMAIN read, NEW k \in DOMAIN read, row(l) = row(k)
                 PROVE  l = k
      OBVIOUS
    <3>1. l \in missing <=> k \in missing
      BY <2>9
    <3>2. CASE l \in missing
      BY <2>1, <3>1, <3>2
    <3>3. CASE l \notin missing
      BY <2>8, <3>1, <3>3
    <3> QED
      BY <3>2, <3>3
  <2>fair. \A l \in DOMAIN read : thin(l) => text(l) # Full /\ read[l].seen # Full
    BY <2>5 DEF PreferFullerText, Full, Text, Stub
  <2>seen. \A l \in DOMAIN read \ missing : ~overlapped[SourceOf[l]] =>
             read[l].seen = job[read[l].job].text
    BY <1>1, <2>8 DEF ScanInv, RowsInv, ReadInv
  <2> HIDE DEF row, needing, changed, of, text, thin, missing, read
  <2>set. ASSUME NEW j \in JobId, changed(j)
          PROVE  /\ job'[j] = [listing |-> of(j), text |-> text(of(j))]
                 /\ job'[j].listing = of(j) /\ job'[j].text = text(of(j))
    BY <2>2, <2>set
  <2>kept. ASSUME NEW j \in JobId, ~changed(j)
           PROVE  job'[j] = job[j]
    BY <2>2, <2>kept
  <2>11. job' \in [JobId -> RowType]
    <3>1. \A j \in JobId : job'[j] \in RowType
      <4> TAKE j \in JobId
      <4>1. CASE changed(j)
        <5>1. of(j) \in Listing /\ text(of(j)) \in Text
          BY <2>5, <2>6, <2>10, <4>1
        <5>2. [listing |-> of(j), text |-> text(of(j))] \in RowType
          BY <5>1 DEF RowType
        <5>3. job'[j] = [listing |-> of(j), text |-> text(of(j))]
          BY <2>set, <4>1
        <5> QED
          BY <5>2, <5>3
      <4>2. CASE ~changed(j)
        BY <2>kept, <4>2 DEF RowType, ScanInv, TypeOK
      <4> QED
        BY <4>1, <4>2
    <3>2. job' = [j \in JobId |-> job'[j]]
      BY <2>1
    <3> QED
      BY <3>1, <3>2
  <2>12. \A j \in JobId : Live(j) =>
           \/ job'[j] = job[j]
           \/ \E l \in DOMAIN read : /\ read[l].job = j
                                     /\ job'[j] = [listing |-> l, text |-> text(l)]
    <3> SUFFICES ASSUME NEW j \in JobId, Live(j), changed(j)
                 PROVE  /\ of(j) \in DOMAIN read /\ read[of(j)].job = j
                        /\ job'[j] = [listing |-> of(j), text |-> text(of(j))]
      BY <2>2
    <3>1. of(j) \in DOMAIN read /\ row(of(j)) = j /\ of(j) \notin missing
      BY <2>9, <2>10
    <3>2. row(of(j)) = read[of(j)].job
      BY <3>1 DEF row
    <3> QED
      BY <2>2, <3>1, <3>2
  <2>13. \A j \in JobId : ~Live(j) /\ changed(j) =>
           /\ FreeJob(j) /\ of(j) \in missing /\ job'[j].listing = of(j) /\ new[of(j)] = j
    <3> SUFFICES ASSUME NEW j \in JobId, ~Live(j), changed(j)
                 PROVE  /\ FreeJob(j) /\ of(j) \in missing
                        /\ job'[j].listing = of(j) /\ new[of(j)] = j
      OBVIOUS
    <3>1. of(j) \in DOMAIN read /\ row(of(j)) = j /\ of(j) \in missing
      BY <2>9, <2>10
    <3>2. row(of(j)) = new[of(j)]
      BY <3>1 DEF row
    <3> QED
      BY <2>7, <2>set, <3>1, <3>2
  <2>14. \A j \in JobId : ~Live(j) =>
           \/ job'[j] = job[j]
           \/ FreeJob(j) /\ \E l \in DOMAIN read : read[l].job = None /\ job'[j].listing = l
    BY <2>2, <2>13 DEF missing
  <2>15. \A i, j \in JobId : ~Live(i) /\ ~Live(j) /\ job'[i].listing # None
                               /\ job'[i].listing = job'[j].listing => i = j
    <3>1. \A j \in JobId : ~Live(j) /\ job'[j].listing # None => changed(j)
      BY <2>2 DEF Live
    <3> QED
      BY <2>13, <3>1
  <2>16. Completes(w, todo)
    <3>1. ASSUME NEW j \in todo
          PROVE  /\ j \in JobId /\ job'[j].listing \in DOMAIN read
                 /\ ~overlapped[SourceOf[job'[j].listing]] => job'[j].text # Full
      <4>1. PICK l \in DOMAIN read : j = row(l) /\ thin(l)
        BY <2>4 DEF needing
      <4>2. j \in JobId
        BY <2>9, <4>1
      <4>3. CASE changed(j)
        <5>1. of(j) = l
          BY <2>10, <2>own, <4>1, <4>2, <4>3
        <5>2. job'[j].listing = l /\ job'[j].text = text(l)
          BY <2>set, <4>2, <4>3, <5>1
        <5> QED
          BY <2>fair, <4>1, <4>2, <5>2
      <4>4. CASE ~changed(j)
        <5>1. l \notin missing
          BY <4>1, <4>4 DEF changed
        <5>2. j = read[l].job
          BY <4>1, <5>1 DEF row
        <5>3. job[j].listing = l
          BY <2>8, <5>1, <5>2
        <5>4. job'[j] = job[j]
          BY <2>kept, <4>2, <4>4
        <5>5. ~overlapped[SourceOf[l]] => job[j].text # Full
          BY <2>fair, <2>seen, <4>1, <5>1, <5>2
        <5> QED
          BY <4>2, <5>3, <5>4, <5>5
      <4> QED
        BY <4>3, <4>4
    <3> QED
      BY <3>1 DEF Completes, read
  <2>17. Upserted(w)
    BY <2>11, <2>12, <2>14, <2>15 DEF Upserted, read, text
  <2>18. {new[l] : l \in missing} \in SUBSET JobId /\ todo \in SUBSET JobId
    BY <2>7, <2>16 DEF Completes
  <2>19. UNCHANGED <<clockVars, run, queue, request, alerts, overlapped, faults>>
    BY <1>3 DEF Upsert, read
  <2> QED
    BY <2>3, <2>16, <2>17, <2>18, <2>19
<1> QED
  BY <1>2, <1>3

LEMMA UpsertKeeps ==
  ASSUME ScanInv, NEW w \in Worker, Upsert(w)
  PROVE  ScanInv' /\ FullStep
<1>1. CASE Abort(w)
  <2>1. ScanInv'
    BY <1>1, AbortKeeps DEF Abort, ScanInv, TypeOK
  <2> QED
    BY <1>1, <2>1 DEF Abort, tableVars, FullStep
<1>2. CASE ~Abort(w)
  <2>1. /\ Upserted(w)
        /\ \E created \in SUBSET JobId, todo \in SUBSET JobId :
             /\ scan' = [scan EXCEPT ![w].pc = "backfilling", ![w].read = <<>>,
                           ![w].created = created, ![w].todo = todo]
             /\ Completes(w, todo)
        /\ UNCHANGED <<clockVars, run, queue, request, alerts, overlapped, faults>>
    BY <1>2, UpsertEffect
  <2>2. PICK created \in SUBSET JobId, todo \in SUBSET JobId :
             /\ scan' = [scan EXCEPT ![w].pc = "backfilling", ![w].read = <<>>,
                           ![w].created = created, ![w].todo = todo]
             /\ Completes(w, todo)
    BY <2>1
  <2> PICK c : c = [scan[w] EXCEPT !.pc = "backfilling", !.read = <<>>,
                                   !.created = created, !.todo = todo]
    OBVIOUS
  <2>3. scan[w] \in Scan /\ scan[w].pc = "upserting"
    BY WorkersTyped DEF Upsert, ScanInv
  <2>4. /\ c \in Scan /\ c.run = scan[w].run /\ c.pc = "backfilling" /\ c.todo = todo
        /\ scan' = [scan EXCEPT ![w] = c]
    BY <2>2, <2>3, IdleTyped DEF Scan, Reads, ReadRow
  <2>5. /\ QueueInv' /\ HeldInv' /\ scan' \in [Worker -> Scan]
        /\ \A v \in Worker : scan'[v] = IF v = w THEN c ELSE scan[v]
        /\ \A v \in Worker : SourceScanned(v)' = SourceScanned(v)
    BY <2>1, <2>3, <2>4, WorkerGoes
  <2>6. TypeOK'
    BY <2>1, <2>5 DEF ScanInv, TypeOK, clockVars, Upserted, RowType
  <2>7. ScannersInv'
    <3>1. \A v \in Worker, t \in Source : Scanning(v, t)' => Scanning(v, t)
      BY <2>3, <2>4, <2>5 DEF Scanning
    <3> QED
      BY <2>1, <3>1 DEF ScanInv, RowsInv, ScannersInv
  <2>8. \A l \in DOMAIN scan[w].read :
          /\ l \in Listing /\ SourceOf[l] = SourceScanned(w) /\ SourceOf[l] \in Source
          /\ scan[w].read[l].job # None => job[scan[w].read[l].job].listing \in {l, None}
          /\ ~overlapped[SourceOf[l]] =>
               /\ RowsOf(l) \subseteq {scan[w].read[l].job}
               /\ scan[w].read[l].job # None /\ Live(scan[w].read[l].job)
                    => scan[w].read[l].seen = job[scan[w].read[l].job].text
          /\ scan[w].read[l].offer \in Stub
    <3>1. \A l \in DOMAIN scan[w].read : l \in Listing /\ scan[w].read[l].offer \in Stub
      BY WorkersTyped, ReadFields DEF ScanInv
    <3> QED
      BY <2>3, <3>1, ScanQueueAssumption DEF ScanInv, RowsInv, ReadInv
  <2>9. \A j \in JobId : Live(j) =>
          \/ job'[j] = job[j]
          \/ \E l \in DOMAIN scan[w].read :
               /\ scan[w].read[l].job = j /\ job[j].listing = l /\ job'[j].listing = l
               /\ job'[j].text = PreferFullerText(scan[w].read[l].offer, scan[w].read[l].seen)
    <3> SUFFICES ASSUME NEW j \in JobId, Live(j), job'[j] # job[j]
                 PROVE  \E l \in DOMAIN scan[w].read :
                          /\ scan[w].read[l].job = j /\ job[j].listing = l /\ job'[j].listing = l
                          /\ job'[j].text =
                               PreferFullerText(scan[w].read[l].offer, scan[w].read[l].seen)
      OBVIOUS
    <3>1. PICK l \in DOMAIN scan[w].read :
            /\ scan[w].read[l].job = j
            /\ job'[j] = [listing |-> l,
                          text |-> PreferFullerText(scan[w].read[l].offer, scan[w].read[l].seen)]
      BY <2>1 DEF Upserted
    <3>2. j # None
      BY ScanQueueAssumption
    <3>3. job[j].listing = l
      BY <2>8, <3>1, <3>2 DEF Live
    <3> QED
      BY <3>1, <3>3
  <2>10. \A j \in JobId : Live(j) => job'[j].listing = job[j].listing
    BY <2>9
  <2>11. \A j \in JobId : ~Live(j) =>
           \/ job'[j] = job[j]
           \/ FreeJob(j) /\ \E l \in DOMAIN scan[w].read :
                              scan[w].read[l].job = None /\ job'[j].listing = l
    BY <2>1 DEF Upserted
  <2>12. ASSUME NEW v \in Worker, v # w, scan[v].pc = "upserting", NEW l \in DOMAIN scan[v].read
         PROVE  /\ SourceOf[l] = SourceScanned(v)
                /\ scan[v].read[l].job # None
                     => job'[scan[v].read[l].job].listing \in {l, None}
                /\ ~overlapped[SourceOf[l]] =>
                     /\ {j \in JobId : job'[j].listing = l} \subseteq {scan[v].read[l].job}
                     /\ scan[v].read[l].job # None /\ job'[scan[v].read[l].job].listing # None
                          => scan[v].read[l].seen = job'[scan[v].read[l].job].text
    <3> PICK id : id = scan[v].read[l].job
      OBVIOUS
    <3>1. id \in JobId \cup {None} /\ l \in Listing /\ l # None /\ SourceOf[l] \in Source
      BY <2>12, WorkersTyped, ReadFields, ScanQueueAssumption DEF ScanInv
    <3>2. /\ SourceOf[l] = SourceScanned(v)
          /\ id # None => job[id].listing \in {l, None}
          /\ ~overlapped[SourceOf[l]] =>
               /\ RowsOf(l) \subseteq {id}
               /\ id # None /\ Live(id) => scan[v].read[l].seen = job[id].text
      BY <2>12 DEF ScanInv, RowsInv, ReadInv
    <3>3. ~FreeJob(id)
      BY <2>12 DEF FreeJob
    <3>4. id # None /\ ~Live(id) => job'[id] = job[id]
      BY <2>11, <3>1, <3>3
    <3>5. ~overlapped[SourceOf[l]] => l \notin DOMAIN scan[w].read
      <4> SUFFICES ASSUME ~overlapped[SourceOf[l]], l \in DOMAIN scan[w].read PROVE FALSE
        OBVIOUS
      <4>1. Scanning(v, SourceOf[l]) /\ Scanning(w, SourceOf[l])
        BY <2>3, <2>8, <2>12, <3>2 DEF Scanning
      <4> QED
        BY <2>12, <3>1, <4>1 DEF ScanInv, RowsInv, ScannersInv
    <3>6. ~overlapped[SourceOf[l]] => {j \in JobId : job'[j].listing = l} \subseteq RowsOf(l)
      BY <2>10, <2>11, <3>1, <3>5 DEF RowsOf, Live
    <3>7. ~overlapped[SourceOf[l]] /\ id # None /\ Live(id) => job'[id] = job[id]
      BY <2>9, <3>1, <3>2, <3>5 DEF Live
    <3> QED
      BY <2>10, <3>1, <3>2, <3>4, <3>6, <3>7 DEF Live
  <2>13. ReadInv'
    <3>1. overlapped' = overlapped
      BY <2>1
    <3>2. \A v \in Worker : scan'[v].pc = "upserting" =>
            v # w /\ scan'[v] = scan[v] /\ scan[v].pc = "upserting"
      BY <2>4, <2>5
    <3> QED
      BY <2>5, <2>12, <3>1, <3>2 DEF ReadInv, RowsOf, Live
  <2>14. TodoInv'
    <3> SUFFICES ASSUME NEW v \in Worker, scan'[v].pc = "backfilling",
                        NEW j \in scan'[v].todo, job'[j].listing # None
                 PROVE  /\ SourceOf[job'[j].listing] = SourceScanned(v)
                        /\ ~overlapped[SourceOf[job'[j].listing]] => job'[j].text # Full
      BY <2>1, <2>5 DEF TodoInv, Live
    <3>1. CASE v = w
      BY <2>2, <2>4, <2>5, <2>8, <3>1 DEF Completes
    <3>2. CASE v # w
      <4>1. scan'[v] = scan[v] /\ j \in JobId
        BY <2>5, <3>2, WorkersTyped DEF ScanInv
      <4>2. ~FreeJob(j)
        BY <4>1 DEF FreeJob
      <4>3. Live(j) /\ job'[j].listing = job[j].listing
        BY <2>10, <2>11, <4>1, <4>2 DEF Live
      <4>4. /\ SourceOf[job[j].listing] = SourceScanned(v) /\ scan[v].pc = "backfilling"
            /\ ~overlapped[SourceOf[job[j].listing]] => job[j].text # Full
        BY <3>2, <4>1, <4>3 DEF ScanInv, RowsInv, TodoInv
      <4>5. ~overlapped[SourceOf[job[j].listing]] => job'[j] = job[j]
        <5> SUFFICES ASSUME ~overlapped[SourceOf[job[j].listing]], job'[j] # job[j] PROVE FALSE
          OBVIOUS
        <5>1. job[j].listing \in DOMAIN scan[w].read
          BY <2>9, <4>1, <4>3
        <5>2. /\ Scanning(v, SourceOf[job[j].listing]) /\ Scanning(w, SourceOf[job[j].listing])
              /\ SourceOf[job[j].listing] \in Source
          BY <2>3, <2>8, <4>4, <5>1 DEF Scanning
        <5> QED
          BY <3>2, <5>2 DEF ScanInv, RowsInv, ScannersInv
      <4> QED
        BY <4>3, <4>4, <4>5
    <3> QED
      BY <3>1, <3>2
  <2>15. NoDuplicateRows'
    <3> SUFFICES ASSUME NEW i \in JobId, NEW j \in JobId, job'[i].listing # None,
                        job'[i].listing = job'[j].listing,
                        ~overlapped[SourceOf[job'[i].listing]]
                 PROVE  i = j
      BY <2>1 DEF NoDuplicateRows, Live
    <3>1. CASE Live(i) /\ Live(j)
      BY <2>10, <3>1 DEF ScanInv, RowsInv, NoDuplicateRows
    <3>2. CASE ~Live(i) /\ ~Live(j)
      BY <2>1, <3>2 DEF Upserted
    <3>3. ASSUME NEW a \in {i, j}, NEW b \in {i, j}, Live(a), ~Live(b)
          PROVE  FALSE
      <4>1. PICK l \in DOMAIN scan[w].read : scan[w].read[l].job = None /\ job'[b].listing = l
        BY <2>11, <3>3 DEF Live
      <4>2. job[a].listing = l
        BY <2>10, <3>3, <4>1
      <4>3. a \in RowsOf(l) /\ ~overlapped[SourceOf[l]]
        BY <3>3, <4>1, <4>2 DEF RowsOf
      <4> QED
        BY <2>8, <4>1, <4>3, ScanQueueAssumption DEF RowsOf
    <3> QED
      BY <3>1, <3>2, <3>3
  <2>16. FullStep
    <3> SUFFICES ASSUME NEW j \in JobId, Live(j), job[j].text = Full,
                        ~overlapped[SourceOf[job[j].listing]], job'[j] # job[j]
                 PROVE  job'[j].text = Full
      BY DEF FullStep
    <3>1. PICK l \in DOMAIN scan[w].read :
            /\ scan[w].read[l].job = j /\ job[j].listing = l
            /\ job'[j].text = PreferFullerText(scan[w].read[l].offer, scan[w].read[l].seen)
      BY <2>9
    <3>2. scan[w].read[l].seen = Full /\ scan[w].read[l].offer \in Stub
      BY <2>8, <3>1, ScanQueueAssumption
    <3> QED
      BY <3>1, <3>2 DEF PreferFullerText, Full, Stub
  <2> QED
    BY <2>5, <2>6, <2>7, <2>13, <2>14, <2>15, <2>16 DEF ScanInv, RowsInv
<1> QED
  BY <1>1, <1>2

-----------------------------------------------------------------------------
(* The theorems *)

LEMMA InitHolds ==
  ASSUME Init
  PROVE  ScanInv
<1>1. /\ NoRun \in RunRow /\ NoJob \in [listing : Listing \cup {None}, text : Text]
      /\ NoJob.listing = None /\ <<>> \in Seq(Run) /\ Len(<<>>) = 0
  BY DEF NoRun, RunRow, NoJob, Text
<1>2. TypeOK
  BY <1>1, IdleTyped DEF Init, TypeOK
<1>3. QueueInv
  BY <1>1 DEF Init, QueueInv
<1>4. \A w \in Worker : scan[w] = Idle
  BY DEF Init
<1>5. HeldInv
  BY <1>4, IdleTyped DEF Init, HeldInv, OneWorkerPerRun
<1>6. ScannersInv /\ ReadInv /\ TodoInv
  BY <1>4, IdleTyped DEF ScannersInv, Scanning, ReadInv, TodoInv
<1>7. NoDuplicateRows
  BY <1>1 DEF Init, NoDuplicateRows, Live
<1> QED
  BY <1>2, <1>3, <1>5, <1>6, <1>7 DEF ScanInv, RowsInv

\* Steps that change no row but by deleting it leave full descriptions alone.
LEMMA DeletingIsFull ==
  ASSUME \A j \in JobId : job'[j] = job[j] \/ job'[j] = NoJob
  PROVE  FullStep
BY DEF FullStep, NoJob, Live

LEMMA ScanStepKeeps ==
  ASSUME ScanInv, NEW w \in Worker, ScanStep(w)
  PROVE  ScanInv' /\ FullStep
<1>1. CASE Start(w)
  BY <1>1, StartKeeps, DeletingIsFull DEF Start, tableVars
<1>2. CASE ScrapeFails(w) \/ Finish(w)
  BY <1>2, ClosingKeeps, DeletingIsFull DEF ScrapeFails, Finish
<1>3. CASE Upsert(w)
  BY <1>3, UpsertKeeps
<1>4. CASE \E offer \in Offers : Read(w, offer)
  BY <1>4, ReadKeeps, DeletingIsFull DEF Read, tableVars
<1>5. CASE \E j \in JobId : Backfill(w, j)
  BY <1>5, BackfillKeeps
<1> QED
  BY <1>1, <1>2, <1>3, <1>4, <1>5 DEF ScanStep

LEMMA NextKeeps ==
  ASSUME ScanInv, Next
  PROVE  ScanInv' /\ FullStep
<1>1. CASE QueueStep
  <2>1. job' = job
    BY <1>1 DEF QueueStep, QueueDue, OpenTrigger, CommitTrigger, ToggleActive, ReapStale,
               tableVars
  <2>2. ScanInv'
    BY <1>1, QueueDueKeeps, OpenTriggerKeeps, CommitTriggerKeeps, ClockKeeps, AgeingKeeps
       DEF QueueStep
  <2> QED
    BY <2>1, <2>2, DeletingIsFull
<1>2. CASE TimeStep
  <2>1. job' = job
    BY <1>2 DEF TimeStep, GetsOld, BecomesDue, DeadlinePasses, tableVars
  <2> QED
    BY <1>2, <2>1, ClockKeeps, AgeingKeeps, DeletingIsFull DEF TimeStep
<1>3. ASSUME NEW w \in Poller, PollerStep(w)
      PROVE  ScanInv' /\ FullStep
  <2>1. w \in Worker
    BY DEF Worker
  <2>2. CASE Claim(w)
    BY <2>1, <2>2, ClaimKeeps, DeletingIsFull DEF Claim
  <2>3. CASE ScanStep(w)
    BY <2>1, <2>3, ScanStepKeeps
  <2>4. CASE CallbackRaises(w)
    BY <2>1, <2>4, CallbackRaisesKeeps, DeletingIsFull DEF CallbackRaises, Abort, tableVars
  <2> QED
    BY <1>3, <2>2, <2>3, <2>4 DEF PollerStep
<1>4. ASSUME NEW w \in Cli, CliStep(w) \/ \E s \in Source, r \in Run : StartDirect(w, s, r)
      PROVE  ScanInv' /\ FullStep
  <2>1. w \in Worker
    BY DEF Worker
  <2>2. CASE ScanStep(w)
    BY <2>1, <2>2, ScanStepKeeps
  <2>3. CASE Dispatch(w)
    BY <2>1, <2>3, DispatchKeeps, DeletingIsFull DEF Dispatch, tableVars
  <2>4. CASE \E s \in Source, r \in Run : StartDirect(w, s, r)
    BY <2>1, <2>4, StartDirectKeeps, DeletingIsFull DEF StartDirect
  <2> QED
    BY <1>4, <2>2, <2>3, <2>4 DEF CliStep
<1>5. CASE \E w \in Worker : Crash(w)
  BY <1>5, CrashKeeps, DeletingIsFull DEF Crash, tableVars
<1>6. CASE (\E w \in Poller : ReapExpired(w)) \/ (\E j \in JobId : RemoveListing(j))
  <2>1. \A j \in JobId : job'[j] = job[j] \/ job'[j] = NoJob
    BY <1>6 DEF ReapExpired, RemoveListing, ScanInv, TypeOK
  <2> QED
    BY <1>6, <2>1, DeletingKeeps, DeletingIsFull
<1> QED
  BY <1>1, <1>2, <1>3, <1>4, <1>5, <1>6 DEF Next

\* Every behaviour keeps the inductive invariant.
THEOREM ScanInvariant == Spec => []ScanInv
<1>1. ASSUME ScanInv, UNCHANGED vars
      PROVE  ScanInv'
  <2>1. TypeOK'
    BY <1>1 DEF ScanInv, TypeOK, vars
  <2>2. QueueInv' /\ HeldInv'
    BY <1>1, RunsUntouched DEF vars
  <2>3. RowsInv'
    BY <1>1, RowsKept DEF vars
  <2> QED
    BY <2>1, <2>2, <2>3 DEF ScanInv
<1>2. ScanInv /\ [Next]_vars => ScanInv'
  BY <1>1, NextKeeps
<1> QED
  BY <1>2, InitHolds, PTL DEF Spec

\* The scanner's tables and its processes' variables keep their types.
THEOREM ScanTypes == Spec => []TypeOK
<1>1. ScanInv => TypeOK
  BY DEF ScanInv
<1> QED
  BY <1>1, ScanInvariant, PTL

\* claim_next_due_scan_run: however many workers poll, and however many runs
\* the reaper closes under a worker, one worker executes a run.
THEOREM RunsHaveOneWorker == Spec => []OneWorkerPerRun
<1>1. ScanInv => OneWorkerPerRun
  BY DEF ScanInv, HeldInv
<1> QED
  BY <1>1, ScanInvariant, PTL

\* run_scan_for_source looks rows up by external_id without a constraint: as
\* long as a source's scans do not overlap, no listing gets two rows.
THEOREM ListingsHaveOneRow == Spec => []NoDuplicateRows
<1>1. ScanInv => NoDuplicateRows
  BY DEF ScanInv, RowsInv
<1> QED
  BY <1>1, ScanInvariant, PTL

\* _prefer_fuller_text and the backfill: a full description stays full while
\* the row is there and the source's scans do not overlap.
THEOREM FullTextsStay == Spec => FullTextKept
<1>1. ScanInv /\ [Next]_vars => [FullStep]_vars
  BY NextKeeps
<1>2. Spec => [][FullStep]_vars
  BY <1>1, ScanInvariant, PTL DEF Spec
<1> QED
  BY <1>2 DEF FullTextKept, FullStep

-----------------------------------------------------------------------------
(* Runs do not pile up *)

Queued(s) == {r \in Run : run[r].source = s /\ run[r].status = "queued"}
Asked(s) == {a \in Admin : request[a] = s}
Pile(s) == Cardinality(Queued(s)) + Cardinality(Asked(s))

Finite == IsFiniteSet(Run) /\ IsFiniteSet(Admin)

LEMMA PileIsNat ==
  ASSUME Finite, NEW s
  PROVE  /\ IsFiniteSet(Queued(s)) /\ IsFiniteSet(Asked(s))
         /\ Cardinality(Queued(s)) \in Nat /\ Cardinality(Asked(s)) \in Nat
         /\ Cardinality(Admin) \in Nat
         /\ Cardinality(Asked(s)) <= Cardinality(Admin)
<1>1. Queued(s) \in SUBSET Run /\ Asked(s) \in SUBSET Admin
  BY DEF Queued, Asked
<1>2. IsFiniteSet(Queued(s)) /\ IsFiniteSet(Asked(s))
  BY <1>1, FS_Subset DEF Finite
<1> QED
  BY <1>1, <1>2, FS_Subset, FS_CardinalityType DEF Finite

\* A step that queues nothing and accepts no request.
LEMMA PileShrinks ==
  ASSUME Finite, NEW s, Pile(s) <= 1 + Cardinality(Admin),
         Queued(s)' \subseteq Queued(s), Asked(s)' = Asked(s)
  PROVE  Pile(s)' <= 1 + Cardinality(Admin)
<1>1. Cardinality(Queued(s)') \in Nat /\ Cardinality(Queued(s)') <= Cardinality(Queued(s))
  BY PileIsNat, FS_Subset, FS_CardinalityType
<1> QED
  BY <1>1, PileIsNat DEF Pile

\* A due source, or an administrator, found nothing open: at most one more than
\* the other requests that found nothing either.
LEMMA PileOfOne ==
  ASSUME Finite, Finite', NEW s, \A r, q \in Queued(s)' : r = q
  PROVE  Pile(s)' <= 1 + Cardinality(Admin)
<1>1. Cardinality(Queued(s)') <= 1
  <2>1. CASE Queued(s)' = {}
    BY <2>1, FS_EmptySet
  <2>2. CASE Queued(s)' # {}
    <3>1. PICK r : Queued(s)' = {r}
      BY <2>2
    <3>2. Cardinality({r}) = 1
      BY FS_Singleton
    <3> QED
      BY <3>1, <3>2
  <2> QED
    BY <2>1, <2>2
<1>2. Cardinality(Queued(s)') \in Nat /\ Cardinality(Asked(s)') \in Nat
      /\ Cardinality(Asked(s)') <= Cardinality(Admin) /\ Cardinality(Admin) \in Nat
  <2>1. Queued(s)' \in SUBSET Run /\ Asked(s)' \in SUBSET Admin
    BY DEF Queued, Asked
  <2> QED
    BY <2>1, FS_Subset, FS_CardinalityType DEF Finite
<1> QED
  BY <1>1, <1>2 DEF Pile

LEMMA QueueDuePiles ==
  ASSUME ScanInv, Finite, NoPile, NEW s \in Source, NEW r \in Run, QueueDue(s, r)
  PROVE  NoPile'
<1>1. /\ run'[r].source = s /\ request' = request
      /\ \A q \in Run : q # r => run'[q] = run[q]
  BY NewRunSet DEF QueueDue, ScanInv
<1>2. \A q \in Run : ~(run[q].source = s /\ run[q].status = "queued")
  BY DEF QueueDue, OpenRuns, Open
<1>3. \A p, q \in Queued(s)' : p = q
  BY <1>1, <1>2 DEF Queued
<1>4. ASSUME NEW t \in Source, t # s
      PROVE  Pile(t)' <= 1 + Cardinality(Admin)
  <2>1. Queued(t)' \subseteq Queued(t) /\ Asked(t)' = Asked(t)
    BY <1>1, <1>4 DEF Queued, Asked
  <2> QED
    BY <2>1, PileShrinks DEF NoPile, Pile, Queued, Asked
<1> QED
  BY <1>3, <1>4, PileOfOne DEF NoPile, Pile, Queued, Asked, Finite

LEMMA OpenTriggerPiles ==
  ASSUME ScanInv, Finite, NoPile, NEW a \in Admin, NEW s \in Source, OpenTrigger(a, s)
  PROVE  NoPile'
<1>1. run' = run /\ \A b \in Admin : b # a => request'[b] = request[b]
  BY DEF OpenTrigger, tableVars, ScanInv, TypeOK
<1>2. request[a] = None /\ request'[a] = s
  BY DEF OpenTrigger, ScanInv, TypeOK
<1>3. \A p, q \in Queued(s)' : p = q
  BY <1>1 DEF Queued, OpenTrigger, OpenRuns, Open
<1>4. ASSUME NEW t \in Source, t # s
      PROVE  Pile(t)' <= 1 + Cardinality(Admin)
  <2>1. Queued(t)' \subseteq Queued(t) /\ Asked(t)' = Asked(t)
    BY <1>1, <1>2, <1>4, ScanQueueAssumption DEF Queued, Asked
  <2> QED
    BY <2>1, PileShrinks DEF NoPile, Pile, Queued, Asked
<1> QED
  BY <1>3, <1>4, PileOfOne DEF NoPile, Pile, Queued, Asked, Finite

\* The request becomes a run.
LEMMA CommitTriggerPiles ==
  ASSUME ScanInv, Finite, NoPile, NEW a \in Admin, NEW r \in Run, CommitTrigger(a, r)
  PROVE  NoPile'
<1>0. PICK s : s = request[a]
  OBVIOUS
<1>1. s \in Source /\ s # None
  BY <1>0 DEF CommitTrigger, ScanInv, HeldInv
<1>2. /\ run'[r].source = s /\ run'[r].status = "queued" /\ run[r].status \notin Open
      /\ \A q \in Run : q # r => run'[q] = run[q]
  BY <1>0, <1>1, NewRunSet DEF CommitTrigger, ScanInv
<1>3. request'[a] = None /\ \A b \in Admin : b # a => request'[b] = request[b]
  BY DEF CommitTrigger, ScanInv, TypeOK
<1>4. Pile(s)' <= 1 + Cardinality(Admin)
  <2>1. Queued(s)' = Queued(s) \cup {r} /\ r \notin Queued(s)
    BY <1>2 DEF Queued, Open
  <2>2. Asked(s)' = Asked(s) \ {a} /\ a \in Asked(s)
    BY <1>0, <1>1, <1>3 DEF Asked
  <2>3. Pile(s) <= 1 + Cardinality(Admin)
    BY <1>1 DEF NoPile, Pile, Queued, Asked
  <2>4. Cardinality(Queued(s)') = Cardinality(Queued(s)) + 1
    BY <2>1, PileIsNat, FS_AddElement
  <2>5. Cardinality(Asked(s)') = Cardinality(Asked(s)) - 1
    BY <2>2, PileIsNat, FS_RemoveElement
  <2> QED
    BY <2>3, <2>4, <2>5, PileIsNat DEF Pile
<1>5. ASSUME NEW t \in Source, t # s
      PROVE  Pile(t)' <= 1 + Cardinality(Admin)
  <2>1. Queued(t)' \subseteq Queued(t) /\ Asked(t)' = Asked(t)
    BY <1>0, <1>1, <1>2, <1>3, <1>5, ScanQueueAssumption DEF Queued, Asked
  <2> QED
    BY <2>1, PileShrinks DEF NoPile, Pile, Queued, Asked
<1> QED
  BY <1>4, <1>5 DEF NoPile, Pile, Queued, Asked

\* Nothing else queues a run.
NothingQueued ==
  /\ request' = request
  /\ \A r \in Run : run'[r].status = "queued" => run'[r] = run[r]

LEMMA OthersPile ==
  ASSUME Finite, NoPile, NothingQueued
  PROVE  NoPile'
<1>1. ASSUME NEW s \in Source
      PROVE  Pile(s)' <= 1 + Cardinality(Admin)
  <2>1. Queued(s)' \subseteq Queued(s) /\ Asked(s)' = Asked(s)
    BY DEF Queued, Asked, NothingQueued
  <2> QED
    BY <2>1, PileShrinks DEF NoPile, Pile, Queued, Asked
<1> QED
  BY <1>1 DEF NoPile, Pile, Queued, Asked

\* A run that is marked is not marked queued.
LEMMA MarkingQueuesNothing ==
  ASSUME ScanInv, NEW r, NEW st \in {"success", "failed", "running"}, request' = request,
         run' = [run EXCEPT ![r].status = st]
  PROVE  NothingQueued
<1>1. run \in [Run -> RunRow]
  BY DEF ScanInv, TypeOK
<1>2. \A q \in Run : q # r => run'[q] = run[q]
  BY <1>1
<1>3. ASSUME r \in Run
      PROVE  run'[r].status = st
  BY <1>1, <1>3, RunsTyped DEF ScanInv, RunRow
<1> QED
  BY <1>2, <1>3 DEF NothingQueued

LEMMA ScanStepQueuesNothing ==
  ASSUME ScanInv, NEW w \in Worker, ScanStep(w)
  PROVE  NothingQueued
<1>1. CASE ScrapeFails(w) \/ Finish(w)
  BY <1>1, MarkingQueuesNothing DEF ScrapeFails, Finish
<1>2. CASE Start(w) \/ \E offer \in Offers : Read(w, offer)
  BY <1>2 DEF Start, Read, tableVars, NothingQueued
<1>4. CASE Upsert(w)
  <2>1. request' = request /\ run' = run
    BY <1>4, Zenon DEF Upsert, Abort, tableVars
  <2> QED
    BY <2>1 DEF NothingQueued
<1>3. CASE \E j \in JobId : Backfill(w, j)
  BY <1>3 DEF Backfill, Abort, tableVars, NothingQueued
<1> QED
  BY <1>1, <1>2, <1>3, <1>4 DEF ScanStep

LEMMA NextPiles ==
  ASSUME ScanInv, Finite, NoPile, Next
  PROVE  NoPile'
<1>1. CASE \E s \in Source, r \in Run : QueueDue(s, r)
  BY <1>1, QueueDuePiles
<1>2. CASE \E a \in Admin : \E s \in Source : OpenTrigger(a, s)
  BY <1>2, OpenTriggerPiles
<1>3. CASE \E a \in Admin : \E r \in Run : CommitTrigger(a, r)
  BY <1>3, CommitTriggerPiles
<1>4. CASE (\E s \in Source : ToggleActive(s)) \/ ReapStale
  <2>1. NothingQueued
    BY <1>4 DEF ToggleActive, ReapStale, tableVars, NothingQueued, ScanInv, TypeOK, RunRow
  <2> QED
    BY <2>1, OthersPile
<1>5. CASE TimeStep
  <2>1. ASSUME NEW r \in Run, GetsOld(r)
        PROVE  NothingQueued
    <3>1. run \in [Run -> RunRow] /\ run' = [run EXCEPT ![r].old = TRUE] /\ request' = request
      BY <2>1 DEF GetsOld, ScanInv, TypeOK
    <3>2. run'[r].status = "running"
      BY <2>1, <3>1 DEF GetsOld, RunRow
    <3> QED
      BY <3>1, <3>2 DEF NothingQueued
  <2>2. NothingQueued
    BY <1>5, <2>1 DEF TimeStep, BecomesDue, DeadlinePasses, tableVars, NothingQueued
  <2> QED
    BY <2>2, OthersPile
<1>6. ASSUME NEW w \in Worker, Claim(w) \/ ScanStep(w)
      PROVE  NoPile'
  <2>1. NothingQueued
    BY <1>6, MarkingQueuesNothing, ScanStepQueuesNothing DEF Claim
  <2> QED
    BY <2>1, OthersPile
<1>7. ASSUME NEW w \in Worker, \E s \in Source, r \in Run : StartDirect(w, s, r)
      PROVE  NoPile'
  <2>1. PICK s \in Source, r \in Run : StartDirect(w, s, r)
    BY <1>7
  <2>2. NothingQueued
    BY <2>1, NewRunSet DEF StartDirect, NothingQueued, ScanInv
  <2> QED
    BY <2>2, OthersPile
<1>8. CASE \E w \in Worker : CallbackRaises(w) \/ Dispatch(w) \/ ReapExpired(w) \/ Crash(w)
  BY <1>8, OthersPile DEF CallbackRaises, Abort, Dispatch, ReapExpired, Crash, tableVars,
     NothingQueued
<1>9. CASE \E j \in JobId : RemoveListing(j)
  BY <1>9, OthersPile DEF RemoveListing, NothingQueued
<1> QED
  BY <1>1, <1>2, <1>3, <1>4, <1>5, <1>6, <1>7, <1>8, <1>9
     DEF Next, QueueStep, PollerStep, CliStep, Worker

\* NOT EXISTS and already_pending are checked before the inserts that rely on
\* them: with finitely many administrators and rows, at most one run more than
\* there are administrators is queued for a source.
THEOREM RunsDoNotPile ==
  ASSUME IsFiniteSet(Run), IsFiniteSet(Admin)
  PROVE  Spec => []NoPile
<1>1. Finite
  BY DEF Finite
<1>2. Init => NoPile
  <2>1. SUFFICES ASSUME Init, NEW s \in Source
                 PROVE  Pile(s) <= 1 + Cardinality(Admin)
    BY DEF NoPile, Pile, Queued, Asked
  <2>2. Queued(s) = {} /\ Asked(s) = {}
    BY <2>1, ScanQueueAssumption DEF Init, NoRun, Queued, Asked
  <2> QED
    BY <1>1, <2>2, FS_EmptySet, PileIsNat DEF Pile
<1>3. ASSUME NoPile, UNCHANGED vars
      PROVE  NoPile'
  BY <1>1, <1>3, OthersPile DEF vars, NothingQueued
<1>4. ScanInv /\ NoPile /\ [Next]_vars => NoPile'
  BY <1>1, <1>3, NextPiles
<1> QED
  BY <1>2, <1>4, ScanInvariant, PTL DEF Spec
=============================================================================
