------------------------ MODULE PendingApplications ------------------------
(***************************************************************************)
(* The mobile app's queue of applications made without a connection        *)
(* (lib/services/pending_applications.dart) and the screens that use it,   *)
(* composed with the server of Applications.                               *)
(*                                                                         *)
(* Dart runs one callback at a time: an action is what happens between two *)
(* awaits that wait for something outside (network, files, secure          *)
(* storage).  The queue is one value in SharedPreferences, kept in memory: *)
(* reading, changing and writing it is one action, except in enqueue with  *)
(* nobody logged in, where getUserId reads secure storage in between.      *)
(* Phones are shared: another worker may log in at any time.               *)
(***************************************************************************)
EXTENDS Applications, Sequences

CONSTANTS
  Sync,        \* the client that runs trySyncAll; the others are screens
  ScreenUser,  \* bound: workers who apply on a screen
  MaxEntry     \* bound: entries ever queued

Screen == Client \ {Sync}

ASSUME PendingApplicationsAssumption ==
  Sync \in Client /\ ScreenUser \subseteq User /\ MaxEntry \in Nat

VARIABLES
  session,     \* ApiClient's cached user id and token
  queue,       \* yc_pending_applications
  copies,      \* ids of entries whose files are in the app's own directory
  task,        \* what each client is doing
  entries,     \* entries ever queued; ids are 1 .. entries
  overlapped   \* history: workers for whom the app was at work when another
               \* one logged in

phoneVars == <<session, queue, copies, task, entries, overlapped>>
vars == <<serverVars, phoneVars>>

Id == 1 .. MaxEntry

\* by is history: the worker who attached the files.
Entry == [id : Id, owner : User \cup {None}, by : User, job : Job,
          status : {"pending", "failed"}]

\* Sync:   idle -> loop <-> waiting
\* screen: idle -> submitting -> copying -> appending -> idle, with
\*         appending -> writing when nobody is logged in;
\*         idle -> loop <-> waiting (Retry)
Task ==
  [pc : {"idle", "loop", "waiting", "submitting", "copying", "appending",
         "writing"},
   todo : Seq(Entry),               \* entries still to be submitted
   by : User \cup {None}, job : Job \cup {None}, id : Id \cup {0},
   read : Seq(Entry)]               \* enqueue's list while it waits

Resting == [pc |-> "idle", todo |-> <<>>, by |-> None, job |-> None, id |-> 0,
            read |-> <<>>]
Submission(u, j) == [Resting EXCEPT !.pc = "submitting", !.by = u, !.job = j]
Round(todo) == [Resting EXCEPT !.pc = "loop", !.todo = todo]

TypeOK ==
  /\ ServerTypeOK
  /\ session \in User \cup {None}
  /\ queue \in Seq(Entry)
  /\ copies \subseteq Id
  /\ task \in [Client -> Task]
  /\ entries \in 0 .. MaxEntry
  /\ overlapped \subseteq User

Init ==
  /\ ServerInit
  /\ session \in ScreenUser
  /\ queue = <<>>
  /\ copies = {}
  /\ task = [c \in Client |-> Resting]
  /\ entries = 0
  /\ overlapped = {}

-----------------------------------------------------------------------------
\* Dart's where: the entries of a list at these positions, in their order.
Where(list, positions) ==
  LET taken[n \in 0 .. Len(list)] ==
        IF n = 0 THEN <<>>
        ELSE IF n \in positions THEN Append(taken[n - 1], list[n]) ELSE taken[n - 1]
  IN  taken[Len(list)]

\* Mutant: the queue of all accounts.
OwnEntries_All == queue

\* loadForCurrentUser
OwnEntries ==
  Where(queue, {i \in DOMAIN queue : session # None /\ queue[i].owner = session})
Current(c) == Head(task[c].todo)

Without(id) == Where(queue, {i \in DOMAIN queue : queue[i].id # id})
Marked(id, status) ==
  [i \in DOMAIN queue |-> IF queue[i].id = id
                          THEN [queue[i] EXCEPT !.status = status] ELSE queue[i]]

Rest(c) == task' = [task EXCEPT ![c] = Resting]

\* _removeAndCleanup
RemoveAndCleanup(id) ==
  /\ queue' = Without(id)
  /\ copies' = copies \ {id}

\* _updateStatus; an entry that is gone stays gone
UpdateStatus(id, status) ==
  /\ queue' = Marked(id, status)
  /\ UNCHANGED copies

\* The request reaches the server with the token of u.
Send(c, u, j, by) ==
  \/ u # None /\ \E r \in Request : Open(r, "mobile", u, j, by, c)
  \/ u # None /\ TurnAway(u, j, c)
  \/ Unauthorized(c)

-----------------------------------------------------------------------------
(* A screen submits an application (job_screen.dart) *)

Submit(c, j) ==
  /\ task[c].pc = "idle"
  /\ session \in ScreenUser
  /\ Send(c, session, j, session)
  /\ task' = [task EXCEPT ![c] = Submission(session, j)]
  /\ UNCHANGED <<session, queue, copies, entries, overlapped>>

SubmitAnswered(c) ==
  /\ task[c].pc = "submitting"
  /\ reply[c] # "none"
  /\ ReadReply(c)
  /\ Rest(c)
  /\ UNCHANGED <<session, queue, copies, entries, overlapped>>

\* TimeoutException or a network error: queueOffline.  Without a CV there is
\* nothing it can queue.
SubmitLost(c) ==
  /\ task[c].pc = "submitting"
  /\ reply[c] = "none"
  /\ GiveUp(c)
  /\ IF CvName[task[c].job] = None THEN Rest(c)
     ELSE task' = [task EXCEPT ![c].pc = "copying"]
  /\ UNCHANGED <<session, queue, copies, entries, overlapped>>

-----------------------------------------------------------------------------
(* enqueue *)

CopyFiles(c) ==
  /\ task[c].pc = "copying"
  /\ entries < MaxEntry
  /\ entries' = entries + 1
  /\ copies' = copies \cup {entries'}
  /\ task' = [task EXCEPT ![c].pc = "appending", ![c].id = entries']
  /\ UNCHANGED <<serverVars, session, queue, overlapped>>

\* Mutant: a status no screen knows.
NewEntry_Queued(c, owner) ==
  [id |-> task[c].id, owner |-> owner, by |-> task[c].by, job |-> task[c].job,
   status |-> "queued"]

NewEntry(c, owner) ==
  [id |-> task[c].id, owner |-> owner, by |-> task[c].by, job |-> task[c].job,
   status |-> "pending"]

AppendEntry(c) ==
  /\ task[c].pc = "appending"
  /\ session # None
  /\ queue' = Append(queue, NewEntry(c, session))
  /\ Rest(c)
  /\ UNCHANGED <<serverVars, session, copies, entries, overlapped>>

\* getUserId has no cached id and asks secure storage ...
ReadQueue(c) ==
  /\ task[c].pc = "appending"
  /\ session = None
  /\ task' = [task EXCEPT ![c].pc = "writing", ![c].read = queue]
  /\ UNCHANGED <<serverVars, session, queue, copies, entries, overlapped>>

\* ... which by then may hold a new login's id.
WriteQueue(c) ==
  /\ task[c].pc = "writing"
  /\ \E owner \in {None, session} :
       queue' = Append(task[c].read, NewEntry(c, owner))
  /\ Rest(c)
  /\ UNCHANGED <<serverVars, session, copies, entries, overlapped>>

-----------------------------------------------------------------------------
(* trySyncAll, retry, discard *)

StartSync ==
  /\ task[Sync].pc = "idle"           \* _syncing
  /\ OwnEntries # <<>>
  /\ task' = [task EXCEPT ![Sync] = Round(OwnEntries)]
  /\ UNCHANGED <<serverVars, session, queue, copies, entries, overlapped>>

\* The buttons of an entry on my_applications_screen.dart
Retry(c, e) ==
  /\ task[c].pc = "idle"
  /\ session # None /\ e.owner = session
  /\ task' = [task EXCEPT ![c] = Round(<<e>>)]
  /\ UNCHANGED <<serverVars, session, queue, copies, entries, overlapped>>

Discard(e) ==
  /\ session # None /\ e.owner = session
  /\ RemoveAndCleanup(e.id)
  /\ UNCHANGED <<serverVars, session, task, entries, overlapped>>

\* After one entry: the next one, or the end.
Proceed(c) ==
  IF Len(task[c].todo) = 1 THEN Rest(c)
  ELSE task' = [task EXCEPT ![c].pc = "loop", ![c].todo = Tail(@)]

\* _trySyncOne, up to the request
DropMissing(c) ==
  /\ task[c].pc = "loop"
  /\ Current(c).id \notin copies
  /\ RemoveAndCleanup(Current(c).id)
  /\ Proceed(c)
  /\ UNCHANGED <<serverVars, session, entries, overlapped>>

SendEntry(c) ==
  /\ task[c].pc = "loop"
  /\ Current(c).id \in copies
  /\ Send(c, session, Current(c).job, Current(c).by)
  /\ task' = [task EXCEPT ![c].pc = "waiting"]
  /\ UNCHANGED <<session, queue, copies, entries, overlapped>>

\* Mutant: any answer counts as a submission.
Answered_AnyStatus(c) ==
  /\ task[c].pc = "waiting"
  /\ reply[c] # "none"
  /\ RemoveAndCleanup(Current(c).id)
  /\ session' = IF reply[c] = "401" THEN None ELSE session
  /\ ReadReply(c)
  /\ Proceed(c)
  /\ UNCHANGED <<entries, overlapped>>

\* ... and from its answer.  sendMultipart ends the session on a 401.
Answered(c) ==
  /\ task[c].pc = "waiting"
  /\ reply[c] # "none"
  /\ IF reply[c] = "201" THEN RemoveAndCleanup(Current(c).id)
     ELSE UpdateStatus(Current(c).id, "failed")
  /\ session' = IF reply[c] = "401" THEN None ELSE session
  /\ ReadReply(c)
  /\ Proceed(c)
  /\ UNCHANGED <<entries, overlapped>>

\* The timeout, or no connection
Unanswered(c) ==
  /\ task[c].pc = "waiting"
  /\ reply[c] = "none"
  /\ GiveUp(c)
  /\ UpdateStatus(Current(c).id, "pending")
  /\ Proceed(c)
  /\ UNCHANGED <<session, entries, overlapped>>

-----------------------------------------------------------------------------
(* The phone *)

Logout ==
  /\ session # None
  /\ session' = None
  /\ UNCHANGED <<serverVars, queue, copies, task, entries, overlapped>>

\* The workers whose documents a client has in hand.
WorkersOf(c) ==
  ({task[c].by} \cup {task[c].todo[i].by : i \in DOMAIN task[c].todo}) \ {None}

Login(u) ==
  /\ session = None
  /\ u \notin erased
  /\ faults < MaxFaults
  /\ faults' = faults + 1
  /\ session' = u
  /\ overlapped' = overlapped \cup ((UNION {WorkersOf(c) : c \in Client}) \ {u})
  /\ UNCHANGED <<application, disk, request, reply, second, erasureVars, saved,
                 shared, leftover, queue, copies, task, entries>>

\* The app is closed: whatever was under way is forgotten, the queue is not.
CloseApp ==
  /\ \E c \in Client : task[c].pc # "idle"
  /\ ClientsDie
  /\ task' = [c \in Client |-> Resting]
  /\ UNCHANGED <<session, queue, copies, entries, overlapped>>

ClientStep(c) ==
  \/ SubmitAnswered(c) \/ SubmitLost(c)
  \/ CopyFiles(c) \/ AppendEntry(c) \/ ReadQueue(c) \/ WriteQueue(c)
  \/ DropMissing(c) \/ SendEntry(c) \/ Answered(c) \/ Unanswered(c)

Next ==
  \/ ServerNext /\ UNCHANGED phoneVars
  \/ \E c \in Client : ClientStep(c)
  \/ \E c \in Screen, j \in Job : Submit(c, j)
  \/ \E i \in DOMAIN queue :
       Discard(queue[i]) \/ \E c \in Screen : Retry(c, queue[i])
  \/ StartSync
  \/ Logout \/ \E u \in User : Login(u)
  \/ CloseApp

Spec == Init /\ [][Next]_vars

-----------------------------------------------------------------------------
(* Properties *)

\* An entry leaves the queue when the worker discards it, when its files are
\* gone, or when the server has an application made of its documents; an
\* answer that never came or a refusal never drops it.  The one exception is
\* an enqueue without a session, which writes back the list it read earlier.
LeavesWhenDelivered ==
  [][\A i \in DOMAIN queue :
       LET e == queue[i]
       IN (\A k \in DOMAIN queue' : queue'[k].id # e.id) =>
            \/ e.id \notin copies
            \/ \E u \in User : /\ Applied(u, e.job)
                               /\ application[u][e.job].by = e.by
            \/ Discard(e)
            \/ \E c \in Client : WriteQueue(c)]_vars

\* On a shared phone a worker's documents are sent, or queued to be sent, under
\* another worker's name only if the app had them in hand when that one logged
\* in: a list that was read, a submission or an enqueue that was under way
\* (loadForCurrentUser, trySyncAll).  Who is logged in is read anew for every
\* request.
OwnDocuments ==
  /\ \A u \in User, j \in Job :
       Applied(u, j) => application[u][j].by \in {u} \cup overlapped
  /\ \A i \in DOMAIN queue :
       queue[i].owner \in {None, queue[i].by} \/ queue[i].by \in overlapped
=============================================================================
