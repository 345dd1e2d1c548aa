---------------------------- MODULE Applications ----------------------------
(***************************************************************************)
(* Applying for a job: POST /apply (the mobile app) and portal_apply (the  *)
(* web portal) in backend/app.py.  A request looks for an application of   *)
(* its user and job, validates the attached files (a malware scan of       *)
(* seconds), writes them to APPLICATION_FOLDER and inserts the row; the    *)
(* unique constraint uq_user_job decides between two that got so far.      *)
(* Erasure of the account removes the files that the rows name, and commits *)
(* the rows afterwards.  A file that cannot be removed is logged and stays. *)
(*                                                                         *)
(* A file's name is the second it was written in, the user's id and the    *)
(* name it was uploaded with; its content is a document, known by the      *)
(* worker who attached it and the job it was attached for.                 *)
(***************************************************************************)
EXTENDS Naturals

CONSTANTS
  User, Job,
  Name,             \* names of uploaded files, after secure_filename
  CvName,           \* what a job's applicants call their CV; None: no CV
  SupportingName,   \* likewise for the supporting document
  Request,          \* requests that the server handles at one time
  Client,           \* parts of the mobile app that wait for an answer
  PortalUser,       \* bound: users who also apply on the portal
  ErasableUser,     \* bound: users whose account may be erased
  AgainErasable,    \* bound: users whose erased account may be erased again
  None,
  MaxSecond,        \* bound: seconds of one behaviour in which files are written
  MaxFaults         \* bound: deaths, failed removals and, on the phone, logins of
                    \* one behaviour

ASSUME ApplicationsAssumption ==
  /\ CvName \in [Job -> Name \cup {None}]
  /\ SupportingName \in [Job -> Name \cup {None}]
  /\ PortalUser \subseteq User /\ ErasableUser \subseteq User
  /\ None \notin User \cup Job \cup Name \cup Client
  /\ MaxSecond \in Nat \ {0} /\ MaxFaults \in Nat

VARIABLES
  application,   \* the table: a row or None for each user and job
  disk,          \* APPLICATION_FOLDER: the document in each file, or None
  request,       \* requests under way
  reply,         \* what each client was answered and has not yet read
  second,        \* the clock that file names are made of
  erased,        \* users with erased_at
  erasing,       \* users whose erasure is between its files and its commit
  found,         \* jobs of the rows whose files an erasure has gone through,
                 \* which it has still to commit, or died before it could
  saved,         \* history: the last second each user had files written in
  shared,        \* history: users who had one name written twice in a second
  leftover,      \* history: files that nobody comes back for: of a lost race on
                 \* the portal, of a request that died, or not removed on demand
  faults

erasureVars == <<erased, erasing, found>>
serverVars == <<application, disk, request, reply, second, erasureVars, saved,
                shared, leftover, faults>>

Second == 1 .. MaxSecond
File == [second : Second, user : User, name : Name]
Document == [by : User, job : Job, kind : {"cv", "supporting"}]
Answer == {"none", "201", "400", "401"}

\* by is history: whose documents the request carried.
Row == [cv : File \cup {None}, supporting : File \cup {None}, by : User]

ASSUME NoneAssumption == None \notin File \cup Document \cup Row

\* idle -> checking (no application found) -> saved (files written) -> idle
RequestState ==
  [pc : {"idle", "checking", "saved"}, via : {"mobile", "portal", "none"},
   user : User \cup {None}, job : Job \cup {None}, by : User \cup {None},
   client : Client \cup {None},
   cv : File \cup {None}, supporting : File \cup {None}]

Idle == [pc |-> "idle", via |-> "none", user |-> None, job |-> None,
         by |-> None, client |-> None, cv |-> None, supporting |-> None]

ServerTypeOK ==
  /\ application \in [User -> [Job -> Row \cup {None}]]
  /\ disk \in [File -> Document \cup {None}]
  /\ request \in [Request -> RequestState]
  /\ reply \in [Client -> Answer]
  /\ second \in Second
  /\ erased \subseteq User /\ erasing \subseteq User
  /\ found \in [User -> SUBSET Job]
  /\ saved \in [User -> Second \cup {0}]
  /\ shared \subseteq User
  /\ leftover \subseteq File
  /\ faults \in 0 .. MaxFaults

ServerInit ==
  /\ application = [u \in User |-> [j \in Job |-> None]]
  /\ disk = [f \in File |-> None]
  /\ request = [r \in Request |-> Idle]
  /\ reply = [c \in Client |-> "none"]
  /\ second = 1
  /\ erased = {} /\ erasing = {}
  /\ found = [u \in User |-> {}]
  /\ saved = [u \in User |-> 0]
  /\ shared = {}
  /\ leftover = {}
  /\ faults = 0

-----------------------------------------------------------------------------
Applied(u, j) == application[u][j] # None
FilesOf(x) == {x.cv, x.supporting} \ {None}     \* x: a row or a request
Named(u, j) == IF Applied(u, j) THEN FilesOf(application[u][j]) ELSE {}

\* Mutant: without the time prefix.
FileName_Untimed(u, name) ==
  IF name = None THEN None ELSE [second |-> 1, user |-> u, name |-> name]

\* f"{ts}_{user_id}_{filename}"
FileName(u, name) ==
  IF name = None THEN None ELSE [second |-> second, user |-> u, name |-> name]

Deleted(files) == [f \in File |-> IF f \in files THEN None ELSE disk[f]]

\* os.remove of each of the files that exist; an OSError is logged, and the file
\* stays.
Remove(files) ==
  \E kept \in SUBSET {f \in files : disk[f] # None} :
    /\ kept # {} => faults < MaxFaults
    /\ faults' = IF kept = {} THEN faults ELSE faults + 1
    /\ disk' = Deleted(files \ kept)
    /\ leftover' = leftover \cup kept

\* The request ends; a client that still waits gets the answer.
Respond(r, answer) ==
  /\ request' = [request EXCEPT ![r] = Idle]
  /\ reply' = IF request[r].client = None THEN reply
              ELSE [reply EXCEPT ![request[r].client] = answer]

-----------------------------------------------------------------------------
(* The two routes *)

\* A request for u and j with the documents of by arrives; client waits.
Open(r, via, u, j, by, client) ==
  /\ request[r].pc = "idle"
  /\ u \notin erased           \* _current_user_id: the account is active
  /\ ~Applied(u, j)
  /\ request' = [request EXCEPT ![r] =
       [Idle EXCEPT !.pc = "checking", !.via = via, !.user = u, !.job = j,
                    !.by = by, !.client = client]]
  /\ UNCHANGED <<application, disk, reply, second, erasureVars, saved, shared,
                 leftover, faults>>

\* The portal's form: the worker's own documents, and no client of the app.
PortalApply(r, u, j) == Open(r, "portal", u, j, u, None)

\* Refused at the door, before anything is read or written.
TurnAway(u, j, client) ==
  /\ u \in erased \/ Applied(u, j)
  /\ reply' = [reply EXCEPT ![client] = "400"]
  /\ UNCHANGED <<application, disk, request, second, erasureVars, saved, shared,
                 leftover, faults>>

\* jwt_required: the token is missing, expired or revoked.
Unauthorized(client) ==
  /\ reply' = [reply EXCEPT ![client] = "401"]
  /\ UNCHANGED <<application, disk, request, second, erasureVars, saved, shared,
                 leftover, faults>>

\* The upload limit, a file type, a content check or the malware scan.
Refuse(r) ==
  /\ request[r].pc = "checking"
  /\ Respond(r, "400")
  /\ UNCHANGED <<application, disk, second, erasureVars, saved, shared, leftover,
                 faults>>

SaveFiles(r) ==
  LET u == request[r].user
      j == request[r].job
      cv == FileName(u, CvName[j])
      supporting == FileName(u, SupportingName[j])
      Doc(kind) == [by |-> request[r].by, job |-> j, kind |-> kind]
  IN /\ request[r].pc = "checking"
     /\ request' = [request EXCEPT ![r].pc = "saved", ![r].cv = cv,
                                   ![r].supporting = supporting]
     /\ disk' = [f \in File |-> CASE f = supporting -> Doc("supporting")
                                  [] f = cv /\ f # supporting -> Doc("cv")
                                  [] OTHER -> disk[f]]
     /\ saved' = [saved EXCEPT ![u] = second]
     /\ shared' = IF saved[u] = second \/ (cv # None /\ cv = supporting)
                  THEN shared \cup {u} ELSE shared
     /\ UNCHANGED <<application, reply, second, erasureVars, leftover, faults>>

\* Mutant: only the CV is removed.
Cleanup_CvOnly(r) == {request[r].cv} \ {None}

\* The files that apply() removes when uq_user_job refuses its row;
\* portal_apply removes nothing.
Cleanup(r) == FilesOf(request[r])

Commit(r) ==
  LET q == request[r]
  IN /\ q.pc = "saved"
     /\ IF Applied(q.user, q.job)     \* IntegrityError
        THEN /\ IF q.via = "mobile"
                THEN Remove(Cleanup(r))
                ELSE leftover' = leftover \cup FilesOf(q) /\ UNCHANGED <<disk, faults>>
             /\ Respond(r, "400")
             /\ UNCHANGED application
        ELSE /\ application' = [application EXCEPT ![q.user][q.job] =
                  [cv |-> q.cv, supporting |-> q.supporting, by |-> q.by]]
             /\ Respond(r, "201")
             /\ UNCHANGED <<disk, leftover, faults>>
     /\ UNCHANGED <<second, erasureVars, saved, shared>>

-----------------------------------------------------------------------------
(* Erasure, faults, time *)

\* _erase_user_data removes the files that its rows name, ...  Holds would only
\* delay it.
EraseFiles(u) ==
  /\ u \notin erasing
  /\ u \in erased => u \in AgainErasable
  /\ erasing' = erasing \cup {u}
  /\ found' = [found EXCEPT ![u] = {j \in Job : Applied(u, j)}]
  /\ Remove(UNION {Named(u, j) : j \in Job})
  /\ UNCHANGED <<application, request, reply, second, erased, saved, shared>>

Nulled(a) == [a EXCEPT !.cv = None, !.supporting = None]

\* ... and commits: the columns are nulled, whatever became of the files.  The
\* rows are the employer's record and stay.
EraseRows(u) ==
  /\ u \in erasing
  /\ erasing' = erasing \ {u}
  /\ erased' = erased \cup {u}
  /\ found' = [found EXCEPT ![u] = {}]
  /\ application' = [application EXCEPT ![u] =
       [j \in Job |-> IF j \in found[u] THEN Nulled(application[u][j])
                      ELSE application[u][j]]]
  /\ UNCHANGED <<disk, request, reply, second, saved, shared, leftover, faults>>

\* The worker that erases u dies before the commit.
EraserDies(u) ==
  /\ faults < MaxFaults
  /\ faults' = faults + 1
  /\ u \in erasing
  /\ erasing' = erasing \ {u}
  /\ UNCHANGED <<application, disk, request, reply, second, erased, found, saved,
                 shared, leftover>>

\* The worker handling r dies: no answer, and what it wrote stays.
Crash(r) ==
  /\ faults < MaxFaults
  /\ faults' = faults + 1
  /\ request[r].pc # "idle"
  /\ request' = [request EXCEPT ![r] = Idle]
  /\ leftover' = leftover \cup FilesOf(request[r])
  /\ UNCHANGED <<application, disk, reply, second, erasureVars, saved, shared>>

\* A second in which no file is written is told from the next by nothing.
Tick ==
  /\ second < MaxSecond
  /\ \E u \in User : saved[u] = second
  /\ second' = second + 1
  /\ UNCHANGED <<application, disk, request, reply, erasureVars, saved, shared,
                 leftover, faults>>

-----------------------------------------------------------------------------
(* The clients' side of requests and answers *)

ReadReply(client) ==
  /\ reply' = [reply EXCEPT ![client] = "none"]
  /\ UNCHANGED <<application, disk, request, second, erasureVars, saved, shared,
                 leftover, faults>>

\* The client no longer waits; the server's work goes on.
GiveUp(client) ==
  /\ request' = [r \in Request |->
       IF request[r].client = client THEN [request[r] EXCEPT !.client = None]
       ELSE request[r]]
  /\ UNCHANGED <<application, disk, reply, second, erasureVars, saved, shared,
                 leftover, faults>>

ClientsDie ==
  /\ faults < MaxFaults
  /\ faults' = faults + 1
  /\ request' = [r \in Request |-> [request[r] EXCEPT !.client = None]]
  /\ reply' = [c \in Client |-> "none"]
  /\ UNCHANGED <<application, disk, second, erasureVars, saved, shared, leftover>>

-----------------------------------------------------------------------------
\* Everything but the clients.
ServerNext ==
  \/ \E r \in Request, u \in PortalUser, j \in Job : PortalApply(r, u, j)
  \/ \E r \in Request :
       Refuse(r) \/ SaveFiles(r) \/ Commit(r) \/ Crash(r)
  \/ \E u \in ErasableUser : EraseFiles(u) \/ EraseRows(u) \/ EraserDies(u)
  \/ Tick

\* What any clients may do: send any worker's documents as any user, wait or
\* not, and disappear.
ClientNext ==
  \/ \E c \in Client :
       \/ \E r \in Request, u \in User, j \in Job, by \in User :
            Open(r, "mobile", u, j, by, c)
       \/ \E u \in User, j \in Job : TurnAway(u, j, c)
       \/ Unauthorized(c) \/ ReadReply(c) \/ GiveUp(c)
  \/ ClientsDie

\* The server with clients of which nothing is assumed.
ServerSpec == ServerInit /\ [][ServerNext \/ ClientNext]_serverVars

-----------------------------------------------------------------------------
(* Properties *)

\* What an application's columns name is what its request uploaded, whatever
\* other requests, lost races, cleanups and erasures do, and it is on disk: only
\* an erasure that has not committed, or died before it could, may have removed
\* it, and only for a row it found; the account's next erasure ends that.  Names
\* carry seconds, so a user with two writes of a name in one second is out of the
\* promise: there one overwrites or removes the other's file.
UploadsKept ==
  \A u \in User \ shared, j \in Job :
    Applied(u, j) =>
      LET a == application[u][j]
          Gone(f) == j \in found[u] /\ disk[f] = None
      IN /\ a.cv # None =>
              Gone(a.cv) \/ disk[a.cv] = [by |-> a.by, job |-> j, kind |-> "cv"]
         /\ a.supporting # None =>
              \/ Gone(a.supporting)
              \/ disk[a.supporting] = [by |-> a.by, job |-> j, kind |-> "supporting"]

\* A file no application names belongs to a request under way, or was left by
\* the portal's lost race, a dead worker or a removal that failed.  In particular
\* an erased account keeps no other file, and the mobile route cleans up what it
\* wrote.
NoOrphans ==
  \A f \in File :
    disk[f] # None =>
      \/ \E u \in User, j \in Job : f \in Named(u, j)
      \/ \E r \in Request : f \in FilesOf(request[r])
      \/ f \in leftover
=============================================================================
