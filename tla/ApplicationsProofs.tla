------------------------- MODULE ApplicationsProofs -------------------------
(***************************************************************************)
(* Proofs about the server of Applications, for any clients, users, jobs,  *)
(* file names and any number of requests, seconds and deaths; and about    *)
(* the phone of PendingApplications, for any number of screens, entries    *)
(* and logins: what its queue keeps, and whose documents it sends.         *)
(***************************************************************************)
EXTENDS PendingApplications, TLAPS, WellFoundedInduction

-----------------------------------------------------------------------------
(* The inductive invariant *)

\* A request has files only once it wrote them.
Requests ==
  \A r \in Request :
    /\ request[r].pc # "saved" => FilesOf(request[r]) = {}
    /\ request[r].pc # "idle" =>
         /\ request[r].user \in User /\ request[r].job \in Job
         /\ request[r].by \in User /\ request[r].via \in {"mobile", "portal"}

\* A file's name tells its user and a second no later than the last write.
Stamped ==
  /\ \A u \in User : saved[u] <= second
  /\ \A r \in Request : \A f \in FilesOf(request[r]) :
       f.user = request[r].user /\ f.second <= saved[f.user]
  /\ \A u \in User, j \in Job : \A f \in Named(u, j) :
       f.user = u /\ f.second <= saved[u]

\* Of a user whose names never came twice, every file has one holder.
Apart ==
  /\ \A r, q \in Request : \A f \in FilesOf(request[r]) \cap FilesOf(request[q]) :
       f.user \notin shared => r = q
  /\ \A r \in Request, u \in User, j \in Job :
       u \notin shared => FilesOf(request[r]) \cap Named(u, j) = {}
  /\ \A u \in User, i, j \in Job :
       u \notin shared /\ i # j => Named(u, i) \cap Named(u, j) = {}

\* What a request wrote is still there when it commits.
Written ==
  \A r \in Request :
    LET q == request[r]
    IN q.pc = "saved" /\ q.user \notin shared =>
         /\ q.cv # None =>
              disk[q.cv] = [by |-> q.by, job |-> q.job, kind |-> "cv"]
         /\ q.supporting # None =>
              disk[q.supporting] = [by |-> q.by, job |-> q.job, kind |-> "supporting"]

\* A file of a row that an erasure has found is gone, or has another holder
\* that the erasure's commit leaves alone.
Cleared ==
  \A u \in User : \A j \in found[u] :
    /\ Applied(u, j)
    /\ \A f \in Named(u, j) :
         \/ disk[f] = None \/ f \in leftover
         \/ \E r \in Request : f \in FilesOf(request[r])
         \/ \E i \in Job \ found[u] : f \in Named(u, i)

IInv ==
  ServerTypeOK /\ Requests /\ NoOrphans /\ Stamped /\ Apart /\ Written
  /\ UploadsKept /\ Cleared

ServerStep == ServerNext \/ ClientNext

-----------------------------------------------------------------------------
\* The invariant holds of an empty table and an empty folder.
LEMMA InitIInv ==
  ASSUME ServerInit
  PROVE  IInv
<1> USE ApplicationsAssumption, NoneAssumption
<1>1. ServerTypeOK
  BY DEF ServerInit, ServerTypeOK, RequestState, Idle, Second, Answer
<1>2. /\ \A r \in Request : FilesOf(request[r]) = {}
      /\ \A u \in User, j \in Job : Named(u, j) = {}
  BY DEF ServerInit, FilesOf, Named, Applied, Idle
<1>3. Requests
  BY <1>2 DEF ServerInit, Requests, Idle
<1>4. Stamped /\ Apart
  BY <1>2 DEF ServerInit, Stamped, Apart
<1>5. NoOrphans /\ Written /\ UploadsKept /\ Cleared
  BY DEF ServerInit, NoOrphans, Written, UploadsKept, Cleared, Applied, Idle
<1> QED
  BY <1>1, <1>3, <1>4, <1>5 DEF IInv

\* Steps that touch no file, no row and no request.
LEMMA QuietStep ==
  ASSUME IInv, ServerTypeOK', second <= second',
         UNCHANGED <<application, disk, request, found, saved, shared, leftover>>
  PROVE  IInv'
<1>1. Requests' /\ NoOrphans' /\ Written' /\ UploadsKept'
  BY DEF IInv, Requests, NoOrphans, Written, UploadsKept, Named, Applied, FilesOf
<1>a. /\ \A r \in Request : FilesOf(request[r])' = FilesOf(request[r])
      /\ \A u \in User, j \in Job : Named(u, j)' = Named(u, j)
  BY DEF Named, Applied, FilesOf
<1>2. Apart'
  BY <1>a DEF IInv, Apart
<1>4. Cleared'
  <2> SUFFICES ASSUME NEW u \in User, NEW j \in found[u]
               PROVE  /\ Applied(u, j)
                      /\ \A f \in Named(u, j) :
                           \/ disk[f] = None \/ f \in leftover
                           \/ \E r \in Request : f \in FilesOf(request[r])
                           \/ \E i \in Job \ found[u] : f \in Named(u, i)
    BY DEF Cleared, Applied, Named, FilesOf
  <2> QED
    BY DEF IInv, Cleared
<1>3. Stamped'
  BY DEF IInv, Stamped, ServerTypeOK, Second, Named, Applied, FilesOf
<1> QED
  BY <1>1, <1>2, <1>3, <1>4 DEF IInv

\* Steps after which requests and rows hold the files they held or fewer.
LEMMA Fewer ==
  ASSUME IInv, UNCHANGED <<second, saved, shared>>,
         \A r \in Request :
           \/ FilesOf(request'[r]) = {}
           \/ /\ FilesOf(request'[r]) = FilesOf(request[r])
              /\ request'[r].user = request[r].user,
         \A u \in User, j \in Job : Named(u, j)' \subseteq Named(u, j)
  PROVE  Stamped' /\ Apart'
<1>1. Stamped'
  BY DEF IInv, Stamped
<1>2. Apart'
  <2>1. \A r \in Request : FilesOf(request'[r]) \subseteq FilesOf(request[r])
    OBVIOUS
  <2>2. \A r, q \in Request :
          \A f \in FilesOf(request'[r]) \cap FilesOf(request'[q]) :
            f.user \notin shared' => r = q
    BY <2>1 DEF IInv, Apart
  <2>3. \A r \in Request, u \in User, j \in Job :
          u \notin shared' => FilesOf(request'[r]) \cap Named(u, j)' = {}
    BY <2>1 DEF IInv, Apart
  <2>4. \A u \in User, i, j \in Job :
          u \notin shared' /\ i # j => Named(u, i)' \cap Named(u, j)' = {}
    BY DEF IInv, Apart
  <2> QED
    BY <2>2, <2>3, <2>4 DEF Apart
<1> QED
  BY <1>1, <1>2

\* Steps that only begin, detach or end requests; an ended request's files
\* are nobody's, a request that goes on keeps all but its client.
LEMMA RequestStep ==
  ASSUME IInv, ServerTypeOK', Requests',
         UNCHANGED <<application, disk, second, found, saved, shared>>,
         leftover \subseteq leftover',
         \A r \in Request :
           \/ /\ FilesOf(request'[r]) = {} /\ request'[r].pc # "saved"
              /\ FilesOf(request[r]) \subseteq leftover'
           \/ \A x \in {"pc", "user", "job", "by", "cv", "supporting"} :
                request'[r][x] = request[r][x]
  PROVE  IInv'
<1>1. \A r \in Request :
        \/ FilesOf(request'[r]) = {} /\ FilesOf(request[r]) \subseteq leftover'
        \/ FilesOf(request'[r]) = FilesOf(request[r])
           /\ request'[r].user = request[r].user
  BY DEF FilesOf
<1>2. \A u \in User, j \in Job : Named(u, j)' = Named(u, j)
  BY DEF Named, Applied, FilesOf
<1>3. NoOrphans'
  BY <1>1, <1>2 DEF IInv, NoOrphans
<1>4. Stamped' /\ Apart'
  BY <1>1, <1>2, Fewer
<1>6. Written'
  BY DEF IInv, Written
<1>7. UploadsKept'
  BY DEF IInv, UploadsKept, Applied
<1>8. Cleared'
  <2> SUFFICES ASSUME NEW u \in User, NEW j \in found[u], NEW f \in Named(u, j)
               PROVE  \/ disk[f] = None \/ f \in leftover'
                      \/ \E r \in Request : f \in FilesOf(request'[r])
                      \/ \E i \in Job \ found[u] : f \in Named(u, i)
    BY <1>2 DEF IInv, ServerTypeOK, Cleared, Applied
  <2> QED
    BY <1>1 DEF IInv, Cleared
<1> QED
  BY <1>3, <1>4, <1>6, <1>7, <1>8 DEF IInv

\* Where files come from.
LEMMA Files ==
  ASSUME IInv
  PROVE  /\ \A r \in Request : \A f \in FilesOf(request[r]) :
              /\ f \in File /\ f.user \in User /\ f.second \in Nat
              /\ request[r].pc = "saved" /\ f.user = request[r].user
         /\ \A u \in User, j \in Job : \A f \in Named(u, j) :
              f \in File /\ f.user = u /\ f.second \in Nat
<1>1. ASSUME NEW r \in Request, NEW f \in FilesOf(request[r])
      PROVE  /\ f \in File /\ request[r].pc = "saved"
             /\ f.user = request[r].user
  <2>1. request[r] \in RequestState
    BY DEF IInv, ServerTypeOK
  <2> QED
    BY <2>1 DEF IInv, Requests, Stamped, RequestState, FilesOf
<1>2. ASSUME NEW u \in User, NEW j \in Job, NEW f \in Named(u, j)
      PROVE  f \in File /\ f.user = u
  <2>1. application[u][j] \in Row
    BY <1>2 DEF IInv, ServerTypeOK, Named, Applied
  <2> QED
    BY <1>2, <2>1 DEF IInv, Stamped, Row, FilesOf, Named
<1>3. \A f \in File : f.user \in User /\ f.second \in Nat
  BY DEF File, Second
<1> QED
  BY <1>1, <1>2, <1>3

\* A request writes its files.
LEMMA SaveStep ==
  ASSUME IInv, ServerTypeOK', NEW r \in Request, SaveFiles(r)
  PROVE  IInv'
<1> USE NoneAssumption
<1> DEFINE u == request[r].user
           j == request[r].job
           cv == FileName(u, CvName[j])
           supporting == FileName(u, SupportingName[j])
<1>1. /\ request[r].pc = "checking" /\ FilesOf(request[r]) = {}
      /\ u \in User /\ j \in Job /\ request[r].by \in User
      /\ request[r].via \in {"mobile", "portal"}
  BY DEF SaveFiles, IInv, Requests
<1>2. /\ cv # None => cv \in File /\ cv.user = u /\ cv.second = second
      /\ supporting # None =>
           supporting \in File /\ supporting.user = u /\ supporting.second = second
  BY <1>1, ApplicationsAssumption DEF FileName, File, IInv, ServerTypeOK
<1>3. /\ \A q \in Request \ {r} : request'[q] = request[q]
      /\ request'[r].pc = "saved" /\ request'[r].user = u
      /\ request'[r].job = j /\ request'[r].by = request[r].by
      /\ request'[r].via = request[r].via
      /\ request'[r].cv = cv /\ request'[r].supporting = supporting
  BY DEF SaveFiles, IInv, ServerTypeOK, RequestState
<1>4. /\ FilesOf(request'[r]) = {cv, supporting} \ {None}
      /\ \A q \in Request \ {r} : FilesOf(request'[q]) = FilesOf(request[q])
      /\ \A v \in User, i \in Job : Named(v, i)' = Named(v, i)
  BY <1>3 DEF FilesOf, Named, Applied, SaveFiles
<1>5. \A f \in FilesOf(request'[r]) :
        f \in File /\ f.user = u /\ f.second = second
  BY <1>2, <1>4
<1>6. /\ saved \in [User -> Nat] /\ second \in Nat
      /\ saved'[u] = second
      /\ \A v \in User \ {u} : saved'[v] = saved[v]
      /\ UNCHANGED <<application, second, found, leftover>>
  BY <1>1 DEF SaveFiles, erasureVars, IInv, ServerTypeOK, Second
<1>7. /\ shared \subseteq shared'
      /\ u \notin shared' => saved[u] < second /\ ~(cv # None /\ cv = supporting)
  BY <1>1, <1>6 DEF SaveFiles, IInv, Stamped
<1>8. /\ supporting # None => disk'[supporting] =
           [by |-> request[r].by, job |-> j, kind |-> "supporting"]
      /\ cv # None /\ cv # supporting =>
           disk'[cv] = [by |-> request[r].by, job |-> j, kind |-> "cv"]
      /\ \A f \in File : f \notin FilesOf(request'[r]) => disk'[f] = disk[f]
  BY <1>2, <1>4 DEF SaveFiles
<1>9. Requests'
  BY <1>1, <1>3, <1>4 DEF IInv, Requests
<1>10. NoOrphans'
  BY <1>1, <1>4, <1>6, <1>8 DEF IInv, NoOrphans
<1>11. Stamped'
  <2>1. \A v \in User : saved'[v] <= second
    BY <1>6 DEF IInv, Stamped
  <2>2. \A v \in User : saved[v] <= saved'[v]
    BY <1>6 DEF IInv, Stamped
  <2>3. ASSUME NEW q \in Request, NEW f \in FilesOf(request'[q])
        PROVE  f.user = request'[q].user /\ f.second <= saved'[f.user]
    <3>1. CASE q = r
      BY <1>3, <1>5, <1>6, <2>3, <3>1
    <3>2. CASE q # r
      <4>1. /\ f \in FilesOf(request[q]) /\ request'[q] = request[q]
            /\ f.user \in User /\ f.second \in Nat
        BY <1>3, <1>4, <2>3, <3>2, Files
      <4>2. f.user = request[q].user /\ f.second <= saved[f.user]
        BY <4>1 DEF IInv, Stamped
      <4> QED
        BY <1>6, <2>2, <4>1, <4>2
    <3> QED
      BY <3>1, <3>2
  <2>4. ASSUME NEW v \in User, NEW i \in Job, NEW f \in Named(v, i)
        PROVE  f.user = v /\ f.second <= saved'[v]
    <3>1. f.user = v /\ f.second <= saved[v] /\ f.second \in Nat
      BY <2>4, Files DEF IInv, Stamped
    <3> QED
      BY <1>6, <2>2, <3>1
  <2> QED
    BY <1>4, <1>6, <2>1, <2>3, <2>4 DEF Stamped
<1>12. \A f \in FilesOf(request'[r]) :
         f.user \notin shared' =>
           /\ \A q \in Request : f \notin FilesOf(request[q])
           /\ \A v \in User, i \in Job : f \notin Named(v, i)
  BY <1>1, <1>5, <1>6, <1>7 DEF IInv, Stamped
<1>13. Apart'
  BY <1>4, <1>5, <1>7, <1>12 DEF IInv, Apart, Stamped
<1>14. Written'
  <2> SUFFICES ASSUME NEW q \in Request, request'[q].pc = "saved",
                      request'[q].user \notin shared'
               PROVE  /\ request'[q].cv # None => disk'[request'[q].cv] =
                           [by |-> request'[q].by, job |-> request'[q].job,
                            kind |-> "cv"]
                      /\ request'[q].supporting # None =>
                           disk'[request'[q].supporting] =
                             [by |-> request'[q].by, job |-> request'[q].job,
                              kind |-> "supporting"]
    BY DEF Written
  <2>1. CASE q = r
    BY <1>3, <1>7, <1>8, <2>1
  <2>2. CASE q # r
    <3>1. /\ request'[q] = request[q] /\ request[q].user \notin shared
          /\ \A f \in FilesOf(request[q]) : disk'[f] = disk[f]
      BY <1>3, <1>7, <1>8, <1>12, <2>2, Files
    <3>2. /\ request[q].cv # None => request[q].cv \in FilesOf(request[q])
          /\ request[q].supporting # None =>
               request[q].supporting \in FilesOf(request[q])
      BY DEF FilesOf
    <3> QED
      BY <3>1, <3>2 DEF IInv, Written
  <2> QED
    BY <2>1, <2>2
<1>15. UploadsKept'
  <2>1. \A v \in User \ shared', i \in Job : \A f \in Named(v, i) :
          disk'[f] = disk[f]
    BY <1>8, <1>12, Files
  <2> QED
    BY <1>6, <1>7, <2>1 DEF IInv, UploadsKept, Applied, Named, FilesOf
<1>16. Cleared'
  <2> SUFFICES ASSUME NEW v \in User, NEW k \in found[v], NEW f \in Named(v, k)
               PROVE  \/ disk'[f] = None \/ f \in leftover
                      \/ \E q \in Request : f \in FilesOf(request'[q])
                      \/ \E i \in Job \ found[v] : f \in Named(v, i)
    BY <1>4, <1>6 DEF IInv, ServerTypeOK, Cleared, Applied
  <2>1. f \in File /\ k \in Job
    BY Files DEF IInv, ServerTypeOK
  <2> QED
    BY <1>1, <1>4, <1>8, <2>1 DEF IInv, Cleared
<1> QED
  BY <1>9, <1>10, <1>11, <1>13, <1>14, <1>15, <1>16 DEF IInv

\* The row is inserted: the request's files become the application's.
LEMMA InsertStep ==
  ASSUME IInv, ServerTypeOK', NEW r \in Request, Commit(r),
         NEW u \in User, NEW j \in Job,
         request[r].user = u, request[r].job = j, ~Applied(u, j)
  PROVE  IInv'
<1> USE NoneAssumption
<1> DEFINE row == [cv |-> request[r].cv, supporting |-> request[r].supporting,
                   by |-> request[r].by]
<1>1. /\ request[r].pc = "saved"
      /\ request[r] \in RequestState /\ request[r].by \in User
      /\ row \in Row /\ row # None
  BY DEF Commit, IInv, Requests, ServerTypeOK, RequestState, Row
<1>2. /\ request' = [request EXCEPT ![r] = Idle]
      /\ application' = [application EXCEPT ![u][j] = row]
      /\ UNCHANGED <<disk, leftover, second, found, saved, shared>>
  BY DEF Commit, Respond, erasureVars
<1>3. /\ request'[r] = Idle
      /\ \A q \in Request \ {r} : request'[q] = request[q]
      /\ application'[u][j] = row
      /\ \A v \in User, i \in Job :
           v # u \/ i # j => application'[v][i] = application[v][i]
  BY <1>1, <1>2 DEF IInv, ServerTypeOK
<1>4. /\ FilesOf(request'[r]) = {}
      /\ \A q \in Request \ {r} : FilesOf(request'[q]) = FilesOf(request[q])
      /\ Named(u, j)' = FilesOf(request[r])
      /\ Named(u, j) = {}
      /\ \A v \in User, i \in Job :
           v # u \/ i # j => Named(v, i)' = Named(v, i)
  <2>1. FilesOf(request'[r]) = {}
    BY <1>3 DEF FilesOf, Idle
  <2>2. \A q \in Request \ {r} : FilesOf(request'[q]) = FilesOf(request[q])
    BY <1>3
  <2>3. FilesOf(row) = FilesOf(request[r])
    BY DEF FilesOf
  <2>4. Named(u, j)' = FilesOf(row)
    BY <1>1, <1>3 DEF Named, Applied, FilesOf
  <2>5. Named(u, j) = {}
    BY DEF Named
  <2>6. \A v \in User, i \in Job :
          v # u \/ i # j => Named(v, i)' = Named(v, i)
    BY <1>3 DEF Named, Applied, FilesOf
  <2> QED
    BY <2>1, <2>2, <2>3, <2>4, <2>5, <2>6
<1>5. Requests'
  BY <1>3, <1>4 DEF IInv, Requests, Idle
<1>a. UNCHANGED <<disk, leftover, second, found, saved, shared>>
  BY <1>2
<1>b. \A f \in FilesOf(request[r]) : f.user = u
  BY Files
<1>6. NoOrphans'
  <2> SUFFICES ASSUME NEW f \in File, disk[f] # None
               PROVE  \/ \E v \in User, i \in Job : f \in Named(v, i)'
                      \/ \E q \in Request : f \in FilesOf(request'[q])
                      \/ f \in leftover
    BY <1>a DEF NoOrphans
  <2>1. CASE f \in FilesOf(request[r])
    BY <1>1, <1>4, <2>1
  <2>2. CASE \E v \in User, i \in Job : f \in Named(v, i)
    BY <1>4, <2>2
  <2>3. CASE \E q \in Request : f \in FilesOf(request[q])
    BY <1>4, <2>1, <2>3
  <2> QED
    BY <2>2, <2>3 DEF IInv, NoOrphans
<1>7. Stamped'
  <2>1. ASSUME NEW v \in User, NEW i \in Job, NEW f \in Named(v, i)'
        PROVE  f.user = v /\ f.second <= saved[v]
    <3>1. CASE v = u /\ i = j
      BY <1>1, <1>4, <1>b, <2>1, <3>1 DEF IInv, Stamped
    <3>2. CASE v # u \/ i # j
      BY <1>4, <2>1, <3>2 DEF IInv, Stamped
    <3> QED
      BY <3>1, <3>2
  <2>2. ASSUME NEW q \in Request, NEW f \in FilesOf(request'[q])
        PROVE  f.user = request'[q].user /\ f.second <= saved[f.user]
    BY <1>3, <1>4, <2>2 DEF IInv, Stamped
  <2> QED
    BY <1>a, <2>1, <2>2 DEF IInv, Stamped
<1>8. Apart'
  <2>1. \A p, q \in Request :
          \A f \in FilesOf(request'[p]) \cap FilesOf(request'[q]) :
            f.user \notin shared' => p = q
    BY <1>2, <1>4 DEF IInv, Apart
  <2>2. ASSUME NEW q \in Request, NEW v \in User \ shared, NEW i \in Job
        PROVE  FilesOf(request'[q]) \cap Named(v, i)' = {}
    <3>1. CASE q = r
      BY <1>4, <3>1
    <3>2. CASE q # r /\ v = u /\ i = j
      BY <1>4, <1>b, <2>2, <3>2 DEF IInv, Apart
    <3>3. CASE q # r /\ (v # u \/ i # j)
      BY <1>4, <2>2, <3>3 DEF IInv, Apart
    <3> QED
      BY <3>1, <3>2, <3>3
  <2>3. ASSUME NEW v \in User \ shared, NEW i \in Job, NEW k \in Job, i # k
        PROVE  Named(v, i)' \cap Named(v, k)' = {}
    <3>1. CASE v = u /\ i = j
      BY <1>1, <1>4, <2>3, <3>1 DEF IInv, Apart
    <3>2. CASE v = u /\ k = j
      BY <1>1, <1>4, <2>3, <3>2 DEF IInv, Apart
    <3>3. CASE v # u \/ (i # j /\ k # j)
      BY <1>4, <2>3, <3>3 DEF IInv, Apart
    <3> QED
      BY <3>1, <3>2, <3>3
  <2> QED
    BY <1>a, <2>1, <2>2, <2>3 DEF Apart
<1>9. Written'
  BY <1>2, <1>3 DEF IInv, Written, Idle
<1>10. UploadsKept'
  BY <1>1, <1>2, <1>3 DEF IInv, UploadsKept, Written, Applied
<1>11. Cleared'
  <2> SUFFICES ASSUME NEW v \in User, NEW k \in found[v]
               PROVE  /\ Applied(v, k)'
                      /\ \A f \in Named(v, k)' :
                           \/ disk[f] = None \/ f \in leftover
                           \/ \E q \in Request : f \in FilesOf(request'[q])
                           \/ \E i \in Job \ found[v] : f \in Named(v, i)'
    BY <1>a DEF Cleared
  <2>1. k \in Job /\ Applied(v, k) /\ j \notin found[u]
    BY DEF IInv, ServerTypeOK, Cleared
  <2>2. v # u \/ k # j
    BY <2>1
  <2>3. Applied(v, k)' /\ Named(v, k)' = Named(v, k)
    BY <1>3, <1>4, <2>1, <2>2 DEF Applied
  <2>4. ASSUME NEW f \in Named(v, k)
        PROVE  \/ disk[f] = None \/ f \in leftover
               \/ \E q \in Request : f \in FilesOf(request'[q])
               \/ \E i \in Job \ found[v] : f \in Named(v, i)'
    <3>1. CASE \E i \in Job \ found[v] : f \in Named(v, i)
      <4>1. PICK i \in Job \ found[v] : f \in Named(v, i)
        BY <3>1
      <4>2. v # u \/ i # j
        BY <1>4, <4>1
      <4> QED
        BY <1>4, <4>1, <4>2
    <3>2. CASE f \in FilesOf(request[r])
      <4>1. f.user = v /\ f.user = u
        BY <1>b, <2>1, <2>4, <3>2, Files
      <4> QED
        BY <1>4, <2>1, <3>2, <4>1
    <3>3. CASE \E q \in Request \ {r} : f \in FilesOf(request[q])
      BY <1>4, <3>3
    <3> QED
      BY <2>4, <3>1, <3>2, <3>3 DEF IInv, Cleared
  <2> QED
    BY <2>3, <2>4
<1> QED
  BY <1>5, <1>6, <1>7, <1>8, <1>9, <1>10, <1>11 DEF IInv

\* Of files that are to be removed some go; those that stay are left over.
LEMMA RemoveIs ==
  ASSUME ServerTypeOK, NEW files \in SUBSET File, Remove(files)
  PROVE  \E gone \in SUBSET files :
           /\ disk' = Deleted(gone)
           /\ \A f \in files : disk'[f] = None \/ f \in leftover'
           /\ leftover \subseteq leftover' /\ leftover' \subseteq leftover \cup files
           /\ faults' \in 0 .. MaxFaults
<1>1. PICK kept \in SUBSET files :
        /\ kept # {} => faults < MaxFaults
        /\ faults' = IF kept = {} THEN faults ELSE faults + 1
        /\ disk' = Deleted(files \ kept)
        /\ leftover' = leftover \cup kept
  BY DEF Remove
<1>2. faults' \in 0 .. MaxFaults
  BY <1>1, ApplicationsAssumption DEF ServerTypeOK
<1>3. \A f \in files : disk'[f] = None \/ f \in leftover'
  BY <1>1 DEF Deleted
<1> QED
  BY <1>1, <1>2, <1>3

\* The row is refused: the mobile route removes what it wrote, or tries to.
LEMMA LostRaceStep ==
  ASSUME IInv, ServerTypeOK', NEW r \in Request, Commit(r),
         Applied(request[r].user, request[r].job)
  PROVE  IInv'
<1> USE NoneAssumption
<1>0. FilesOf(request[r]) \subseteq File
  BY Files
<1>1. /\ request' = [request EXCEPT ![r] = Idle]
      /\ UNCHANGED <<application, second, found, saved, shared>>
  BY DEF Commit, Respond, erasureVars
<1>d. PICK gone \in SUBSET FilesOf(request[r]) :
        /\ disk' = Deleted(gone)
        /\ leftover \subseteq leftover'
        /\ \A f \in FilesOf(request[r]) : disk'[f] = None \/ f \in leftover'
  <2>1. CASE Remove(Cleanup(r))
    BY <1>0, <2>1, RemoveIs DEF Cleanup, IInv
  <2>2. CASE disk' = disk /\ leftover' = leftover \cup FilesOf(request[r])
    <3>1. disk' = Deleted({})
      BY <2>2 DEF Deleted, IInv, ServerTypeOK
    <3> QED
      BY <2>2, <3>1
  <2> QED
    BY <2>1, <2>2 DEF Commit
<1>2. /\ request'[r] = Idle
      /\ \A q \in Request \ {r} : request'[q] = request[q]
  BY <1>1 DEF IInv, ServerTypeOK
<1>3. /\ FilesOf(request'[r]) = {}
      /\ \A q \in Request \ {r} : FilesOf(request'[q]) = FilesOf(request[q])
      /\ \A v \in User, i \in Job : Named(v, i)' = Named(v, i)
  BY <1>1, <1>2 DEF FilesOf, Named, Applied, Idle
<1>4. /\ \A f \in File : f \in gone => disk'[f] = None
      /\ \A f \in File : f \notin gone => disk'[f] = disk[f]
  BY <1>d DEF Deleted
<1>5. \A f \in gone : f.user \notin shared =>
        /\ \A q \in Request \ {r} : f \notin FilesOf(request[q])
        /\ \A v \in User, i \in Job : f \notin Named(v, i)
  BY Files DEF IInv, Apart
<1>6. Requests'
  BY <1>2, <1>3 DEF IInv, Requests, Idle
<1>a. /\ leftover \subseteq leftover'
      /\ UNCHANGED <<application, second, found, saved, shared>>
  BY <1>1, <1>d
<1>7. NoOrphans'
  <2> SUFFICES ASSUME NEW f \in File, disk'[f] # None
               PROVE  \/ \E v \in User, i \in Job : f \in Named(v, i)
                      \/ \E q \in Request \ {r} : f \in FilesOf(request[q])
                      \/ f \in leftover'
    BY <1>3 DEF NoOrphans
  <2>1. disk[f] # None
    BY <1>4
  <2> QED
    BY <1>a, <1>d, <2>1 DEF IInv, NoOrphans
<1>8. Stamped' /\ Apart'
  BY <1>2, <1>3, <1>a, Fewer
<1>10. Written'
  <2> SUFFICES ASSUME NEW q \in Request \ {r}, request[q].user \notin shared,
                      NEW f \in FilesOf(request[q])
               PROVE  disk'[f] = disk[f]
    BY <1>2, <1>a DEF IInv, Written, FilesOf, Idle
  <2>1. f \in File /\ f.user \notin shared
    BY Files
  <2>2. f \notin gone
    BY <1>5, <2>1
  <2> QED
    BY <1>4, <2>1, <2>2
<1>11. UploadsKept'
  <2>1. ASSUME NEW v \in User \ shared, NEW i \in Job, NEW f \in Named(v, i)
        PROVE  disk'[f] = disk[f]
    <3>1. f \in File /\ f.user = v
      BY <2>1, Files
    <3>2. f \notin gone
      BY <1>5, <2>1, <3>1
    <3> QED
      BY <1>4, <3>1, <3>2
  <2> QED
    BY <1>a, <2>1 DEF IInv, UploadsKept, Applied, Named, FilesOf
<1>12. Cleared'
  <2> SUFFICES ASSUME NEW v \in User, NEW k \in found[v], NEW f \in Named(v, k)
               PROVE  \/ disk'[f] = None \/ f \in leftover'
                      \/ \E q \in Request : f \in FilesOf(request'[q])
                      \/ \E i \in Job \ found[v] : f \in Named(v, i)
    BY <1>3, <1>a DEF IInv, ServerTypeOK, Cleared, Applied
  <2>1. f \in File /\ k \in Job
    BY Files DEF IInv, ServerTypeOK
  <2>2. CASE f \in FilesOf(request[r])
    BY <1>d, <2>2
  <2>3. CASE \E q \in Request \ {r} : f \in FilesOf(request[q])
    BY <1>3, <2>3
  <2>4. CASE disk[f] = None \/ f \in leftover
    BY <1>4, <1>a, <2>1, <2>4
  <2> QED
    BY <2>2, <2>3, <2>4 DEF IInv, Cleared
<1> QED
  BY <1>6, <1>7, <1>8, <1>10, <1>11, <1>12 DEF IInv

\* An erasure goes through the files of the rows it finds.
LEMMA EraseFilesStep ==
  ASSUME IInv, ServerTypeOK', NEW u \in User, EraseFiles(u)
  PROVE  IInv'
<1> USE NoneAssumption
<1> DEFINE files == UNION {Named(u, j) : j \in Job}
<1>1. files \subseteq File /\ \A f \in files : f.user = u /\ \E j \in Job : f \in Named(u, j)
  BY Files
<1>b. \A j \in Job : Named(u, j) \subseteq files
  OBVIOUS
<1>c. Remove(files)
  BY DEF EraseFiles
<1> HIDE DEF files
<1>2. PICK gone \in SUBSET files :
        /\ disk' = Deleted(gone)
        /\ leftover \subseteq leftover'
        /\ \A f \in files : disk'[f] = None \/ f \in leftover'
  BY <1>1, <1>c, RemoveIs DEF IInv
<1>3. /\ UNCHANGED <<application, request, second, saved, shared>>
      /\ found' = [found EXCEPT ![u] = {j \in Job : Applied(u, j)}]
  BY DEF EraseFiles
<1>4. /\ \A v \in User, j \in Job : Named(v, j)' = Named(v, j)
      /\ \A v \in User, j \in Job : Applied(v, j)' <=> Applied(v, j)
      /\ \A r \in Request : FilesOf(request'[r]) = FilesOf(request[r])
  BY <1>3 DEF Named, FilesOf, Applied
<1>5. /\ \A f \in File : f \in gone => disk'[f] = None
      /\ \A f \in File : f \notin gone => disk'[f] = disk[f]
  BY <1>2 DEF Deleted
<1>6. \A v \in User :
        found'[v] = IF v = u THEN {j \in Job : Applied(u, j)} ELSE found[v]
  BY <1>3 DEF IInv, ServerTypeOK
<1>7. Requests'
  BY <1>3 DEF IInv, Requests
<1>8. NoOrphans'
  BY <1>2, <1>3, <1>4, <1>5 DEF IInv, NoOrphans
<1>9. Stamped' /\ Apart'
  BY <1>3, <1>4, Fewer
<1>11. Written'
  <2> SUFFICES ASSUME NEW r \in Request, request[r].user \notin shared,
                      NEW f \in FilesOf(request[r])
               PROVE  disk'[f] = disk[f]
    BY <1>3 DEF IInv, Written, FilesOf
  <2>1. f \in File /\ f.user = request[r].user
    BY Files
  <2>2. f \notin gone
    BY <1>1, <2>1 DEF IInv, Apart
  <2> QED
    BY <1>5, <2>1, <2>2
<1>12. UploadsKept'
  <2>1. ASSUME NEW v \in User \ shared, NEW j \in Job, NEW f \in Named(v, j)
        PROVE  disk'[f] = disk[f] \/ (j \in found'[v] /\ disk'[f] = None)
    <3>1. f \in File /\ f.user = v
      BY <2>1, Files
    <3>2. CASE v = u
      <4>1. Applied(u, j)
        BY <2>1, <3>2 DEF Named
      <4> QED
        BY <1>5, <1>6, <3>1, <3>2, <4>1
    <3>3. CASE v # u
      BY <1>1, <1>5, <3>1, <3>3
    <3> QED
      BY <3>2, <3>3
  <2>2. ASSUME NEW v \in User \ shared, NEW j \in Job, Applied(v, j),
               NEW x \in {"cv", "supporting"}, application[v][j][x] # None
        PROVE  LET a == application[v][j]
               IN \/ j \in found'[v] /\ disk'[a[x]] = None
                  \/ disk'[a[x]] = [by |-> a.by, job |-> j, kind |-> x]
    <3> DEFINE a == application[v][j]
    <3>1. a.cv # None => a.cv \in Named(v, j)
      BY <2>2 DEF Named, FilesOf
    <3>2. a.supporting # None => a.supporting \in Named(v, j)
      BY <2>2 DEF Named, FilesOf
    <3>3. v # u => found'[v] = found[v]
      BY <1>6
    <3>4. v = u => j \in found'[v]
      BY <1>6, <2>2
    <3>5. CASE x = "cv"
      <4>1. \/ j \in found[v] /\ disk[a.cv] = None
            \/ disk[a.cv] = [by |-> a.by, job |-> j, kind |-> "cv"]
        BY <2>2, <3>5 DEF IInv, UploadsKept
      <4> QED
        BY <2>1, <2>2, <3>1, <3>3, <3>4, <3>5, <4>1
    <3>6. CASE x = "supporting"
      <4>1. \/ j \in found[v] /\ disk[a.supporting] = None
            \/ disk[a.supporting] = [by |-> a.by, job |-> j, kind |-> "supporting"]
        BY <2>2, <3>6 DEF IInv, UploadsKept
      <4> QED
        BY <2>1, <2>2, <3>2, <3>3, <3>4, <3>6, <4>1
    <3> QED
      BY <3>5, <3>6
  <2>3. UNCHANGED <<application, shared>>
    BY <1>3
  <2> QED
    BY <2>2, <2>3 DEF UploadsKept, Applied
<1>13. Cleared'
  <2> SUFFICES ASSUME NEW v \in User, NEW k \in found'[v]
               PROVE  /\ Applied(v, k)
                      /\ \A f \in Named(v, k) :
                           \/ disk'[f] = None \/ f \in leftover'
                           \/ \E q \in Request : f \in FilesOf(request[q])
                           \/ \E i \in Job \ found'[v] : f \in Named(v, i)
    <3>1. \A v \in User : \A i \in found'[v] : i \in Job
      BY <1>6 DEF IInv, ServerTypeOK
    <3> QED
      BY <1>3, <1>4, <3>1 DEF Cleared
  <2>1. CASE v = u
    BY <1>2, <1>6, <1>b, <2>1
  <2>2. CASE v # u
    <3>1. k \in found[v] /\ found'[v] = found[v] /\ k \in Job
      BY <1>6, <2>2 DEF IInv, ServerTypeOK
    <3>2. \A f \in Named(v, k) : f \in File /\ (disk[f] = None => disk'[f] = None)
      BY <1>5, <3>1, Files
    <3> QED
      BY <1>2, <3>1, <3>2 DEF IInv, Cleared
  <2> QED
    BY <2>1, <2>2
<1> QED
  BY <1>7, <1>8, <1>9, <1>11, <1>12, <1>13 DEF IInv

LEMMA NulledIs ==
  ASSUME NEW a \in Row
  PROVE  /\ Nulled(a) \in Row /\ Nulled(a).by = a.by
         /\ Nulled(a).cv = None /\ Nulled(a).supporting = None
BY DEF Nulled, Row

\* An erasure commits: the rows it found name no file any more.
LEMMA EraseRowsStep ==
  ASSUME IInv, ServerTypeOK', NEW u \in User, EraseRows(u)
  PROVE  IInv'
<1> USE NoneAssumption
<1>1. /\ UNCHANGED <<disk, request, leftover, second, saved, shared>>
      /\ found' = [found EXCEPT ![u] = {}]
      /\ application' = [application EXCEPT ![u] =
           [j \in Job |-> IF j \in found[u] THEN Nulled(application[u][j])
                          ELSE application[u][j]]]
  BY DEF EraseRows
<1>2. /\ \A v \in User : found'[v] = IF v = u THEN {} ELSE found[v]
      /\ \A v \in User, j \in Job :
           v # u \/ j \notin found[v] => application'[v][j] = application[v][j]
  BY <1>1 DEF IInv, ServerTypeOK
<1>3. \A j \in found[u] :
        /\ Applied(u, j)
        /\ application'[u][j].cv = None /\ application'[u][j].supporting = None
  <2> SUFFICES ASSUME NEW j \in found[u]
               PROVE  /\ Applied(u, j)
                      /\ application'[u][j].cv = None
                      /\ application'[u][j].supporting = None
    OBVIOUS
  <2>1. j \in Job /\ Applied(u, j)
    BY DEF IInv, ServerTypeOK, Cleared
  <2>2. application[u][j] \in Row
    BY <2>1 DEF IInv, ServerTypeOK, Applied
  <2>3. application'[u][j] = Nulled(application[u][j])
    BY <1>1, <2>1 DEF IInv, ServerTypeOK
  <2> QED
    BY <2>1, <2>2, <2>3, NulledIs
<1>4. /\ \A j \in found[u] : Named(u, j)' = {}
      /\ \A v \in User, j \in Job :
           v # u \/ j \notin found[v] => Named(v, j)' = Named(v, j)
      /\ \A r \in Request : FilesOf(request'[r]) = FilesOf(request[r])
  BY <1>1, <1>2, <1>3 DEF Named, FilesOf, Applied
<1>a. UNCHANGED <<disk, request, leftover, second, saved, shared>>
  BY <1>1
<1>5. \A v \in User, j \in Job : Named(v, j)' \subseteq Named(v, j)
  BY <1>4
<1>7. Requests'
  BY <1>a DEF IInv, Requests
<1>8. NoOrphans'
  <2> SUFFICES ASSUME NEW f \in File, disk[f] # None
               PROVE  \/ \E v \in User, j \in Job : f \in Named(v, j)'
                      \/ \E r \in Request : f \in FilesOf(request[r])
                      \/ f \in leftover
    BY <1>a DEF NoOrphans
  <2>1. CASE \E j \in found[u] : f \in Named(u, j)
    <3>1. \/ f \in leftover \/ \E r \in Request : f \in FilesOf(request[r])
          \/ \E i \in Job \ found[u] : f \in Named(u, i)
      BY <2>1 DEF IInv, Cleared
    <3> QED
      BY <1>4, <3>1
  <2>2. CASE \E v \in User, j \in Job :
               f \in Named(v, j) /\ (v # u \/ j \notin found[v])
    BY <1>4, <2>2
  <2> QED
    BY <2>1, <2>2 DEF IInv, NoOrphans
<1>9. Stamped' /\ Apart'
  BY <1>4, <1>5, <1>a, Fewer
<1>11. Written'
  BY <1>a DEF IInv, Written
<1>12. UploadsKept'
  <2> SUFFICES ASSUME NEW v \in User \ shared, NEW j \in Job, Applied(v, j)'
               PROVE  LET a == application'[v][j]
                          Gone(f) == j \in found'[v] /\ disk[f] = None
                          Doc(kind) == [by |-> a.by, job |-> j, kind |-> kind]
                      IN /\ a.cv # None => Gone(a.cv) \/ disk[a.cv] = Doc("cv")
                         /\ a.supporting # None =>
                              \/ Gone(a.supporting)
                              \/ disk[a.supporting] = Doc("supporting")
    BY <1>a DEF UploadsKept
  <2>1. CASE v = u /\ j \in found[u]
    BY <1>3, <2>1
  <2>2. CASE v # u \/ j \notin found[v]
    <3>1. application'[v][j] = application[v][j] /\ Applied(v, j)
      BY <1>2, <2>2 DEF Applied
    <3>2. j \in found[v] => j \in found'[v]
      BY <1>2, <2>2
    <3> QED
      BY <3>1, <3>2 DEF IInv, UploadsKept
  <2> QED
    BY <2>1, <2>2
<1>13. Cleared'
  <2> SUFFICES ASSUME NEW v \in User, NEW k \in found'[v]
               PROVE  /\ Applied(v, k)'
                      /\ \A f \in Named(v, k)' :
                           \/ disk[f] = None \/ f \in leftover
                           \/ \E q \in Request : f \in FilesOf(request[q])
                           \/ \E i \in Job \ found'[v] : f \in Named(v, i)'
    BY <1>a DEF Cleared
  <2>1. v # u /\ k \in found[v] /\ found'[v] = found[v] /\ k \in Job
    BY <1>2 DEF IInv, ServerTypeOK
  <2>2. \A i \in Job : application'[v][i] = application[v][i] /\ Named(v, i)' = Named(v, i)
    BY <1>2, <1>4, <2>1
  <2> QED
    BY <2>1, <2>2 DEF IInv, Cleared, Applied
<1> QED
  BY <1>7, <1>8, <1>9, <1>11, <1>12, <1>13 DEF IInv

-----------------------------------------------------------------------------
(* Types *)

\* The types of files and of a request that has them.
LEMMA NameType ==
  ASSUME ServerTypeOK, NEW u \in User, NEW name \in Name \cup {None}
  PROVE  FileName(u, name) \in File \cup {None}
BY DEF ServerTypeOK, FileName, File

\* Ending a request and answering keep their types.
LEMMA RespondType ==
  ASSUME ServerTypeOK, NEW r \in Request, NEW answer \in Answer,
         Respond(r, answer)
  PROVE  request' \in [Request -> RequestState] /\ reply' \in [Client -> Answer]
<1>1. Idle \in RequestState
  BY DEF Idle, RequestState
<1>2. request' \in [Request -> RequestState]
  BY <1>1 DEF Respond, ServerTypeOK
<1>3. request[r].client \in Client \cup {None}
  BY DEF ServerTypeOK, RequestState
<1> QED
  BY <1>2, <1>3 DEF Respond, ServerTypeOK

\* Writing a request's files keeps the types.
LEMMA SaveType ==
  ASSUME IInv, NEW r \in Request, SaveFiles(r)
  PROVE  ServerTypeOK'
<1> DEFINE u == request[r].user
           j == request[r].job
           cv == FileName(u, CvName[j])
           supporting == FileName(u, SupportingName[j])
<1>1. /\ u \in User /\ j \in Job /\ request[r].by \in User
      /\ request[r] \in RequestState
  BY DEF SaveFiles, IInv, Requests, ServerTypeOK
<1>2. cv \in File \cup {None} /\ supporting \in File \cup {None}
  BY <1>1, NameType, ApplicationsAssumption DEF IInv
<1>3. \A kind \in {"cv", "supporting"} :
        [by |-> request[r].by, job |-> j, kind |-> kind] \in Document
  BY <1>1 DEF Document
<1>4. disk' \in [File -> Document \cup {None}]
  BY <1>3 DEF SaveFiles, IInv, ServerTypeOK
<1>5. request' \in [Request -> RequestState]
  BY <1>1, <1>2 DEF SaveFiles, IInv, ServerTypeOK, RequestState
<1>6. saved' \in [User -> Second \cup {0}] /\ shared' \subseteq User
  BY <1>1 DEF SaveFiles, IInv, ServerTypeOK
<1> QED
  BY <1>4, <1>5, <1>6 DEF SaveFiles, erasureVars, IInv, ServerTypeOK

\* So do the insertion and the lost race.
LEMMA CommitType ==
  ASSUME IInv, NEW r \in Request, Commit(r)
  PROVE  ServerTypeOK'
<1>1. PICK answer \in Answer : Respond(r, answer)
  BY DEF Commit, Answer
<1>2. request' \in [Request -> RequestState] /\ reply' \in [Client -> Answer]
  BY <1>1, RespondType DEF IInv
<1>3. /\ disk' \in [File -> Document \cup {None}]
      /\ leftover' \subseteq File /\ faults' \in 0 .. MaxFaults
  <2>1. FilesOf(request[r]) \subseteq File
    BY Files
  <2>2. CASE Remove(Cleanup(r))
    <3>1. \E gone \in SUBSET File :
            /\ disk' = Deleted(gone) /\ leftover' \subseteq leftover \cup File
            /\ faults' \in 0 .. MaxFaults
      BY <2>1, <2>2, RemoveIs DEF Cleanup, IInv
    <3> QED
      BY <3>1 DEF Deleted, IInv, ServerTypeOK
  <2>3. CASE UNCHANGED <<disk, faults>> /\ leftover' \subseteq leftover \cup FilesOf(request[r])
    BY <2>1, <2>3 DEF IInv, ServerTypeOK
  <2> QED
    BY <2>2, <2>3 DEF Commit
<1>5. application' \in [User -> [Job -> Row \cup {None}]]
  <2>1. request[r] \in RequestState /\ request[r].by \in User
    BY DEF Commit, IInv, Requests, ServerTypeOK
  <2>2. [cv |-> request[r].cv, supporting |-> request[r].supporting,
         by |-> request[r].by] \in Row
    BY <2>1 DEF Row, RequestState
  <2>3. \/ UNCHANGED application
        \/ application' = [application EXCEPT
             ![request[r].user][request[r].job] =
               [cv |-> request[r].cv, supporting |-> request[r].supporting,
                by |-> request[r].by]]
    BY DEF Commit
  <2>4. application \in [User -> [Job -> Row \cup {None}]]
    BY DEF IInv, ServerTypeOK
  <2> QED
    BY <2>2, <2>3, <2>4
<1> QED
  BY <1>2, <1>3, <1>5 DEF Commit, erasureVars, IInv, ServerTypeOK

\* So does erasure: a row without files is a row.
LEMMA EraseType ==
  ASSUME IInv, NEW u \in User, EraseFiles(u) \/ EraseRows(u) \/ EraserDies(u)
  PROVE  ServerTypeOK'
<1>1. CASE EraseFiles(u)
  <2> DEFINE files == UNION {Named(u, j) : j \in Job}
  <2>1. files \subseteq File /\ Remove(files)
    BY <1>1, Files DEF EraseFiles
  <2> HIDE DEF files
  <2>2. PICK gone \in SUBSET files :
          /\ disk' = Deleted(gone) /\ leftover' \subseteq leftover \cup files
          /\ faults' \in 0 .. MaxFaults
    BY <2>1, RemoveIs DEF IInv
  <2>3. /\ disk' \in [File -> Document \cup {None}] /\ leftover' \subseteq File
        /\ faults' \in 0 .. MaxFaults
    BY <2>1, <2>2 DEF Deleted, IInv, ServerTypeOK
  <2>4. found' \in [User -> SUBSET Job] /\ erasing' \subseteq User
    BY <1>1 DEF EraseFiles, IInv, ServerTypeOK
  <2> QED
    BY <1>1, <2>3, <2>4 DEF EraseFiles, IInv, ServerTypeOK
<1>2. CASE EraseRows(u)
  <2>1. \A j \in found[u] : Nulled(application[u][j]) \in Row
    <3>1. \A j \in found[u] : application[u][j] \in Row
      BY DEF IInv, ServerTypeOK, Cleared, Applied
    <3> QED
      BY <3>1, NulledIs
  <2>2. application' \in [User -> [Job -> Row \cup {None}]]
    BY <1>2, <2>1 DEF EraseRows, IInv, ServerTypeOK
  <2>3. /\ found' \in [User -> SUBSET Job]
        /\ erasing' \subseteq User /\ erased' \subseteq User
    BY <1>2 DEF EraseRows, IInv, ServerTypeOK
  <2> QED
    BY <1>2, <2>2, <2>3 DEF EraseRows, IInv, ServerTypeOK
<1>3. CASE EraserDies(u)
  BY <1>3, ApplicationsAssumption DEF EraserDies, IInv, ServerTypeOK
<1> QED
  BY <1>1, <1>2, <1>3

-----------------------------------------------------------------------------
(* Steps that only move requests *)

\* A request that begins has no files yet.
LEMMA OpenStep ==
  ASSUME IInv, NEW r \in Request, NEW via \in {"mobile", "portal"},
         NEW u \in User, NEW j \in Job, NEW by \in User,
         NEW client \in Client \cup {None}, Open(r, via, u, j, by, client)
  PROVE  IInv'
<1> DEFINE q == [Idle EXCEPT !.pc = "checking", !.via = via, !.user = u,
                             !.job = j, !.by = by, !.client = client]
<1>1. /\ request' = [request EXCEPT ![r] = q]
      /\ UNCHANGED <<application, disk, reply, second, erasureVars, saved, shared,
                     leftover, faults>>
  BY DEF Open
<1>2. /\ q \in RequestState /\ FilesOf(q) = {} /\ q.pc = "checking"
      /\ q.user = u /\ q.job = j /\ q.by = by /\ q.via = via
  BY DEF Idle, RequestState, FilesOf
<1>3. request'[r] = q /\ \A p \in Request \ {r} : request'[p] = request[p]
  BY <1>1 DEF erasureVars, IInv, ServerTypeOK
<1>4. FilesOf(request[r]) = {}
  BY DEF Open, IInv, Requests
<1> HIDE DEF q
<1>5. ServerTypeOK'
  BY <1>1, <1>2 DEF erasureVars, IInv, ServerTypeOK
<1>6. Requests'
  BY <1>2, <1>3 DEF IInv, Requests
<1> QED
  BY <1>1, <1>2, <1>3, <1>4, <1>5, <1>6, RequestStep DEF erasureVars

\* A refused request has none either.
LEMMA RefuseStep ==
  ASSUME IInv, NEW r \in Request, Refuse(r)
  PROVE  IInv'
<1>1. /\ request' = [request EXCEPT ![r] = Idle]
      /\ UNCHANGED <<application, disk, second, erasureVars, saved, shared,
                     leftover, faults>>
  BY DEF Refuse, Respond
<1>2. ServerTypeOK'
  BY <1>1, RespondType DEF Refuse, Answer, erasureVars, IInv, ServerTypeOK
<1>3. request'[r] = Idle /\ \A p \in Request \ {r} : request'[p] = request[p]
  BY <1>1 DEF erasureVars, IInv, ServerTypeOK
<1>4. FilesOf(request[r]) = {}
  BY DEF Refuse, IInv, Requests
<1>5. FilesOf(Idle) = {} /\ Idle.pc = "idle"
  BY DEF Idle, FilesOf
<1>6. Requests'
  BY <1>3, <1>5 DEF IInv, Requests
<1> QED
  BY <1>1, <1>2, <1>3, <1>4, <1>5, <1>6, RequestStep DEF erasureVars

\* What a dying worker wrote is left over.
LEMMA CrashStep ==
  ASSUME IInv, NEW r \in Request, Crash(r)
  PROVE  IInv'
<1>1. /\ request' = [request EXCEPT ![r] = Idle]
      /\ leftover' = leftover \cup FilesOf(request[r])
      /\ UNCHANGED <<application, disk, reply, second, erasureVars, saved, shared>>
  BY DEF Crash
<1>2. Idle \in RequestState /\ FilesOf(Idle) = {} /\ Idle.pc = "idle"
  BY DEF Idle, RequestState, FilesOf
<1>3. request'[r] = Idle /\ \A p \in Request \ {r} : request'[p] = request[p]
  BY <1>1 DEF erasureVars, IInv, ServerTypeOK
<1>4. ServerTypeOK'
  <2>1. faults' \in 0 .. MaxFaults
    BY ApplicationsAssumption DEF Crash, IInv, ServerTypeOK
  <2>2. leftover' \subseteq File
    BY <1>1, Files DEF erasureVars, IInv, ServerTypeOK
  <2> QED
    BY <1>1, <1>2, <2>1, <2>2 DEF erasureVars, IInv, ServerTypeOK
<1>5. Requests'
  BY <1>2, <1>3 DEF IInv, Requests
<1> QED
  BY <1>1, <1>2, <1>3, <1>4, <1>5, RequestStep DEF erasureVars

\* Clients stop waiting: D are the requests they waited for.
LEMMA DetachStep ==
  ASSUME IInv, NEW D \in SUBSET Request,
         request' = [r \in Request |->
           IF r \in D THEN [request[r] EXCEPT !.client = None] ELSE request[r]],
         reply' \in [Client -> Answer], faults' \in 0 .. MaxFaults,
         UNCHANGED <<application, disk, second, erasureVars, saved, shared, leftover>>
  PROVE  IInv'
<1>1. \A r \in Request :
        \A x \in {"pc", "via", "user", "job", "by", "cv", "supporting"} :
          request'[r][x] = request[r][x]
  BY DEF IInv, ServerTypeOK, RequestState
<1>2. ServerTypeOK'
  <2>1. \A q \in RequestState : [q EXCEPT !.client = None] \in RequestState
    BY DEF RequestState
  <2>2. request' \in [Request -> RequestState]
    BY <2>1 DEF erasureVars, IInv, ServerTypeOK
  <2> QED
    BY <2>2 DEF erasureVars, IInv, ServerTypeOK
<1>3. \A r \in Request :
        /\ request'[r].pc = request[r].pc /\ request'[r].via = request[r].via
        /\ request'[r].user = request[r].user /\ request'[r].job = request[r].job
        /\ request'[r].by = request[r].by /\ request'[r].cv = request[r].cv
        /\ request'[r].supporting = request[r].supporting
  BY <1>1
<1>4. Requests'
  BY <1>3 DEF IInv, Requests, FilesOf
<1> QED
  BY <1>1, <1>2, <1>4, RequestStep DEF erasureVars

-----------------------------------------------------------------------------
\* Every step of the server and of its clients keeps the invariant.
LEMMA StepIInv ==
  ASSUME IInv, [ServerStep]_serverVars
  PROVE  IInv'
<1>1. CASE UNCHANGED serverVars
  <2>1. /\ UNCHANGED <<application, disk, request, saved, shared, leftover>>
        /\ UNCHANGED <<reply, second, erased, erasing, found, faults>>
    BY <1>1 DEF serverVars, erasureVars
  <2>2. ServerTypeOK' /\ second <= second'
    BY <2>1 DEF IInv, ServerTypeOK, Second
  <2> QED
    BY <2>1, <2>2, QuietStep
<1>2. ASSUME NEW r \in Request, NEW u \in PortalUser, NEW j \in Job,
             PortalApply(r, u, j)
      PROVE  IInv'
  BY <1>2, OpenStep, ApplicationsAssumption DEF PortalApply
<1>3. ASSUME NEW r \in Request, Refuse(r)
      PROVE  IInv'
  BY <1>3, RefuseStep
<1>4. ASSUME NEW r \in Request, SaveFiles(r)
      PROVE  IInv'
  BY <1>4, SaveType, SaveStep
<1>5. ASSUME NEW r \in Request, Commit(r)
      PROVE  IInv'
  <2>1. request[r].user \in User /\ request[r].job \in Job
    BY <1>5 DEF Commit, IInv, Requests
  <2>2. ServerTypeOK'
    BY <1>5, CommitType
  <2> QED
    BY <1>5, <2>1, <2>2, InsertStep, LostRaceStep
<1>6. ASSUME NEW r \in Request, Crash(r)
      PROVE  IInv'
  BY <1>6, CrashStep
<1>7. ASSUME NEW u \in ErasableUser, EraseFiles(u) \/ EraseRows(u) \/ EraserDies(u)
      PROVE  IInv'
  <2>1. ServerTypeOK' /\ u \in User
    BY <1>7, EraseType, ApplicationsAssumption
  <2>2. CASE EraserDies(u)
    <3>1. second <= second'
      BY <2>2 DEF EraserDies, IInv, ServerTypeOK, Second
    <3> QED
      BY <2>1, <2>2, <3>1, QuietStep DEF EraserDies
  <2> QED
    BY <1>7, <2>1, <2>2, EraseFilesStep, EraseRowsStep
<1>8. CASE Tick
  <2>1. ServerTypeOK' /\ second <= second'
    BY <1>8, ApplicationsAssumption DEF Tick, erasureVars, IInv, ServerTypeOK, Second
  <2> QED
    BY <1>8, <2>1, QuietStep DEF Tick, erasureVars
<1>9. ASSUME NEW c \in Client, NEW r \in Request, NEW u \in User, NEW j \in Job,
             NEW by \in User, Open(r, "mobile", u, j, by, c)
      PROVE  IInv'
  BY <1>9, OpenStep
<1>10. ASSUME NEW c \in Client,
              \/ \E u \in User, j \in Job : TurnAway(u, j, c)
              \/ Unauthorized(c) \/ ReadReply(c)
       PROVE  IInv'
  <2>1. /\ UNCHANGED <<application, disk, request, second, erased, erasing, found,
                       saved, shared, leftover, faults>>
        /\ \E answer \in Answer : reply' = [reply EXCEPT ![c] = answer]
    BY <1>10 DEF TurnAway, Unauthorized, ReadReply, erasureVars, Answer
  <2>2. ServerTypeOK' /\ second <= second'
    BY <2>1 DEF IInv, ServerTypeOK, Second
  <2> QED
    BY <2>1, <2>2, QuietStep
<1>11. ASSUME NEW c \in Client, GiveUp(c)
       PROVE  IInv'
  <2> DEFINE D == {r \in Request : request[r].client = c}
  <2>1. /\ D \in SUBSET Request
        /\ request' = [r \in Request |->
             IF r \in D THEN [request[r] EXCEPT !.client = None] ELSE request[r]]
        /\ UNCHANGED <<application, disk, reply, second, erasureVars, saved, shared,
                       leftover, faults>>
    BY <1>11 DEF GiveUp
  <2>2. reply' \in [Client -> Answer] /\ faults' \in 0 .. MaxFaults
    BY <2>1 DEF IInv, ServerTypeOK
  <2> HIDE DEF D
  <2> QED
    BY <2>1, <2>2, DetachStep
<1>12. CASE ClientsDie
  <2>1. request' = [r \in Request |->
          IF r \in Request THEN [request[r] EXCEPT !.client = None]
          ELSE request[r]]
    BY <1>12 DEF ClientsDie
  <2>2. reply' \in [Client -> Answer] /\ faults' \in 0 .. MaxFaults
    BY <1>12, ApplicationsAssumption DEF ClientsDie, Answer, IInv, ServerTypeOK
  <2> QED
    BY <1>12, <2>1, <2>2, DetachStep DEF ClientsDie
<1>13. CASE ServerNext
  BY <1>2, <1>3, <1>4, <1>5, <1>6, <1>7, <1>8, <1>13 DEF ServerNext
<1>14. CASE ClientNext
  BY <1>9, <1>10, <1>11, <1>12, <1>14 DEF ClientNext
<1> QED
  BY <1>1, <1>13, <1>14 DEF ServerStep

\* The strengthened invariant, from which the three properties follow.
THEOREM ServerInvariant == ServerSpec => []IInv
<1>1. ServerInit => IInv
  BY InitIInv
<1>2. IInv /\ [ServerStep]_serverVars => IInv'
  BY StepIInv
<1> QED
  BY <1>1, <1>2, PTL DEF ServerSpec, ServerStep

\* The variables of the server keep their types, so no step leaves its domain
\* (a file outside the folder, a row of another shape).
THEOREM ServerTypeCorrect == ServerSpec => []ServerTypeOK
<1>1. IInv => ServerTypeOK
  BY DEF IInv
<1> QED
  BY <1>1, ServerInvariant, PTL

\* Every CV and document a row names is on disk with the content its request
\* uploaded: lost races, erasures and dead workers touch nobody else's files.
THEOREM UploadsStay == ServerSpec => []UploadsKept
<1>1. IInv => UploadsKept
  BY DEF IInv
<1> QED
  BY <1>1, ServerInvariant, PTL

\* Files that no row names are a running request's, or were left by the
\* portal's lost race or a dead worker; erasure leaves no other.
THEOREM NoOtherOrphans == ServerSpec => []NoOrphans
<1>1. IInv => NoOrphans
  BY DEF IInv
<1> QED
  BY <1>1, ServerInvariant, PTL

-----------------------------------------------------------------------------
(* Lists: what Where returns *)

\* Induction, from the well-foundedness of the natural numbers: a set with 0
\* and with the successor of each of its numbers is all of Nat.
LEMMA Induction ==
  ASSUME NEW T \in SUBSET Nat, 0 \in T, \A n \in T : n + 1 \in T
  PROVE  T = Nat
<1> DEFINE R == {ss \in Nat \X Nat : ss[1] < ss[2]}
<1>1. IsWellFoundedOn(R, Nat)
  BY NatLessThanWellFounded DEF OpToRel
<1>2. \A k, m \in Nat : k < m => <<k, m>> \in R
  OBVIOUS
<1> HIDE DEF R
<1>3. SUFFICES ASSUME Nat \ T # {} PROVE FALSE
  OBVIOUS
<1>4. PICK m \in Nat \ T : \A k \in Nat \ T : ~ (<<k, m>> \in R)
  BY <1>1, <1>3, WFMin
<1>5. m # 0 /\ m - 1 \in Nat /\ m - 1 < m /\ m \in Nat
  BY <1>4
<1>6. m - 1 \in T
  BY <1>2, <1>4, <1>5, Zenon
<1>7. (m - 1) + 1 \in T
  BY <1>6
<1> QED
  BY <1>4, <1>5, <1>7


\* Where returns a list of what the list has at the given positions, all of it.
LEMMA WhereTakes ==
  ASSUME NEW S, NEW list \in Seq(S), NEW positions
  PROVE  LET taken == Where(list, positions)
         IN  /\ taken \in Seq(S)
             /\ \A i \in DOMAIN list \cap positions :
                  \E k \in DOMAIN taken : taken[k] = list[i]
             /\ \A k \in DOMAIN taken :
                  \E i \in DOMAIN list \cap positions : taken[k] = list[i]
<1> DEFINE Step(s, n) == IF n \in positions THEN Append(s, list[n]) ELSE s
           Rule(f, m) == f = [n \in 0 .. m |-> IF n = 0 THEN <<>> ELSE Step(f[n - 1], n)]
           Built == {m \in Nat : \E f : Rule(f, m)}
           F == CHOOSE f : Rule(f, Len(list))
<1>1. Where(list, positions) = F[Len(list)]
  BY DEF Where
<1>2. Built = Nat
  <2>1. 0 \in Built
    <3>1. Rule([n \in 0 .. 0 |-> <<>>], 0)
      OBVIOUS
    <3> QED
      BY <3>1
  <2>2. ASSUME NEW m \in Built
        PROVE  m + 1 \in Built
    <3>1. PICK f : Rule(f, m)
      OBVIOUS
    <3> DEFINE g == [n \in 0 .. m + 1 |->
                       IF n = m + 1 THEN Step(f[m], n) ELSE f[n]]
    <3>2. Rule(g, m + 1)
      <4>1. ASSUME NEW n \in 0 .. m + 1
            PROVE  g[n] = IF n = 0 THEN <<>> ELSE Step(g[n - 1], n)
        <5>1. CASE n = m + 1
          BY <5>1
        <5>2. CASE n # m + 1
          <6>1. n \in 0 .. m /\ (n # 0 => n - 1 \in 0 .. m /\ n - 1 # m + 1)
            BY <5>2
          <6>2. f[n] = IF n = 0 THEN <<>> ELSE Step(f[n - 1], n)
            BY <3>1, <6>1
          <6> HIDE DEF Step
          <6> QED
            BY <5>2, <6>1, <6>2
        <5> QED
          BY <5>1, <5>2
      <4> HIDE DEF Step
      <4> QED
        BY <4>1
    <3> HIDE DEF Rule, g
    <3> QED
      BY <3>2
  <2>3. Built \in SUBSET Nat
    OBVIOUS
  <2> HIDE DEF Built
  <2> QED
    BY <2>1, <2>2, <2>3, Induction
<1>3. Rule(F, Len(list))
  <2> HIDE DEF Rule
  <2>1. Len(list) \in Built
    <3> HIDE DEF Built
    <3> QED
      BY <1>2
  <2>2. \E f : Rule(f, Len(list))
    BY <2>1
  <2> QED
    BY <2>2, Zenon
<1>4. F[0] = <<>> /\ \A n \in 1 .. Len(list) : F[n] = Step(F[n - 1], n)
  <2> HIDE DEF Step, F
  <2> QED
    BY <1>3
<1> DEFINE Right(n) ==
             /\ F[n] \in Seq(S)
             /\ \A i \in 1 .. n : i \in positions =>
                  \E k \in DOMAIN F[n] : F[n][k] = list[i]
             /\ \A k \in DOMAIN F[n] :
                  \E i \in 1 .. n : i \in positions /\ F[n][k] = list[i]
           Proved == {n \in Nat : n <= Len(list) => Right(n)}
<1> HIDE DEF F
<1>5. Proved = Nat
  <2>1. 0 \in Proved
    <3>1. <<>> \in Seq(S) /\ DOMAIN <<>> = {} /\ 1 .. 0 = {}
      OBVIOUS
    <3> QED
      BY <1>4, <3>1
  <2>2. ASSUME NEW n \in Proved
        PROVE  n + 1 \in Proved
    <3>1. SUFFICES ASSUME n + 1 <= Len(list)
                   PROVE  Right(n + 1)
      OBVIOUS
    <3>2. Right(n) /\ F[n + 1] = Step(F[n], n + 1) /\ list[n + 1] \in S
      BY <1>4, <3>1
    <3>3. CASE n + 1 \in positions
      <4> DEFINE t == F[n]
                 u == F[n + 1]
      <4>1. /\ u = Append(t, list[n + 1]) /\ t \in Seq(S)
            /\ u \in Seq(S) /\ Len(u) = Len(t) + 1
            /\ \A k \in 1 .. Len(t) : u[k] = t[k]
            /\ u[Len(t) + 1] = list[n + 1]
        BY <3>2, <3>3
      <4>2. DOMAIN t = 1 .. Len(t) /\ DOMAIN u = 1 .. Len(t) + 1
        BY <4>1
      <4>3. ASSUME NEW i \in 1 .. n + 1, i \in positions
            PROVE  \E k \in DOMAIN u : u[k] = list[i]
        <5> HIDE DEF t, u
        <5>0. n \in Nat /\ Len(t) \in Nat
          BY <4>1
        <5>1. CASE i = n + 1
          <6>1. Len(t) + 1 \in DOMAIN u /\ u[Len(t) + 1] = list[i]
            BY <4>1, <4>2, <5>0, <5>1
          <6> QED
            BY <6>1
        <5>2. CASE i # n + 1
          <6>1. i \in 1 .. n
            BY <5>0, <5>2
          <6>2. PICK k \in DOMAIN t : t[k] = list[i]
            BY <3>2, <4>3, <6>1 DEF t
          <6>3. k \in DOMAIN u /\ u[k] = list[i]
            BY <4>1, <4>2, <5>0, <6>2
          <6> QED
            BY <6>3
        <5> QED
          BY <5>1, <5>2
      <4>4. ASSUME NEW k \in DOMAIN u
            PROVE  \E i \in 1 .. n + 1 : i \in positions /\ u[k] = list[i]
        <5>1. CASE k = Len(t) + 1
          BY <3>3, <4>1, <5>1
        <5>2. CASE k # Len(t) + 1
          BY <3>2, <4>1, <4>2, <5>2
        <5> QED
          BY <5>1, <5>2
      <4> HIDE DEF t
      <4> QED
        BY <4>1, <4>3, <4>4
    <3>4. CASE n + 1 \notin positions
      BY <3>2, <3>4
    <3> QED
      BY <3>3, <3>4
  <2>3. Proved \in SUBSET Nat
    OBVIOUS
  <2> HIDE DEF Proved
  <2> QED
    BY <2>1, <2>2, <2>3, Induction
<1>6. Right(Len(list))
  <2>1. Len(list) \in Proved
    BY <1>5
  <2> QED
    BY <2>1
<1>7. DOMAIN list = 1 .. Len(list)
  OBVIOUS
<1> QED
  <2> DEFINE taken == Where(list, positions)
  <2>1. taken = F[Len(list)]
    BY <1>1
  <2> HIDE DEF taken
  <2>2. /\ taken \in Seq(S)
        /\ \A i \in DOMAIN list \cap positions :
             \E k \in DOMAIN taken : taken[k] = list[i]
        /\ \A k \in DOMAIN taken :
             \E i \in DOMAIN list \cap positions : taken[k] = list[i]
    BY <1>6, <1>7, <2>1
  <2> QED
    BY <2>2 DEF taken


-----------------------------------------------------------------------------
(* The phone: types, and what its steps do to the server *)

Adding(x) == x.pc \in {"appending", "writing"}

\* What a client works on is there as long as it works on it.
Ready(x) ==
  /\ x.pc \in {"submitting", "copying"} \/ Adding(x) => x.by \in User /\ x.job \in Job
  /\ Adding(x) => x.id \in Id
  /\ x.pc \in {"loop", "waiting"} => x.todo # <<>>

PhoneTypes ==
  /\ session \in User \cup {None}
  /\ queue \in Seq(Entry)
  /\ copies \subseteq Id
  /\ task \in [Client -> Task]
  /\ entries \in 0 .. MaxEntry
  /\ overlapped \subseteq User

PhoneInv == PhoneTypes /\ \A c \in Client : Ready(task[c])

LEMMA WithoutKeeps ==
  ASSUME NEW S, queue \in Seq(S), NEW id
  PROVE  /\ Without(id) \in Seq(S)
         /\ \A i \in DOMAIN queue : queue[i].id # id =>
              \E k \in DOMAIN Without(id) : Without(id)[k] = queue[i]
         /\ \A k \in DOMAIN Without(id) :
              \E i \in DOMAIN queue : Without(id)[k] = queue[i] /\ queue[i].id # id
<1> DEFINE P == {i \in DOMAIN queue : queue[i].id # id}
<1>1. Without(id) = Where(queue, P)
  BY DEF Without
<1>2. \A i \in DOMAIN queue : i \in P <=> queue[i].id # id
  OBVIOUS
<1> HIDE DEF P
<1>3. /\ Where(queue, P) \in Seq(S)
      /\ \A i \in DOMAIN queue \cap P :
           \E k \in DOMAIN Where(queue, P) : Where(queue, P)[k] = queue[i]
      /\ \A k \in DOMAIN Where(queue, P) :
           \E i \in DOMAIN queue \cap P : Where(queue, P)[k] = queue[i]
  BY WhereTakes
<1> QED
  BY <1>1, <1>2, <1>3

LEMMA OwnEntriesAre ==
  ASSUME queue \in Seq(Entry)
  PROVE  /\ OwnEntries \in Seq(Entry)
         /\ \A k \in DOMAIN OwnEntries : \E i \in DOMAIN queue : OwnEntries[k] = queue[i]
<1> DEFINE P == {i \in DOMAIN queue : session # None /\ queue[i].owner = session}
<1>1. OwnEntries = Where(queue, P)
  BY DEF OwnEntries
<1> HIDE DEF P
<1>2. /\ Where(queue, P) \in Seq(Entry)
      /\ \A k \in DOMAIN Where(queue, P) :
           \E i \in DOMAIN queue \cap P : Where(queue, P)[k] = queue[i]
  BY WhereTakes
<1> QED
  BY <1>1, <1>2

LEMMA MarkedKeeps ==
  ASSUME queue \in Seq(Entry), NEW id, NEW status \in {"pending", "failed"}
  PROVE  /\ Marked(id, status) \in Seq(Entry)
         /\ DOMAIN Marked(id, status) = DOMAIN queue
         /\ \A i \in DOMAIN queue :
              \A x \in {"id", "owner", "by", "job"} : Marked(id, status)[i][x] = queue[i][x]
<1> DEFINE M == Marked(id, status)
<1>1. DOMAIN queue = 1 .. Len(queue) /\ Len(queue) \in Nat
      /\ \A i \in 1 .. Len(queue) : queue[i] \in Entry
  OBVIOUS
<1>2. \A i \in 1 .. Len(queue) :
        M[i] = IF queue[i].id = id THEN [queue[i] EXCEPT !.status = status] ELSE queue[i]
  BY <1>1 DEF Marked
<1>3. DOMAIN M = 1 .. Len(queue)
  BY <1>1 DEF Marked
<1>4. ASSUME NEW i \in 1 .. Len(queue)
      PROVE  M[i] \in Entry /\ \A x \in {"id", "owner", "by", "job"} : M[i][x] = queue[i][x]
  BY <1>1, <1>2 DEF Entry
<1>5. M = [i \in 1 .. Len(queue) |-> M[i]]
  BY <1>1 DEF Marked
<1>6. M \in Seq(Entry)
  <2> HIDE DEF M
  <2> QED
    BY <1>1, <1>4, <1>5
<1> QED
  BY <1>1, <1>3, <1>4, <1>6

LEMMA TaskIs ==
  ASSUME PhoneInv, NEW c \in Client, NEW x \in Task, Ready(x),
         task' = [task EXCEPT ![c] = x]
  PROVE  task' \in [Client -> Task] /\ \A d \in Client : Ready(task[d])'
BY DEF PhoneInv, PhoneTypes, Ready, Adding

LEMMA RestingIs == Resting \in Task /\ Ready(Resting)
<1>1. <<>> \in Seq(Entry)
  OBVIOUS
<1> QED
  BY <1>1 DEF Resting, Task, Ready, Adding

LEMMA HeadAndTail ==
  ASSUME NEW S, NEW s \in Seq(S), s # <<>>
  PROVE  /\ Head(s) \in S /\ Head(s) = s[1] /\ 1 \in DOMAIN s
         /\ Len(s) # 1 =>
              /\ Tail(s) \in Seq(S) /\ Tail(s) # <<>>
              /\ \A i \in DOMAIN Tail(s) : i + 1 \in DOMAIN s /\ Tail(s)[i] = s[i + 1]
<1>1. Len(s) \in Nat /\ Len(s) >= 1 /\ DOMAIN s = 1 .. Len(s)
  OBVIOUS
<1>2. Head(s) \in S /\ Head(s) = s[1]
  BY <1>1
<1>3. /\ Tail(s) \in Seq(S) /\ Len(Tail(s)) = Len(s) - 1
      /\ DOMAIN Tail(s) = 1 .. Len(s) - 1
      /\ \A i \in 1 .. Len(s) - 1 : Tail(s)[i] = s[i + 1]
  BY <1>1
<1>4. Len(s) # 1 => Tail(s) # <<>>
  <2>1. Len(<<>>) = 0
    OBVIOUS
  <2>2. Len(s) # 1 => Len(Tail(s)) # 0
    BY <1>1, <1>3
  <2> QED
    BY <2>1, <2>2, Zenon
<1> QED
  BY <1>1, <1>2, <1>3, <1>4

\* A list under way has a first entry, and one after it unless it is the last.
LEMMA CurrentIs ==
  ASSUME PhoneInv, NEW c \in Client, task[c].pc \in {"loop", "waiting"}
  PROVE  /\ Current(c) \in Entry /\ Current(c) = task[c].todo[1]
         /\ Len(task[c].todo) # 1 =>
              Tail(task[c].todo) \in Seq(Entry) /\ Tail(task[c].todo) # <<>>
<1>1. task[c].todo \in Seq(Entry) /\ task[c].todo # <<>>
  BY DEF PhoneInv, PhoneTypes, Ready, Task
<1> QED
  BY <1>1, HeadAndTail DEF Current

LEMMA ProceedIs ==
  ASSUME PhoneInv, NEW c \in Client, task[c].pc \in {"loop", "waiting"}, Proceed(c)
  PROVE  \E x \in Task :
           /\ task' = [task EXCEPT ![c] = x] /\ Ready(x)
           /\ \/ x = Resting
              \/ x.pc = "loop" /\ x.todo = Tail(task[c].todo) /\ x.read = task[c].read
                 /\ Len(task[c].todo) # 1
<1>1. CASE Len(task[c].todo) = 1
  BY <1>1, RestingIs DEF Proceed, Rest
<1>2. CASE Len(task[c].todo) # 1
  <2> DEFINE x == [task[c] EXCEPT !.pc = "loop", !.todo = Tail(task[c].todo)]
  <2>1. task' = [task EXCEPT ![c] = x]
    BY <1>2 DEF Proceed, PhoneInv, PhoneTypes
  <2>2. x \in Task /\ x.pc = "loop" /\ x.todo = Tail(task[c].todo) /\ x.read = task[c].read
    BY <1>2, CurrentIs DEF PhoneInv, PhoneTypes, Task
  <2>3. Ready(x)
    BY <1>2, <2>2, CurrentIs DEF Ready, Adding
  <2> QED
    BY <1>2, <2>1, <2>2, <2>3
<1> QED
  BY <1>1, <1>2

\* What a client sends is a step of the server's clients.
LEMMA SendIs ==
  ASSUME NEW c \in Client, NEW u \in User \cup {None}, NEW j \in Job, NEW by \in User,
         Send(c, u, j, by)
  PROVE  ClientNext
BY ApplicationsAssumption DEF Send, ClientNext

LEMMA InitPhone ==
  ASSUME Init
  PROVE  PhoneInv
<1> USE PendingApplicationsAssumption
<1>1. <<>> \in Seq(Entry)
  OBVIOUS
<1>2. task \in [Client -> Task] /\ \A c \in Client : Ready(task[c])
  BY RestingIs DEF Init
<1> QED
  BY <1>1, <1>2, PendingApplicationsAssumption DEF Init, PhoneInv, PhoneTypes

\* The screens and the list under way: each step leaves everyone ready, and
\* is a step of the server's clients or none of the server's business.
LEMMA ScreenSteps ==
  ASSUME PhoneInv, NEW c \in Client,
         \/ \E j \in Job : Submit(c, j)
         \/ SubmitAnswered(c) \/ SubmitLost(c)
         \/ CopyFiles(c) \/ AppendEntry(c) \/ ReadQueue(c) \/ WriteQueue(c)
  PROVE  PhoneInv' /\ (ClientNext \/ UNCHANGED serverVars)
<1> USE DEF PhoneInv, PhoneTypes
<1>0. task[c] \in Task /\ Ready(task[c])
  OBVIOUS
<1>1. ASSUME NEW j \in Job, Submit(c, j)
      PROVE  PhoneInv' /\ ClientNext
  <2>1. session \in User
    BY <1>1, PendingApplicationsAssumption DEF Submit
  <2>2. ClientNext
    BY <1>1, <2>1, SendIs DEF Submit
  <2> DEFINE x == Submission(session, j)
  <2>3. x \in Task /\ Ready(x)
    BY <1>1, <2>1, RestingIs DEF Submission, Resting, Task, Ready, Adding
  <2>4. task' = [task EXCEPT ![c] = x]
    BY <1>1 DEF Submit
  <2>5. task' \in [Client -> Task] /\ \A d \in Client : Ready(task[d])'
    <3> HIDE DEF x
    <3> QED
      BY <2>3, <2>4, TaskIs
  <2> QED
    BY <1>1, <2>2, <2>5 DEF Submit
<1>2. CASE SubmitAnswered(c)
  <2>1. task' \in [Client -> Task] /\ \A d \in Client : Ready(task[d])'
    BY <1>2, RestingIs, TaskIs DEF SubmitAnswered, Rest
  <2>2. ClientNext
    BY <1>2 DEF SubmitAnswered, ClientNext
  <2> QED
    BY <1>2, <2>1, <2>2 DEF SubmitAnswered
<1>3. CASE SubmitLost(c)
  <2> DEFINE x == [task[c] EXCEPT !.pc = "copying"]
  <2>1. x \in Task /\ Ready(x)
    BY <1>0, <1>3 DEF SubmitLost, Task, Ready, Adding
  <2>2. task' = [task EXCEPT ![c] = x] \/ task' = [task EXCEPT ![c] = Resting]
    BY <1>3 DEF SubmitLost, Rest
  <2>3. task' \in [Client -> Task] /\ \A d \in Client : Ready(task[d])'
    <3> HIDE DEF x
    <3> QED
      BY <2>1, <2>2, RestingIs, TaskIs
  <2>4. ClientNext
    BY <1>3 DEF SubmitLost, ClientNext
  <2> QED
    BY <1>3, <2>3, <2>4 DEF SubmitLost
<1>4. CASE CopyFiles(c)
  <2>1. entries' \in 0 .. MaxEntry /\ entries' \in Id
    BY <1>4, PendingApplicationsAssumption DEF CopyFiles, Id
  <2> DEFINE x == [task[c] EXCEPT !.pc = "appending", !.id = entries']
  <2>2. x \in Task /\ Ready(x)
    BY <1>0, <1>4, <2>1 DEF CopyFiles, Task, Ready, Adding
  <2>3. task' = [task EXCEPT ![c] = x]
    BY <1>4 DEF CopyFiles
  <2>4. task' \in [Client -> Task] /\ \A d \in Client : Ready(task[d])'
    <3> HIDE DEF x
    <3> QED
      BY <2>2, <2>3, TaskIs
  <2> QED
    BY <1>4, <2>1, <2>4 DEF CopyFiles
<1>5. ASSUME Adding(task[c]), NEW owner \in User \cup {None}
      PROVE  NewEntry(c, owner) \in Entry
  BY <1>0, <1>5 DEF NewEntry, Entry, Ready
<1>6. CASE AppendEntry(c)
  <2>1. queue' \in Seq(Entry)
    BY <1>5, <1>6 DEF AppendEntry, Adding
  <2>2. task' \in [Client -> Task] /\ \A d \in Client : Ready(task[d])'
    BY <1>6, RestingIs, TaskIs DEF AppendEntry, Rest
  <2> QED
    BY <1>6, <2>1, <2>2 DEF AppendEntry
<1>7. CASE ReadQueue(c)
  <2> DEFINE x == [task[c] EXCEPT !.pc = "writing", !.read = queue]
  <2>1. x \in Task /\ Ready(x)
    BY <1>0, <1>7 DEF ReadQueue, Task, Ready, Adding
  <2>2. task' = [task EXCEPT ![c] = x]
    BY <1>7 DEF ReadQueue
  <2>3. task' \in [Client -> Task] /\ \A d \in Client : Ready(task[d])'
    <3> HIDE DEF x
    <3> QED
      BY <2>1, <2>2, TaskIs
  <2> QED
    BY <1>7, <2>3 DEF ReadQueue
<1>8. CASE WriteQueue(c)
  <2>1. queue' \in Seq(Entry)
    <3>1. PICK owner \in {None, session} : queue' = Append(task[c].read, NewEntry(c, owner))
      BY <1>8 DEF WriteQueue
    <3>2. NewEntry(c, owner) \in Entry /\ task[c].read \in Seq(Entry)
      BY <1>0, <1>5, <1>8, <3>1 DEF WriteQueue, Adding, Task
    <3> QED
      BY <3>1, <3>2
  <2>2. task' \in [Client -> Task] /\ \A d \in Client : Ready(task[d])'
    BY <1>8, RestingIs, TaskIs DEF WriteQueue, Rest
  <2> QED
    BY <1>8, <2>1, <2>2 DEF WriteQueue
<1> QED
  BY <1>1, <1>2, <1>3, <1>4, <1>6, <1>7, <1>8

LEMMA QueueSteps ==
  ASSUME PhoneInv, NEW c \in Client,
         DropMissing(c) \/ SendEntry(c) \/ Answered(c) \/ Unanswered(c)
  PROVE  PhoneInv' /\ (ClientNext \/ UNCHANGED serverVars)
<1> USE DEF PhoneInv, PhoneTypes
<1>0. /\ task[c] \in Task /\ Ready(task[c])
      /\ task[c].pc \in {"loop", "waiting"} /\ Current(c) \in Entry
  BY CurrentIs DEF DropMissing, SendEntry, Answered, Unanswered
<1>1. Proceed(c) => task' \in [Client -> Task] /\ \A d \in Client : Ready(task[d])'
  BY <1>0, ProceedIs, TaskIs
<1>2. RemoveAndCleanup(Current(c).id) => queue' \in Seq(Entry) /\ copies' \subseteq Id
  BY WithoutKeeps DEF RemoveAndCleanup
<1>3. \A status \in {"pending", "failed"} :
        UpdateStatus(Current(c).id, status) => queue' \in Seq(Entry) /\ copies' \subseteq Id
  BY MarkedKeeps DEF UpdateStatus
<1>4. CASE DropMissing(c)
  BY <1>1, <1>2, <1>4 DEF DropMissing
<1>5. CASE SendEntry(c)
  <2> DEFINE x == [task[c] EXCEPT !.pc = "waiting"]
  <2>1. x \in Task /\ Ready(x)
    BY <1>0, <1>5 DEF SendEntry, Task, Ready, Adding
  <2>2. task' = [task EXCEPT ![c] = x]
    BY <1>5 DEF SendEntry
  <2>3. task' \in [Client -> Task] /\ \A d \in Client : Ready(task[d])'
    <3> HIDE DEF x
    <3> QED
      BY <2>1, <2>2, TaskIs
  <2>4. Current(c).job \in Job /\ Current(c).by \in User
    BY <1>0 DEF Entry
  <2>5. ClientNext
    BY <1>5, <2>4, SendIs DEF SendEntry
  <2> QED
    BY <1>5, <2>3, <2>5 DEF SendEntry
<1>6. CASE Answered(c)
  <2>1. queue' \in Seq(Entry) /\ copies' \subseteq Id
    BY <1>2, <1>3, <1>6 DEF Answered
  <2>2. session' \in User \cup {None}
    BY <1>6 DEF Answered
  <2>3. ClientNext
    BY <1>6 DEF Answered, ClientNext
  <2> QED
    BY <1>1, <1>6, <2>1, <2>2, <2>3 DEF Answered
<1>7. CASE Unanswered(c)
  <2>1. ClientNext
    BY <1>7 DEF Unanswered, ClientNext
  <2> QED
    BY <1>1, <1>3, <1>7, <2>1 DEF Unanswered
<1> QED
  BY <1>4, <1>5, <1>6, <1>7

\* A login counts against the bound of faults; the server has no part in it.
OnlyFaults ==
  /\ UNCHANGED <<application, disk, request, reply, second, erasureVars, saved,
                 shared, leftover>>
  /\ faults' \in 0 .. MaxFaults

LEMMA LoginStep ==
  ASSUME PhoneInv, ServerTypeOK, NEW u \in User, Login(u)
  PROVE  PhoneInv' /\ OnlyFaults
<1>1. faults' \in 0 .. MaxFaults
  BY ApplicationsAssumption DEF Login, ServerTypeOK
<1>2. \A c \in Client : WorkersOf(c) \subseteq User
  <2> SUFFICES ASSUME NEW c \in Client
               PROVE  WorkersOf(c) \subseteq User
    OBVIOUS
  <2>1. task[c].by \in User \cup {None} /\ task[c].todo \in Seq(Entry)
    BY DEF PhoneInv, PhoneTypes, Task
  <2>2. \A i \in DOMAIN task[c].todo : task[c].todo[i].by \in User
    <3>1. \A i \in DOMAIN task[c].todo : task[c].todo[i] \in Entry
      BY <2>1
    <3> QED
      BY <3>1 DEF Entry
  <2> QED
    BY <2>1, <2>2 DEF WorkersOf
<1>3. overlapped' \subseteq User
  BY <1>2 DEF Login, PhoneInv, PhoneTypes
<1> QED
  BY <1>1, <1>3 DEF Login, OnlyFaults, PhoneInv, PhoneTypes

LEMMA PhoneStep ==
  ASSUME PhoneInv, ServerTypeOK, [Next]_vars
  PROVE  PhoneInv' /\ (ServerStep \/ UNCHANGED serverVars \/ OnlyFaults)
<1> USE DEF PhoneInv, PhoneTypes
<1>1. CASE UNCHANGED vars
  BY <1>1 DEF vars, phoneVars
<1>2. CASE ServerNext /\ UNCHANGED phoneVars
  BY <1>2 DEF phoneVars, ServerStep
<1>3. ASSUME NEW c \in Client, ClientStep(c)
      PROVE  PhoneInv' /\ (ServerStep \/ UNCHANGED serverVars)
  BY <1>3, ScreenSteps, QueueSteps DEF ClientStep, ServerStep
<1>4. ASSUME NEW c \in Screen, NEW j \in Job, Submit(c, j)
      PROVE  PhoneInv' /\ (ServerStep \/ UNCHANGED serverVars)
  BY <1>4, ScreenSteps DEF ServerStep, Screen
<1>5. ASSUME NEW i \in DOMAIN queue, Discard(queue[i])
      PROVE  PhoneInv' /\ UNCHANGED serverVars
  <2>1. queue' \in Seq(Entry) /\ copies' \subseteq Id
    BY <1>5, WithoutKeeps DEF Discard, RemoveAndCleanup
  <2> QED
    BY <1>5, <2>1 DEF Discard
<1>6. ASSUME NEW todo \in Seq(Entry), todo # <<>>
      PROVE  Round(todo) \in Task
             /\ Ready(Round(todo))
  BY <1>6, RestingIs DEF Round, Resting, Task, Ready, Adding
<1>7. ASSUME NEW i \in DOMAIN queue, NEW c \in Screen, Retry(c, queue[i])
      PROVE  PhoneInv' /\ UNCHANGED serverVars
  <2>1. queue[i] \in Entry
    OBVIOUS
  <2>2. <<queue[i]>> \in Seq(Entry) /\ <<queue[i]>> # <<>>
    BY <2>1
  <2>3. task' \in [Client -> Task] /\ \A d \in Client : Ready(task[d])'
    BY <1>6, <1>7, <2>2, TaskIs DEF Retry, Screen
  <2> QED
    BY <1>7, <2>3 DEF Retry
<1>8. CASE StartSync
  <2>1. task' \in [Client -> Task] /\ \A d \in Client : Ready(task[d])'
    BY <1>6, <1>8, OwnEntriesAre, TaskIs, PendingApplicationsAssumption DEF StartSync
  <2> QED
    BY <1>8, <2>1 DEF StartSync
<1>9. CASE Logout
  BY <1>9 DEF Logout
<1>10. ASSUME NEW u \in User, Login(u)
       PROVE  PhoneInv' /\ OnlyFaults
  BY <1>10, LoginStep
<1>11. CASE CloseApp
  <2>1. task' \in [Client -> Task] /\ \A d \in Client : Ready(task[d])'
    BY <1>11, RestingIs DEF CloseApp
  <2>2. ClientNext
    BY <1>11 DEF CloseApp, ClientNext
  <2> QED
    BY <1>11, <2>1, <2>2 DEF CloseApp, ServerStep
<1> QED
  BY <1>1, <1>2, <1>3, <1>4, <1>5, <1>7, <1>8, <1>9, <1>10, <1>11 DEF Next

LEMMA PhoneAlways == Spec => [](PhoneInv /\ IInv)
<1>1. Init => PhoneInv /\ IInv
  BY InitPhone, InitIInv DEF Init
<1>2. ASSUME PhoneInv, IInv, [Next]_vars
      PROVE  PhoneInv' /\ IInv'
  <2>1. PhoneInv' /\ (ServerStep \/ UNCHANGED serverVars \/ OnlyFaults)
    BY <1>2, PhoneStep DEF IInv
  <2>2. CASE ServerStep \/ UNCHANGED serverVars
    BY <1>2, <2>1, <2>2, StepIInv
  <2>3. CASE OnlyFaults
    <3>1. ServerTypeOK' /\ second <= second'
      BY <1>2, <2>3 DEF OnlyFaults, erasureVars, IInv, ServerTypeOK, Second
    <3> QED
      BY <1>2, <2>1, <2>3, <3>1, QuietStep DEF OnlyFaults, erasureVars
  <2> QED
    BY <2>1, <2>2, <2>3
<1>3. PhoneInv /\ IInv /\ [Next]_vars => (PhoneInv /\ IInv)'
  BY <1>2
<1> QED
  BY <1>1, <1>3, PTL DEF Spec

\* The queue, the copies and what each screen works on keep their types, and so
\* does the server they talk to.
THEOREM PhoneTypeCorrect == Spec => []TypeOK
<1>1. PhoneInv /\ IInv => TypeOK
  BY DEF PhoneInv, PhoneTypes, IInv, TypeOK
<1> QED
  BY <1>1, PhoneAlways, PTL

\* With the phone as client, whatever it retries and whoever logs in, the rows
\* and the folder still agree.
THEOREM PhoneKeepsUploads == Spec => [](UploadsKept /\ NoOrphans)
<1>1. PhoneInv /\ IInv => UploadsKept /\ NoOrphans
  BY DEF IInv
<1> QED
  BY <1>1, PhoneAlways, PTL

-----------------------------------------------------------------------------
(* The queue: why an entry leaves it *)

\* What an entry's id stands for, whatever becomes of its status.
Tag(x) == <<x.id, x.owner, x.by, x.job>>
TagsOf(list) == {Tag(list[i]) : i \in DOMAIN list}
Tags ==
  TagsOf(queue)
    \cup UNION {TagsOf(task[c].todo) \cup TagsOf(task[c].read) : c \in Client}

\* An id stands for one entry, in the queue, in a list under way and in a list
\* that was read; the id of an entry still to be added stands for none.
IdsTell ==
  /\ \A g \in Tags : g[1] \in 1 .. entries
  /\ \A g, h \in Tags : g[1] = h[1] => g = h
  /\ \A c \in Client : Adding(task[c]) =>
       task[c].id \in 1 .. entries /\ \A g \in Tags : g[1] # task[c].id
  /\ \A c, d \in Client :
       Adding(task[c]) /\ Adding(task[d]) /\ task[c].id = task[d].id => c = d

LEMMA TagsOfLists ==
  /\ TagsOf(<<>>) = {}
  /\ \A e : TagsOf(<<e>>) = {Tag(e)}
  /\ \A s \in Seq(Entry), e \in Entry :
       TagsOf(Append(s, e)) = TagsOf(s) \cup {Tag(e)}
  /\ \A s \in Seq(Entry) : s # <<>> =>
       /\ Tag(Head(s)) \in TagsOf(s)
       /\ Len(s) # 1 => TagsOf(Tail(s)) \subseteq TagsOf(s)
<1>1. TagsOf(<<>>) = {}
  BY DEF TagsOf
<1>2. ASSUME NEW e PROVE TagsOf(<<e>>) = {Tag(e)}
  <2>1. DOMAIN <<e>> = {1} /\ <<e>>[1] = e
    OBVIOUS
  <2> QED
    BY <2>1 DEF TagsOf
<1>3. ASSUME NEW s \in Seq(Entry), NEW e \in Entry
      PROVE  TagsOf(Append(s, e)) = TagsOf(s) \cup {Tag(e)}
  <2> DEFINE t == Append(s, e)
  <2>1. /\ DOMAIN s = 1 .. Len(s) /\ DOMAIN t = 1 .. Len(s) + 1 /\ Len(s) \in Nat
        /\ t[Len(s) + 1] = e /\ \A i \in 1 .. Len(s) : t[i] = s[i]
    OBVIOUS
  <2>2. DOMAIN t = DOMAIN s \cup {Len(s) + 1}
    BY <2>1
  <2> HIDE DEF t
  <2>3. TagsOf(t) = TagsOf(s) \cup {Tag(e)}
    BY <2>1, <2>2 DEF TagsOf
  <2> QED
    BY <2>3 DEF t
<1>4. ASSUME NEW s \in Seq(Entry), s # <<>>
      PROVE  Tag(Head(s)) \in TagsOf(s)
             /\ (Len(s) # 1 => TagsOf(Tail(s)) \subseteq TagsOf(s))
  BY <1>4, HeadAndTail DEF TagsOf
<1> QED
  BY <1>1, <1>2, <1>3, <1>4

LEMMA TagsOfQueue ==
  ASSUME queue \in Seq(Entry)
  PROVE  /\ \A id : TagsOf(Without(id)) \subseteq TagsOf(queue)
         /\ \A id, status : status \in {"pending", "failed"} =>
              TagsOf(Marked(id, status)) \subseteq TagsOf(queue)
         /\ TagsOf(OwnEntries) \subseteq TagsOf(queue)
<1>1. ASSUME NEW id PROVE TagsOf(Without(id)) \subseteq TagsOf(queue)
  BY WithoutKeeps DEF TagsOf
<1>2. ASSUME NEW id, NEW status \in {"pending", "failed"}
      PROVE  TagsOf(Marked(id, status)) \subseteq TagsOf(queue)
  <2> DEFINE M == Marked(id, status)
  <2>1. /\ DOMAIN M = DOMAIN queue
        /\ \A i \in DOMAIN queue : Tag(M[i]) = Tag(queue[i])
    BY MarkedKeeps DEF Tag
  <2> HIDE DEF M
  <2>2. TagsOf(M) \subseteq TagsOf(queue)
    BY <2>1 DEF TagsOf
  <2> QED
    BY <2>2 DEF M
<1>3. TagsOf(OwnEntries) \subseteq TagsOf(queue)
  BY OwnEntriesAre DEF TagsOf
<1> QED
  BY <1>1, <1>2, <1>3

LEMMA TagsOfTasks ==
  ASSUME PhoneInv, NEW c \in Client, NEW x, task' = [task EXCEPT ![c] = x],
         NEW T, Tags \subseteq T, TagsOf(queue') \subseteq T,
         TagsOf(x.todo) \cup TagsOf(x.read) \subseteq T
  PROVE  Tags' \subseteq T
<1>1. ASSUME NEW d \in Client
      PROVE  TagsOf(task'[d].todo) \cup TagsOf(task'[d].read) \subseteq T
  <2>1. task'[d] = IF d = c THEN x ELSE task[d]
    BY DEF PhoneInv, PhoneTypes
  <2>2. TagsOf(task[d].todo) \cup TagsOf(task[d].read) \subseteq Tags
    BY DEF Tags
  <2> QED
    BY <2>1, <2>2
<1> QED
  BY <1>1 DEF Tags, TagsOf

\* Steps that add no entry.
LEMMA NoNewTag ==
  ASSUME IdsTell, Tags' \subseteq Tags, entries' = entries,
         \A c \in Client : Adding(task'[c]) => Adding(task[c]) /\ task'[c].id = task[c].id
  PROVE  IdsTell'
BY DEF IdsTell

LEMMA OneTaskTags ==
  ASSUME PhoneInv, IdsTell, NEW c \in Client, NEW x, task' = [task EXCEPT ![c] = x],
         entries' = entries, Adding(x) => Adding(task[c]) /\ x.id = task[c].id,
         TagsOf(queue') \subseteq Tags, TagsOf(x.todo) \cup TagsOf(x.read) \subseteq Tags
  PROVE  IdsTell'
<1>1. Tags' \subseteq Tags
  BY TagsOfTasks
<1>2. \A d \in Client : task'[d] = IF d = c THEN x ELSE task[d]
  BY DEF PhoneInv, PhoneTypes
<1> QED
  BY <1>1, <1>2, NoNewTag

LEMMA RestingTags ==
  /\ TagsOf(Resting.todo) = {} /\ TagsOf(Resting.read) = {} /\ ~Adding(Resting)
BY TagsOfLists DEF Resting, Adding

LEMMA TaskTags ==
  ASSUME NEW c \in Client
  PROVE  /\ TagsOf(task[c].todo) \subseteq Tags /\ TagsOf(task[c].read) \subseteq Tags
         /\ TagsOf(queue) \subseteq Tags
BY DEF Tags

LEMMA AddStep ==
  ASSUME PhoneInv, IdsTell, NEW c \in Client, Adding(task[c]), NEW owner \in User \cup {None},
         NEW list \in Seq(Entry), TagsOf(list) \subseteq Tags,
         queue' = Append(list, NewEntry(c, owner)), Rest(c), entries' = entries
  PROVE  IdsTell'
<1> DEFINE e == NewEntry(c, owner)
<1>1. e \in Entry /\ e.id = task[c].id
  BY DEF PhoneInv, PhoneTypes, Ready, Task, NewEntry, Entry
<1>2. Tag(e)[1] = task[c].id
  BY <1>1 DEF Tag
<1> HIDE DEF e
<1>3. TagsOf(queue') \subseteq Tags \cup {Tag(e)}
  BY <1>1, TagsOfLists DEF e
<1>4. Tags' \subseteq Tags \cup {Tag(e)}
  BY <1>3, RestingTags, TagsOfTasks DEF Rest
<1>5. \A d \in Client : Adding(task'[d]) => d # c /\ task'[d] = task[d]
  BY RestingTags DEF Rest, PhoneInv, PhoneTypes
<1> QED
  BY <1>2, <1>4, <1>5 DEF IdsTell


LEMMA IdsTellStep ==
  ASSUME PhoneInv, IdsTell, [Next]_vars
  PROVE  IdsTell'
<1> USE DEF PhoneInv, PhoneTypes
<1>1. \/ UNCHANGED <<queue, task, entries>>
      \/ \E c \in Client : ClientStep(c) \/ \E j \in Job : Submit(c, j)
      \/ \E i \in DOMAIN queue : Discard(queue[i])
      \/ \E i \in DOMAIN queue, c \in Client : Retry(c, queue[i])
      \/ StartSync \/ CloseApp
  BY DEF Next, vars, phoneVars, Screen, Logout, Login
<1>2. CASE UNCHANGED <<queue, task, entries>>
  BY <1>2, NoNewTag DEF Tags, TagsOf
<1>3. ASSUME NEW c \in Client, NEW j \in Job, Submit(c, j)
      PROVE  IdsTell'
  <2> DEFINE x == Submission(session, j)
  <2>1. ~Adding(x) /\ x.todo = Resting.todo /\ x.read = Resting.read
    BY DEF Submission, Resting, Adding
  <2>2. task' = [task EXCEPT ![c] = x] /\ queue' = queue /\ entries' = entries
    BY <1>3 DEF Submit
  <2> HIDE DEF x
  <2> QED
    BY <2>1, <2>2, OneTaskTags, RestingTags, TaskTags
<1>4. ASSUME NEW c \in Client, SubmitAnswered(c) \/ SubmitLost(c)
      PROVE  IdsTell'
  <2> DEFINE x == [task[c] EXCEPT !.pc = "copying"]
  <2>1. /\ queue' = queue /\ entries' = entries
        /\ task' = [task EXCEPT ![c] = Resting] \/ task' = [task EXCEPT ![c] = x]
    BY <1>4 DEF SubmitAnswered, SubmitLost, Rest
  <2>2. ~Adding(x) /\ x.todo = task[c].todo /\ x.read = task[c].read
    BY DEF Adding, Task
  <2> HIDE DEF x
  <2> QED
    BY <2>1, <2>2, OneTaskTags, RestingTags, TaskTags
<1>5. ASSUME NEW c \in Client, CopyFiles(c)
      PROVE  IdsTell'
  <2> DEFINE x == [task[c] EXCEPT !.pc = "appending", !.id = entries']
  <2>1. task' = [task EXCEPT ![c] = x] /\ queue' = queue /\ entries' = entries + 1
    BY <1>5 DEF CopyFiles
  <2>2. x.id = entries + 1 /\ x.todo = task[c].todo /\ x.read = task[c].read
    BY <2>1 DEF Task
  <2> HIDE DEF x
  <2>3. Tags' \subseteq Tags
    BY <2>1, <2>2, TagsOfTasks, TaskTags
  <2>4. \A d \in Client : task'[d] = IF d = c THEN x ELSE task[d]
    BY <2>1
  <2>5. entries \in Nat
    BY PendingApplicationsAssumption
  <2>6. /\ \A g \in Tags' : g[1] \in 1 .. entries
        /\ \A g, h \in Tags' : g[1] = h[1] => g = h
    BY <2>3 DEF IdsTell
  <2>7. \A d \in Client : d # c /\ Adding(task'[d]) => 
          task'[d].id \in 1 .. entries /\ \A g \in Tags' : g[1] # task'[d].id
    BY <2>3, <2>4 DEF IdsTell
  <2>8. \A g \in Tags' : g[1] # entries + 1
    BY <2>5, <2>6
  <2>9. \A d, e \in Client : Adding(task'[d]) /\ Adding(task'[e]) /\ task'[d].id = task'[e].id
          => d = e
    <3>1. \A d \in Client : d # c /\ Adding(task'[d]) => task'[d].id # entries + 1
      BY <2>5, <2>7
    <3> QED
      BY <2>2, <2>4, <3>1 DEF IdsTell
  <2>10. \A n \in 1 .. entries : n \in 1 .. entries'
    BY <2>1, <2>5
  <2>11. entries + 1 \in 1 .. entries'
    BY <2>1, <2>5
  <2> QED
    BY <2>2, <2>4, <2>6, <2>7, <2>8, <2>9, <2>10, <2>11 DEF IdsTell
<1>6. ASSUME NEW c \in Client, AppendEntry(c)
      PROVE  IdsTell'
  <2>1. Adding(task[c]) /\ Rest(c) /\ entries' = entries
        /\ queue' = Append(queue, NewEntry(c, session))
    BY <1>6 DEF AppendEntry, Adding
  <2> QED
    BY <2>1, AddStep, TaskTags
<1>7. ASSUME NEW c \in Client, ReadQueue(c)
      PROVE  IdsTell'
  <2> DEFINE x == [task[c] EXCEPT !.pc = "writing", !.read = queue]
  <2>1. task' = [task EXCEPT ![c] = x] /\ queue' = queue /\ entries' = entries
    BY <1>7 DEF ReadQueue
  <2>2. /\ x.todo = task[c].todo /\ x.read = queue /\ x.id = task[c].id
        /\ Adding(task[c])
    BY <1>7 DEF Task, Adding, ReadQueue
  <2> HIDE DEF x
  <2> QED
    BY <2>1, <2>2, OneTaskTags, TaskTags
<1>8. ASSUME NEW c \in Client, WriteQueue(c)
      PROVE  IdsTell'
  <2>1. PICK owner \in {None, session} : queue' = Append(task[c].read, NewEntry(c, owner))
    BY <1>8 DEF WriteQueue
  <2>2. /\ owner \in User \cup {None} /\ task[c].read \in Seq(Entry)
        /\ Adding(task[c]) /\ Rest(c) /\ entries' = entries
    BY <1>8 DEF WriteQueue, Adding, Task
  <2> QED
    BY <2>1, <2>2, AddStep, TaskTags
<1>9. ASSUME NEW c \in Client, task[c].pc \in {"loop", "waiting"}, Proceed(c),
             entries' = entries, TagsOf(queue') \subseteq TagsOf(queue)
      PROVE  IdsTell'
  <2>1. PICK x : /\ task' = [task EXCEPT ![c] = x]
                 /\ \/ x = Resting
                    \/ x.pc = "loop" /\ x.todo = Tail(task[c].todo) /\ x.read = task[c].read
                       /\ Len(task[c].todo) # 1
    BY <1>9, ProceedIs
  <2>2. task[c].todo \in Seq(Entry) /\ task[c].todo # <<>>
    BY <1>9 DEF Ready, Task
  <2>3. Len(task[c].todo) # 1 => TagsOf(Tail(task[c].todo)) \subseteq TagsOf(task[c].todo)
    BY <2>2, TagsOfLists
  <2> QED
    BY <1>9, <2>1, <2>3, OneTaskTags, RestingTags, TaskTags DEF Adding
<1>10. ASSUME NEW c \in Client, DropMissing(c) \/ Answered(c) \/ Unanswered(c)
       PROVE  IdsTell'
  <2>1. TagsOf(queue') \subseteq TagsOf(queue)
    BY <1>10, TagsOfQueue
       DEF DropMissing, Answered, Unanswered, RemoveAndCleanup, UpdateStatus
  <2> QED
    BY <1>9, <1>10, <2>1 DEF DropMissing, Answered, Unanswered
<1>11. ASSUME NEW c \in Client, SendEntry(c)
       PROVE  IdsTell'
  <2> DEFINE x == [task[c] EXCEPT !.pc = "waiting"]
  <2>1. task' = [task EXCEPT ![c] = x] /\ queue' = queue /\ entries' = entries
    BY <1>11 DEF SendEntry
  <2>2. ~Adding(x) /\ x.todo = task[c].todo /\ x.read = task[c].read
    BY DEF Adding, Task
  <2> HIDE DEF x
  <2> QED
    BY <2>1, <2>2, OneTaskTags, TaskTags
<1>12. ASSUME NEW i \in DOMAIN queue, Discard(queue[i])
       PROVE  IdsTell'
  <2>1. TagsOf(queue') \subseteq TagsOf(queue) /\ UNCHANGED <<task, entries>>
    BY <1>12, TagsOfQueue DEF Discard, RemoveAndCleanup
  <2> DEFINE Under == UNION {TagsOf(task[c].todo) \cup TagsOf(task[c].read) : c \in Client}
  <2>2. Under' = Under
    BY <2>1
  <2>3. Tags = TagsOf(queue) \cup Under /\ Tags' = TagsOf(queue') \cup Under'
    BY DEF Tags
  <2> HIDE DEF Under
  <2>4. Tags' \subseteq Tags
    BY <2>1, <2>2, <2>3
  <2> QED
    BY <2>1, <2>4, NoNewTag
<1>13. ASSUME NEW c \in Client, NEW todo, TagsOf(todo) \subseteq Tags, queue' = queue,
              task' = [task EXCEPT ![c] = Round(todo)],
              entries' = entries
       PROVE  IdsTell'
  <2> DEFINE x == Round(todo)
  <2>1. ~Adding(x) /\ x.todo = todo /\ x.read = Resting.read
    BY DEF Round, Resting, Adding
  <2> HIDE DEF x
  <2> QED
    BY <1>13, <2>1, OneTaskTags, RestingTags, TaskTags DEF x
<1>14. ASSUME NEW i \in DOMAIN queue, NEW c \in Client, Retry(c, queue[i])
       PROVE  IdsTell'
  <2>1. TagsOf(<<queue[i]>>) \subseteq Tags
    <3>1. Tag(queue[i]) \in TagsOf(queue)
      BY DEF TagsOf
    <3> QED
      BY <3>1, TagsOfLists, TaskTags
  <2> QED
    BY <1>13, <1>14, <2>1 DEF Retry
<1>15. CASE StartSync
  <2>1. TagsOf(OwnEntries) \subseteq Tags
    BY TagsOfQueue DEF Tags
  <2> QED
    BY <1>13, <1>15, <2>1, PendingApplicationsAssumption DEF StartSync
<1>16. CASE CloseApp
  <2>1. task' = [c \in Client |-> Resting] /\ queue' = queue /\ entries' = entries
    BY <1>16 DEF CloseApp
  <2>2. Tags' \subseteq Tags
    BY <2>1, RestingTags DEF Tags, TagsOf
  <2> QED
    BY <2>1, <2>2, NoNewTag, RestingTags
<1> QED
  BY <1>1, <1>2, <1>3, <1>4, <1>5, <1>6, <1>7, <1>8, <1>10, <1>11, <1>12, <1>14, <1>15,
     <1>16 DEF ClientStep


Awaits(x) == x.pc \in {"submitting", "waiting"}
Delivered(e) == \E u \in User : Applied(u, e.job) /\ application[u][e.job].by = e.by

\* A client that gets an answer awaits one, to the one request it has, and a
\* list under way awaits the answer to its first entry.
Answers ==
  /\ \A r \in Request : request[r].pc = "idle" => request[r].client = None
  /\ \A r, q \in Request :
       request[r].client # None /\ request[q].client = request[r].client => r = q
  /\ \A c \in Client, r \in Request : request[r].client = c =>
       /\ Awaits(task[c]) /\ reply[c] = "none"
       /\ task[c].pc = "waiting" =>
            request[r].job = Current(c).job /\ request[r].by = Current(c).by
  /\ \A c \in Client : reply[c] # "none" => Awaits(task[c])
  /\ \A c \in Client :
       reply[c] = "201" /\ task[c].pc = "waiting" => Delivered(Current(c))

\* Rows stay and keep their documents' worker.
RowsStay ==
  \A u \in User, j \in Job :
    Applied(u, j) => application'[u][j] # None /\ application'[u][j].by = application[u][j].by

LEMMA DeliveredStays ==
  ASSUME RowsStay, NEW e \in Entry, Delivered(e)
  PROVE  \E u \in User : application'[u][e.job] # None /\ application'[u][e.job].by = e.by
BY DEF RowsStay, Delivered, Entry

\* Steps in which nobody is told anything new.
LEMMA CalmStep ==
  ASSUME PhoneInv, Answers, RowsStay,
         \A r \in Request :
           \/ request'[r].client = None
           \/ /\ request'[r].pc # "idle" /\ request'[r].client = request[r].client
              /\ request'[r].job = request[r].job /\ request'[r].by = request[r].by,
         \A c \in Client : reply'[c] \in {reply[c], "none"},
         \A c \in Client :
           \/ ~Awaits(task[c])
           \/ task'[c].pc = task[c].pc /\ task'[c].todo = task[c].todo
           \/ reply'[c] = "none" /\ \A r \in Request : request'[r].client # c
  PROVE  Answers'
<1> DEFINE Same(c) == task'[c].pc = task[c].pc /\ task'[c].todo = task[c].todo
           Free(c) == reply'[c] = "none" /\ \A r \in Request : request'[r].client # c
<1>0. None \notin Client
  BY ApplicationsAssumption
<1>1. \A c \in Client : Same(c) \/ Free(c)
  BY <1>0 DEF Answers
<1>2. \A c \in Client : Same(c) => Current(c)' = Current(c) /\ (Awaits(task[c])' <=> Awaits(task[c]))
  BY DEF Current, Awaits
<1>3. \A c \in Client : task[c].pc = "waiting" => Current(c) \in Entry
  BY CurrentIs
<1> HIDE DEF Same, Free
<1>4. ASSUME NEW c \in Client, NEW r \in Request, request'[r].client = c
      PROVE  /\ Awaits(task[c])' /\ reply'[c] = "none"
             /\ task'[c].pc = "waiting" =>
                  request'[r].job = Current(c)'.job /\ request'[r].by = Current(c)'.by
  <2>1. Same(c)
    BY <1>1, <1>4 DEF Free
  <2>2. request[r].client = c /\ request'[r].job = request[r].job /\ request'[r].by = request[r].by
    BY <1>0, <1>4
  <2>3. task'[c].pc = task[c].pc
    BY <2>1 DEF Same
  <2> QED
    BY <1>2, <2>1, <2>2, <2>3 DEF Answers
<1>5. ASSUME NEW c \in Client, reply'[c] # "none"
      PROVE  Awaits(task[c])'
  <2>1. Same(c) /\ reply[c] # "none"
    BY <1>1, <1>5 DEF Free
  <2> QED
    BY <1>2, <2>1 DEF Answers
<1>6. ASSUME NEW c \in Client, reply'[c] = "201", task'[c].pc = "waiting"
      PROVE  Delivered(Current(c))'
  <2>1. Same(c) /\ reply[c] = "201"
    BY <1>1, <1>6 DEF Free
  <2>2. task[c].pc = "waiting"
    BY <1>6, <2>1 DEF Same
  <2>3. Delivered(Current(c)) /\ Current(c)' = Current(c) /\ Current(c) \in Entry
    BY <1>2, <1>3, <2>1, <2>2 DEF Answers
  <2> QED
    BY <2>3, DeliveredStays DEF Delivered, Applied
<1>7. /\ \A r \in Request : request'[r].pc = "idle" => request'[r].client = None
      /\ \A r, q \in Request :
           request'[r].client # None /\ request'[q].client = request'[r].client => r = q
  BY DEF Answers
<1> QED
  BY <1>4, <1>5, <1>6, <1>7 DEF Answers

\* The end of a request; the client that waits for it is told.
LEMMA RespondStep ==
  ASSUME PhoneInv, IInv, Answers, RowsStay, NEW r \in Request, NEW answer \in Answer,
         request[r].pc # "idle", Respond(r, answer), task' = task,
         answer = "201" =>
           /\ application'[request[r].user][request[r].job] # None
           /\ application'[request[r].user][request[r].job].by = request[r].by
  PROVE  Answers'
<1>0. None \notin Client /\ Idle.client = None /\ Idle.pc = "idle"
  BY ApplicationsAssumption DEF Idle
<1>1. \A q \in Request : request'[q] = IF q = r THEN Idle ELSE request[q]
  BY DEF Respond, IInv, ServerTypeOK
<1>2. \A c \in Client : reply'[c] = IF c = request[r].client THEN answer ELSE reply[c]
  BY <1>0 DEF Respond, IInv, ServerTypeOK
<1>3. \A c \in Client : Current(c)' = Current(c) /\ (Awaits(task[c])' <=> Awaits(task[c]))
  BY DEF Current, Awaits
<1>4. ASSUME NEW c \in Client, reply'[c] # "none"
      PROVE  Awaits(task[c])'
  BY <1>2, <1>3, <1>4 DEF Answers
<1>5. ASSUME NEW c \in Client, reply'[c] = "201", task[c].pc = "waiting"
      PROVE  Delivered(Current(c))'
  <2>1. Current(c) \in Entry
    BY <1>5, CurrentIs
  <2>2. CASE c = request[r].client
    <3>1. answer = "201" /\ request[r].user \in User
      BY <1>2, <1>5, <2>2 DEF IInv, Requests
    <3>2. request[r].job = Current(c).job /\ request[r].by = Current(c).by
      BY <1>5, <2>2 DEF Answers
    <3> QED
      BY <1>3, <3>1, <3>2 DEF Delivered, Applied
  <2>3. CASE c # request[r].client
    <3>1. Delivered(Current(c))
      BY <1>2, <1>5, <2>3 DEF Answers
    <3> QED
      BY <1>3, <2>1, <3>1, DeliveredStays DEF Delivered, Applied
  <2> QED
    BY <2>2, <2>3
<1>6. ASSUME NEW c \in Client, NEW q \in Request, request'[q].client = c
      PROVE  /\ Awaits(task[c])' /\ reply'[c] = "none"
             /\ task'[c].pc = "waiting" =>
                  request'[q].job = Current(c)'.job /\ request'[q].by = Current(c)'.by
  <2>1. q # r /\ request[q].client = c /\ request'[q] = request[q]
    BY <1>0, <1>1, <1>6
  <2>2. c # request[r].client
    BY <1>0, <2>1 DEF Answers
  <2> QED
    BY <1>2, <1>3, <2>1, <2>2 DEF Answers
<1>7. /\ \A q \in Request : request'[q].pc = "idle" => request'[q].client = None
      /\ \A p, q \in Request :
           request'[p].client # None /\ request'[q].client = request'[p].client => p = q
  BY <1>0, <1>1 DEF Answers
<1> QED
  BY <1>4, <1>5, <1>6, <1>7 DEF Answers

\* A client sends an entry, or an application, and awaits its answer.
LEMMA SendStep ==
  ASSUME PhoneInv, IInv, Answers, NEW c \in Client, ~Awaits(task[c]),
         NEW u, NEW j, NEW by, Send(c, u, j, by),
         NEW x, task' = [task EXCEPT ![c] = x], Awaits(x),
         x.pc = "waiting" => Head(x.todo).job = j /\ Head(x.todo).by = by
  PROVE  Answers'
<1>0. None \notin Client /\ Idle.client = None
  BY ApplicationsAssumption DEF Idle
<1>1. \A d \in Client : task'[d] = IF d = c THEN x ELSE task[d]
  BY DEF PhoneInv, PhoneTypes
<1>2. reply[c] = "none" /\ \A r \in Request : request[r].client # c
  BY DEF Answers
<1>3. \A d \in Client : d # c => Current(d)' = Current(d) /\ Awaits(task[d])' = Awaits(task[d])
  BY <1>1 DEF Current
<1>4. Awaits(task[c])' /\ Current(c)' = Head(x.todo)
  BY <1>1 DEF Current
<1>5. application' = application /\ \A e : Delivered(e)' <=> Delivered(e)
  BY DEF Send, Open, TurnAway, Unauthorized, Delivered, Applied
<1>6. ASSUME NEW r \in Request, Open(r, "mobile", u, j, by, c)
      PROVE  Answers'
  <2>1. \A q \in Request : q # r => request'[q] = request[q]
    BY <1>6 DEF Open, IInv, ServerTypeOK
  <2>2. /\ request'[r].pc = "checking" /\ request'[r].client = c
        /\ request'[r].job = j /\ request'[r].by = by
    BY <1>6 DEF Open, Idle, IInv, ServerTypeOK
  <2>3. reply' = reply
    BY <1>6 DEF Open
  <2>4. ASSUME NEW d \in Client, NEW q \in Request, request'[q].client = d
        PROVE  /\ Awaits(task[d])' /\ reply'[d] = "none"
               /\ task'[d].pc = "waiting" =>
                    request'[q].job = Current(d)'.job /\ request'[q].by = Current(d)'.by
    <3>1. CASE q = r
      BY <1>1, <1>2, <1>4, <2>2, <2>3, <2>4, <3>1
    <3>2. CASE q # r
      <4>1. request[q].client = d /\ d # c /\ request'[q] = request[q]
        BY <1>2, <2>1, <2>4, <3>2
      <4> QED
        BY <1>1, <1>3, <2>3, <4>1 DEF Answers
    <3> QED
      BY <3>1, <3>2
  <2>5. /\ \A q \in Request : request'[q].pc = "idle" => request'[q].client = None
        /\ \A p, q \in Request :
             request'[p].client # None /\ request'[q].client = request'[p].client => p = q
    BY <1>2, <2>1, <2>2 DEF Answers
  <2>6. /\ \A d \in Client : reply'[d] # "none" => Awaits(task[d])'
        /\ \A d \in Client :
             reply'[d] = "201" /\ task'[d].pc = "waiting" => Delivered(Current(d))'
    BY <1>1, <1>2, <1>3, <1>4, <1>5, <2>3 DEF Answers, Delivered, Applied
  <2> QED
    BY <2>4, <2>5, <2>6 DEF Answers
<1>7. ASSUME TurnAway(u, j, c) \/ Unauthorized(c)
      PROVE  Answers'
  <2>1. /\ request' = request
        /\ \E answer \in {"400", "401"} : reply' = [reply EXCEPT ![c] = answer]
    BY <1>7 DEF TurnAway, Unauthorized
  <2>2. reply'[c] \in {"400", "401"} /\ \A d \in Client : d # c => reply'[d] = reply[d]
    BY <2>1 DEF IInv, ServerTypeOK
  <2>3. ASSUME NEW d \in Client, NEW q \in Request, request'[q].client = d
        PROVE  /\ Awaits(task[d])' /\ reply'[d] = "none"
               /\ task'[d].pc = "waiting" =>
                    request'[q].job = Current(d)'.job /\ request'[q].by = Current(d)'.by
    <3>1. d # c /\ request[q].client = d
      BY <1>2, <2>1, <2>3
    <3> QED
      BY <1>1, <1>3, <2>1, <2>2, <3>1 DEF Answers
  <2>4. \A d \in Client : reply'[d] # "none" => Awaits(task[d])'
    BY <1>3, <1>4, <2>2 DEF Answers
  <2>5. ASSUME NEW d \in Client, reply'[d] = "201", task'[d].pc = "waiting"
        PROVE  Delivered(Current(d))'
    <3>1. d # c /\ reply[d] = "201" /\ task[d].pc = "waiting"
      BY <1>1, <2>2, <2>5
    <3>2. Delivered(Current(d)) /\ Current(d)' = Current(d)
      BY <1>3, <3>1 DEF Answers
    <3> QED
      BY <1>5, <3>2 DEF Delivered, Applied
  <2> QED
    BY <2>1, <2>3, <2>4, <2>5 DEF Answers
<1> QED
  BY <1>6, <1>7 DEF Send


LEMMA ServerAnswers ==
  ASSUME PhoneInv, IInv, Answers, ServerNext, UNCHANGED phoneVars
  PROVE  Answers'
<1>0. /\ task' = task /\ None \notin Client
      /\ Idle.client = None /\ Idle.pc = "idle"
  BY ApplicationsAssumption DEF phoneVars, Idle
<1>1. application' = application => RowsStay
  BY DEF RowsStay, Applied
<1>2. ASSUME RowsStay, reply' = reply,
             \A r \in Request :
               \/ request'[r].client = None
               \/ /\ request'[r].pc # "idle" /\ request'[r].client = request[r].client
                  /\ request'[r].job = request[r].job /\ request'[r].by = request[r].by
      PROVE  Answers'
  BY <1>0, <1>2, CalmStep
<1>3. \A r \in Request :
        \/ request[r].client = None
        \/ request[r].pc # "idle"
  BY DEF Answers
<1>4. ASSUME NEW r \in Request, NEW u \in PortalUser, NEW j \in Job, PortalApply(r, u, j)
      PROVE  Answers'
  <2>1. \A q \in Request : IF q = r THEN request'[q].client = None ELSE request'[q] = request[q]
    BY <1>4 DEF PortalApply, Open, Idle, IInv, ServerTypeOK
  <2>2. RowsStay /\ reply' = reply
    BY <1>1, <1>4 DEF PortalApply, Open
  <2> QED
    BY <1>2, <1>3, <2>1, <2>2
<1>5. ASSUME NEW r \in Request, Refuse(r)
      PROVE  Answers'
  <2>1. RowsStay /\ request[r].pc # "idle" /\ Respond(r, "400")
    BY <1>1, <1>5 DEF Refuse
  <2> QED
    BY <1>0, <2>1, RespondStep DEF Answer
<1>6. ASSUME NEW r \in Request, SaveFiles(r)
      PROVE  Answers'
  <2>1. \A q \in Request :
          /\ request'[q].client = request[q].client /\ request'[q].job = request[q].job
          /\ request'[q].by = request[q].by
          /\ request[q].pc # "idle" => request'[q].pc # "idle"
    BY <1>6 DEF SaveFiles, IInv, ServerTypeOK, RequestState
  <2>2. RowsStay /\ reply' = reply
    BY <1>1, <1>6 DEF SaveFiles
  <2> QED
    BY <1>2, <1>3, <2>1, <2>2
<1>7. ASSUME NEW r \in Request, Commit(r)
      PROVE  Answers'
  <2> DEFINE u == request[r].user
             j == request[r].job
  <2>1. u \in User /\ j \in Job /\ request[r].pc = "saved"
    BY <1>7 DEF Commit, IInv, Requests
  <2>2. CASE Applied(u, j)
    <3>1. RowsStay /\ Respond(r, "400")
      BY <1>1, <1>7, <2>2 DEF Commit
    <3> QED
      BY <1>0, <2>1, <3>1, RespondStep DEF Answer
  <2>3. CASE ~Applied(u, j)
    <3> DEFINE row == [cv |-> request[r].cv, supporting |-> request[r].supporting,
                       by |-> request[r].by]
    <3>1. application' = [application EXCEPT ![u][j] = row] /\ Respond(r, "201")
      BY <1>7, <2>3 DEF Commit
    <3>2. row \in Row
      BY <1>7, <2>1 DEF Commit, IInv, Requests, ServerTypeOK, RequestState, Row
    <3>3. row # None /\ row.by = request[r].by
      BY <3>2, NoneAssumption
    <3> HIDE DEF row
    <3>4. \A v \in User, k \in Job :
            application'[v][k] = IF v = u /\ k = j THEN row ELSE application[v][k]
      BY <2>1, <3>1 DEF IInv, ServerTypeOK
    <3>5. RowsStay
      BY <2>3, <3>4 DEF RowsStay, Applied
    <3>6. application'[u][j] # None /\ application'[u][j].by = request[r].by
      BY <2>1, <3>3, <3>4
    <3> QED
      BY <1>0, <2>1, <3>1, <3>5, <3>6, RespondStep DEF Answer
  <2> QED
    BY <2>2, <2>3
<1>8. ASSUME NEW r \in Request, Crash(r)
      PROVE  Answers'
  <2>1. \A q \in Request : IF q = r THEN request'[q].client = None ELSE request'[q] = request[q]
    BY <1>0, <1>8 DEF Crash, IInv, ServerTypeOK
  <2>2. RowsStay /\ reply' = reply
    BY <1>1, <1>8 DEF Crash
  <2> QED
    BY <1>2, <1>3, <2>1, <2>2
<1>9. ASSUME NEW u \in ErasableUser, EraseFiles(u) \/ EraserDies(u)
      PROVE  Answers'
  <2>1. RowsStay /\ request' = request /\ reply' = reply
    BY <1>1, <1>9 DEF EraseFiles, EraserDies
  <2> QED
    BY <1>2, <1>3, <2>1
<1>11. ASSUME NEW u \in ErasableUser, EraseRows(u)
      PROVE  Answers'
  <2>1. ASSUME NEW v \in User, NEW k \in Job, Applied(v, k)
        PROVE  application'[v][k] # None /\ application'[v][k].by = application[v][k].by
    <3> DEFINE row == Nulled(application[v][k])
    <3>1. application[v][k] \in Row
      BY <2>1 DEF Applied, IInv, ServerTypeOK
    <3>2. row \in Row /\ row.by = application[v][k].by
      BY <3>1, NulledIs
    <3>3. application'[v][k] = row \/ application'[v][k] = application[v][k]
      BY <1>11, <2>1 DEF EraseRows, Applied, IInv, ServerTypeOK
    <3> HIDE DEF row
    <3> QED
      BY <2>1, <3>2, <3>3, NoneAssumption DEF Applied
  <2>2. RowsStay
    BY <2>1 DEF RowsStay
  <2>3. request' = request /\ reply' = reply
    BY <1>11 DEF EraseRows
  <2> QED
    BY <1>2, <1>3, <2>2, <2>3
<1>10. CASE Tick
  <2>1. RowsStay /\ request' = request /\ reply' = reply
    BY <1>1, <1>10 DEF Tick
  <2> QED
    BY <1>2, <1>3, <2>1
<1> QED
  BY <1>4, <1>5, <1>6, <1>7, <1>8, <1>9, <1>10, <1>11 DEF ServerNext


\* A client that no longer waits, or never did.
LEMMA PhoneCalm ==
  ASSUME PhoneInv, IInv, Answers, NEW c \in Client, application' = application,
         \A d \in Client : d # c => task'[d] = task[d],
         \/ UNCHANGED <<request, reply>> /\ ~Awaits(task[c])
         \/ reply[c] # "none" /\ ReadReply(c)
         \/ reply[c] = "none" /\ GiveUp(c)
  PROVE  Answers'
<1>0. None \notin Client
  BY ApplicationsAssumption
<1>1. RowsStay
  BY DEF RowsStay, Applied
<1>2. \A r \in Request :
        \/ request'[r].client = None
        \/ /\ request'[r].pc # "idle" /\ request'[r].client = request[r].client
           /\ request'[r].job = request[r].job /\ request'[r].by = request[r].by
  BY <1>0 DEF ReadReply, GiveUp, Answers, IInv, ServerTypeOK, RequestState
<1>3. \A d \in Client : reply'[d] \in {reply[d], "none"}
  BY DEF ReadReply, GiveUp, IInv, ServerTypeOK
<1>4. \/ ~Awaits(task[c])
      \/ reply'[c] = "none" /\ \A r \in Request : request'[r].client # c
  BY <1>0 DEF ReadReply, GiveUp, Answers, IInv, ServerTypeOK, RequestState
<1> QED
  BY <1>1, <1>2, <1>3, <1>4, CalmStep

LEMMA TaskOf ==
  ASSUME PhoneInv, NEW c \in Client, NEW x, task' = [task EXCEPT ![c] = x]
  PROVE  \A d \in Client : task'[d] = IF d = c THEN x ELSE task[d]
BY DEF PhoneInv, PhoneTypes

LEMMA AnswersStep ==
  ASSUME PhoneInv, IInv, Answers, [Next]_vars
  PROVE  Answers'
<1> USE DEF Awaits
<1>1. CASE UNCHANGED <<application, request, reply, task>>
  BY <1>1 DEF Answers, Current, Delivered, Applied
<1>2. CASE ServerNext /\ UNCHANGED phoneVars
  BY <1>2, ServerAnswers
<1>3. ASSUME NEW c \in Client, NEW j \in Job, Submit(c, j)
      PROVE  Answers'
  <2> DEFINE x == Submission(session, j)
  <2>1. task' = [task EXCEPT ![c] = x] /\ task[c].pc = "idle" /\ Send(c, session, j, session)
    BY <1>3 DEF Submit
  <2>2. x.pc = "submitting"
    BY DEF Submission, Resting
  <2> HIDE DEF x
  <2> QED
    BY <2>1, <2>2, SendStep
<1>4. ASSUME NEW c \in Client, SubmitAnswered(c) \/ SubmitLost(c)
      PROVE  Answers'
  <2>1. \E x : task' = [task EXCEPT ![c] = x]
    <3> DEFINE y == [task[c] EXCEPT !.pc = "copying"]
    <3>1. task' = [task EXCEPT ![c] = Resting] \/ task' = [task EXCEPT ![c] = y]
      BY <1>4 DEF SubmitAnswered, SubmitLost, Rest
    <3> HIDE DEF y
    <3> QED
      BY <3>1
  <2>2. /\ application' = application
        /\ \/ reply[c] # "none" /\ ReadReply(c)
           \/ reply[c] = "none" /\ GiveUp(c)
    BY <1>4 DEF SubmitAnswered, SubmitLost, ReadReply, GiveUp
  <2> QED
    BY <2>1, <2>2, PhoneCalm, TaskOf
<1>5. ASSUME NEW c \in Client, CopyFiles(c) \/ AppendEntry(c) \/ ReadQueue(c) \/ WriteQueue(c)
      PROVE  Answers'
  <2>1. ~Awaits(task[c]) /\ UNCHANGED serverVars
    BY <1>5 DEF CopyFiles, AppendEntry, ReadQueue, WriteQueue
  <2>2. \A d \in Client : d # c => task'[d] = task[d]
    BY <1>5 DEF CopyFiles, AppendEntry, ReadQueue, WriteQueue, Rest, PhoneInv, PhoneTypes
  <2> QED
    BY <2>1, <2>2, PhoneCalm DEF serverVars
<1>6. ASSUME NEW c \in Client, DropMissing(c) \/ Answered(c) \/ Unanswered(c)
      PROVE  Answers'
  <2>1. task[c].pc \in {"loop", "waiting"} /\ Proceed(c)
    BY <1>6 DEF DropMissing, Answered, Unanswered
  <2>2. \A d \in Client : d # c => task'[d] = task[d]
    BY <2>1, ProceedIs, TaskOf
  <2>3. /\ application' = application
        /\ \/ UNCHANGED <<request, reply>> /\ ~Awaits(task[c])
           \/ reply[c] # "none" /\ ReadReply(c)
           \/ reply[c] = "none" /\ GiveUp(c)
    BY <1>6 DEF DropMissing, Answered, Unanswered, ReadReply, GiveUp, serverVars
  <2> QED
    BY <2>2, <2>3, PhoneCalm
<1>7. ASSUME NEW c \in Client, SendEntry(c)
      PROVE  Answers'
  <2> DEFINE x == [task[c] EXCEPT !.pc = "waiting"]
  <2>1. /\ task' = [task EXCEPT ![c] = x] /\ task[c].pc = "loop"
        /\ Send(c, session, Current(c).job, Current(c).by)
    BY <1>7 DEF SendEntry
  <2>2. x.pc = "waiting" /\ x.todo = task[c].todo
    BY DEF PhoneInv, PhoneTypes, Task
  <2> HIDE DEF x
  <2>3. ~Awaits(task[c]) /\ Awaits(x)
    BY <2>1, <2>2 DEF Awaits
  <2>4. Head(x.todo) = Current(c)
    BY <2>2 DEF Current
  <2> HIDE DEF Awaits, PhoneInv, PhoneTypes
  <2>5. PICK j, by : /\ Send(c, session, j, by)
                     /\ Head(x.todo).job = j /\ Head(x.todo).by = by
    BY <2>1, <2>4
  <2>6. x.pc = "waiting" => Head(x.todo).job = j /\ Head(x.todo).by = by
    BY <2>5
  <2>7. /\ PhoneInv /\ IInv /\ Answers /\ c \in Client /\ ~Awaits(task[c])
        /\ Send(c, session, j, by) /\ task' = [task EXCEPT ![c] = x] /\ Awaits(x)
    BY <2>1, <2>3, <2>5
  <2> QED
    BY <2>6, <2>7, SendStep, Zenon
<1>8. ASSUME NEW c \in Client, NEW todo, task[c].pc = "idle", UNCHANGED serverVars,
             task' = [task EXCEPT ![c] = Round(todo)]
      PROVE  Answers'
  <2>1. \A d \in Client : d # c => task'[d] = task[d]
    BY <1>8 DEF PhoneInv, PhoneTypes
  <2> QED
    BY <1>8, <2>1, PhoneCalm DEF serverVars
<1>9. ASSUME NEW i \in DOMAIN queue, NEW c \in Client, Retry(c, queue[i])
      PROVE  Answers'
  BY <1>8, <1>9 DEF Retry
<1>10. CASE StartSync
  BY <1>8, <1>10, PendingApplicationsAssumption DEF StartSync
<1>11. CASE CloseApp
  <2>1. \A r \in Request : request'[r].client = None /\ request'[r].pc = request[r].pc
    BY <1>11 DEF CloseApp, ClientsDie, IInv, ServerTypeOK, RequestState
  <2>2. \A c \in Client : reply'[c] = "none"
    BY <1>11 DEF CloseApp, ClientsDie
  <2>3. None \notin Client
    BY ApplicationsAssumption
  <2> QED
    BY <2>1, <2>2, <2>3 DEF Answers
<1>12. \/ UNCHANGED <<application, request, reply, task>>
       \/ ServerNext /\ UNCHANGED phoneVars
       \/ \E c \in Client : ClientStep(c) \/ \E j \in Job : Submit(c, j)
       \/ \E i \in DOMAIN queue, c \in Client : Retry(c, queue[i])
       \/ StartSync \/ CloseApp
  BY DEF Next, vars, serverVars, phoneVars, Screen, Logout, Login, Discard
<1> QED
  BY <1>1, <1>2, <1>3, <1>4, <1>5, <1>6, <1>7, <1>9, <1>10, <1>11, <1>12 DEF ClientStep

LEMMA InitQueue ==
  ASSUME Init
  PROVE  IdsTell /\ Answers
<1>1. Tags = {}
  BY TagsOfLists, RestingTags DEF Init, Tags
<1>2. \A c \in Client : ~Adding(task[c]) /\ ~Awaits(task[c])
  BY RestingTags DEF Init, Resting, Awaits
<1>3. Idle.client = None /\ None \notin Client
  BY ApplicationsAssumption DEF Idle
<1> QED
  BY <1>1, <1>2, <1>3 DEF IdsTell, Answers, Init, ServerInit

QueueInv == PhoneInv /\ IInv /\ IdsTell /\ Answers

LEMMA QueueAlways == Spec => []QueueInv
<1>1. Init => IdsTell /\ Answers
  BY InitQueue
<1>2. PhoneInv /\ IInv /\ IdsTell /\ Answers /\ [Next]_vars => IdsTell' /\ Answers'
  BY IdsTellStep, AnswersStep
<1>3. PhoneInv /\ IInv /\ IdsTell /\ Answers => QueueInv
  BY DEF QueueInv
<1> QED
  BY <1>1, <1>2, <1>3, PhoneAlways, PTL DEF Spec


LEMMA LeaveStep ==
  ASSUME QueueInv, [Next]_vars, NEW i \in DOMAIN queue,
         \A k \in DOMAIN queue' : queue'[k].id # queue[i].id
  PROVE  \/ queue[i].id \notin copies \/ Delivered(queue[i]) \/ Discard(queue[i])
         \/ \E c \in Client : WriteQueue(c)
<1> DEFINE e == queue[i]
           Goal == \/ e.id \notin copies \/ Delivered(e) \/ Discard(e)
                   \/ \E c \in Client : WriteQueue(c)
<1> USE DEF QueueInv, PhoneInv, PhoneTypes
<1>1. queue' # queue
  OBVIOUS
<1>2. ASSUME NEW x, Tag(x) \in Tags, queue' = Without(x.id)
      PROVE  x.id = e.id /\ x.owner = e.owner /\ x.by = e.by /\ x.job = e.job
  <2>1. e.id = x.id
    BY <1>2, WithoutKeeps
  <2>2. Tag(e) \in Tags
    BY DEF Tags, TagsOf
  <2>3. Tag(e)[1] = e.id /\ Tag(x)[1] = x.id
    BY DEF Tag
  <2>4. Tag(x) = Tag(e)
    BY <1>2, <2>1, <2>2, <2>3 DEF IdsTell
  <2> QED
    BY <2>4 DEF Tag
<1>3. ASSUME NEW id, NEW status \in {"pending", "failed"}
      PROVE  queue' # Marked(id, status)
  BY MarkedKeeps
<1>4. ASSUME NEW c \in Client, task[c].pc \in {"loop", "waiting"}
      PROVE  Tag(Current(c)) \in Tags
  <2>1. task[c].todo \in Seq(Entry) /\ task[c].todo # <<>>
    BY <1>4 DEF Ready, Task
  <2>2. Tag(Current(c)) \in TagsOf(task[c].todo)
    BY <2>1, TagsOfLists DEF Current
  <2> QED
    BY <2>2, TaskTags
<1>5. ASSUME NEW k \in DOMAIN queue, Discard(queue[k])
      PROVE  Goal
  <2>1. Tag(queue[k]) \in Tags /\ queue' = Without(queue[k].id)
    BY <1>5 DEF Tags, TagsOf, Discard, RemoveAndCleanup
  <2>2. e.id = queue[k].id /\ e.owner = queue[k].owner
    BY <1>2, <2>1
  <2> QED
    BY <1>5, <2>2 DEF Discard
<1>6. ASSUME NEW c \in Client, DropMissing(c)
      PROVE  Goal
  <2>1. queue' = Without(Current(c).id) /\ Current(c).id \notin copies
    BY <1>6 DEF DropMissing, RemoveAndCleanup
  <2>2. Tag(Current(c)) \in Tags
    BY <1>4, <1>6 DEF DropMissing
  <2> QED
    BY <1>2, <2>1, <2>2
<1>7. ASSUME NEW c \in Client, Answered(c)
      PROVE  Goal
  <2>1. reply[c] = "201" /\ task[c].pc = "waiting" /\ queue' = Without(Current(c).id)
    BY <1>3, <1>7 DEF Answered, RemoveAndCleanup, UpdateStatus
  <2>2. e.by = Current(c).by /\ e.job = Current(c).job
    BY <1>2, <1>4, <2>1
  <2>3. Delivered(Current(c))
    BY <2>1 DEF Answers
  <2> QED
    BY <2>2, <2>3 DEF Delivered
<1>8. ASSUME NEW c \in Client, Unanswered(c)
      PROVE  FALSE
  BY <1>3, <1>8 DEF Unanswered, UpdateStatus
<1>9. ASSUME NEW c \in Client, AppendEntry(c)
      PROVE  FALSE
  <2>1. queue' = Append(queue, NewEntry(c, session))
    BY <1>9 DEF AppendEntry
  <2>2. i \in DOMAIN queue' /\ queue'[i] = queue[i]
    BY <2>1
  <2> QED
    BY <2>2
<1>10. \/ \E k \in DOMAIN queue : Discard(queue[k])
       \/ \E c \in Client : \/ DropMissing(c) \/ Answered(c) \/ Unanswered(c)
                            \/ AppendEntry(c) \/ WriteQueue(c)
  BY <1>1 DEF Next, vars, phoneVars, ClientStep, Submit, SubmitAnswered, SubmitLost, CopyFiles,
     ReadQueue, SendEntry, Retry, StartSync, Logout, Login, CloseApp
<1> QED
  BY <1>5, <1>6, <1>7, <1>8, <1>9, <1>10

\* An entry leaves the queue discarded by its worker, without its files, or
\* with an application of its documents on the server: a late or lost answer, a
\* second tap on Retry or another worker's session never drops it.  (Writing a
\* list read before a login is the exception the property names.)
THEOREM EntriesLeaveForAReason == Spec => LeavesWhenDelivered
<1> DEFINE Leaves ==
      \A i \in DOMAIN queue :
        LET e == queue[i]
        IN (\A k \in DOMAIN queue' : queue'[k].id # e.id) =>
             \/ e.id \notin copies
             \/ \E u \in User : /\ Applied(u, e.job)
                                /\ application[u][e.job].by = e.by
             \/ Discard(e)
             \/ \E c \in Client : WriteQueue(c)
<1>1. QueueInv /\ [Next]_vars => Leaves
  BY LeaveStep DEF Delivered
<1>2. Spec => [][Leaves]_vars
  <2> HIDE DEF Leaves
  <2> QED
    BY <1>1, QueueAlways, PTL DEF Spec
<1> QED
  BY <1>2 DEF LeavesWhenDelivered

-----------------------------------------------------------------------------
(* A shared phone: whose documents are sent under whose name *)

InHand(w) == session = None \/ w = session \/ w \in overlapped
Theirs(list) ==
  \A i \in DOMAIN list :
    list[i].owner \in {None, list[i].by} \/ list[i].by \in overlapped

\* What a client works on is the logged-in worker's, or of one whose work was
\* under way at a login; so is, once sent, what the server has.
OwnHands ==
  /\ \A c \in Client : \A w \in WorkersOf(c) : InHand(w)
  /\ Theirs(queue)
  /\ \A c \in Client : Theirs(task[c].read)

OwnRows ==
  /\ \A r \in Request : request[r].pc # "idle" =>
       request[r].by \in {request[r].user} \cup overlapped
  /\ \A u \in User, j \in Job :
       Applied(u, j) => application[u][j].by \in {u} \cup overlapped

\* Requests that go on keep their worker, and so do rows.
LEMMA OwnRowsCalm ==
  ASSUME OwnRows, overlapped \subseteq overlapped', application' = application,
         \A r \in Request :
           \/ request'[r].pc = "idle"
           \/ /\ request[r].pc # "idle" /\ request'[r].by = request[r].by
              /\ request'[r].user = request[r].user
  PROVE  OwnRows'
BY DEF OwnRows, Applied

LEMMA OwnRowsOpen ==
  ASSUME IInv, OwnRows, overlapped \subseteq overlapped', NEW r \in Request, NEW via,
         NEW u, NEW j, NEW by, NEW client, Open(r, via, u, j, by, client),
         by \in {u} \cup overlapped
  PROVE  OwnRows'
<1>1. /\ application' = application
      /\ request'[r].by = by /\ request'[r].user = u
      /\ \A q \in Request : q # r => request'[q] = request[q]
  BY DEF Open, Idle, IInv, ServerTypeOK
<1> QED
  BY <1>1 DEF OwnRows, Applied

LEMMA OwnRowsServer ==
  ASSUME IInv, OwnRows, overlapped' = overlapped, ServerNext
  PROVE  OwnRows'
<1>0. Idle.pc = "idle"
  BY DEF Idle
<1>1. ASSUME NEW r \in Request, NEW u \in PortalUser, NEW j \in Job, PortalApply(r, u, j)
      PROVE  OwnRows'
  BY <1>1, OwnRowsOpen DEF PortalApply
<1>2. ASSUME NEW r \in Request, Refuse(r) \/ Crash(r) \/ SaveFiles(r)
      PROVE  OwnRows'
  <2>1. application' = application
    BY <1>2 DEF Refuse, Crash, SaveFiles
  <2>2. \A q \in Request :
          \/ request'[q].pc = "idle"
          \/ /\ request[q].pc # "idle" /\ request'[q].by = request[q].by
             /\ request'[q].user = request[q].user
    <3>1. CASE Refuse(r) \/ Crash(r)
      <4>1. request' = [request EXCEPT ![r] = Idle]
        BY <3>1 DEF Refuse, Respond, Crash
      <4>2. \A q \in Request : request'[q] = IF q = r THEN Idle ELSE request[q]
        BY <4>1 DEF IInv, ServerTypeOK
      <4> QED
        BY <1>0, <4>2
    <3>2. CASE SaveFiles(r)
      <4>1. \A q \in Request :
              /\ request'[q].by = request[q].by /\ request'[q].user = request[q].user
              /\ q # r => request'[q] = request[q]
        BY <3>2 DEF SaveFiles, IInv, ServerTypeOK, RequestState
      <4> QED
        BY <3>2, <4>1 DEF SaveFiles
    <3> QED
      BY <1>2, <3>1, <3>2
  <2> QED
    BY <2>1, <2>2, OwnRowsCalm
<1>3. ASSUME NEW r \in Request, Commit(r)
      PROVE  OwnRows'
  <2> DEFINE u == request[r].user
             j == request[r].job
  <2>1. /\ u \in User /\ j \in Job /\ request[r].pc = "saved"
        /\ request' = [request EXCEPT ![r] = Idle]
    BY <1>3 DEF Commit, Respond, IInv, Requests
  <2>2. \A q \in Request : request'[q] = IF q = r THEN Idle ELSE request[q]
    BY <2>1 DEF IInv, ServerTypeOK
  <2>3. CASE Applied(u, j)
    BY <1>0, <1>3, <2>2, <2>3, OwnRowsCalm DEF Commit
  <2>4. CASE ~Applied(u, j)
    <3> DEFINE row == [cv |-> request[r].cv, supporting |-> request[r].supporting,
                       by |-> request[r].by]
    <3>1. application' = [application EXCEPT ![u][j] = row]
      BY <1>3, <2>4 DEF Commit
    <3>2. row.by \in {u} \cup overlapped
      BY <2>1 DEF OwnRows
    <3> HIDE DEF row
    <3>3. \A v \in User, k \in Job :
            application'[v][k] = IF v = u /\ k = j THEN row ELSE application[v][k]
      BY <2>1, <3>1 DEF IInv, ServerTypeOK
    <3> HIDE DEF u, j
    <3> QED
      BY <1>0, <2>2, <3>2, <3>3 DEF OwnRows, Applied
  <2> QED
    BY <2>3, <2>4
<1>4. ASSUME NEW u \in ErasableUser, EraseFiles(u) \/ EraserDies(u)
      PROVE  OwnRows'
  BY <1>4 DEF EraseFiles, EraserDies, OwnRows, Applied
<1>5. ASSUME NEW u \in ErasableUser, EraseRows(u)
      PROVE  OwnRows'
  <2>1. ASSUME NEW v \in User, NEW k \in Job, Applied(v, k)'
        PROVE  Applied(v, k) /\ application'[v][k].by = application[v][k].by
    <3>1. CASE v = u /\ k \in found[u]
      <4>1. Applied(v, k) /\ application[v][k] \in Row
        BY <3>1 DEF IInv, Cleared, ServerTypeOK, Applied
      <4>2. application'[v][k] = Nulled(application[v][k])
        BY <1>5, <3>1 DEF EraseRows, IInv, ServerTypeOK
      <4> QED
        BY <4>1, <4>2, NulledIs
    <3>2. CASE v # u \/ k \notin found[v]
      <4>1. application'[v][k] = application[v][k]
        BY <1>5, <3>2 DEF EraseRows, IInv, ServerTypeOK
      <4> QED
        BY <2>1, <4>1 DEF Applied
    <3> QED
      BY <3>1, <3>2
  <2>2. request' = request
    BY <1>5 DEF EraseRows
  <2> QED
    BY <2>1, <2>2 DEF OwnRows
<1>6. CASE Tick
  BY <1>6 DEF Tick, OwnRows, Applied
<1> QED
  BY <1>1, <1>2, <1>3, <1>4, <1>5, <1>6 DEF ServerNext

\* The phone's steps, as the server's rows see them.
LEMMA OwnRowsStep ==
  ASSUME PhoneInv, IInv, OwnHands, OwnRows, [Next]_vars
  PROVE  OwnRows'
<1>1. CASE /\ UNCHANGED <<application, request>>
           /\ overlapped \subseteq overlapped'
  BY <1>1 DEF OwnRows, Applied
<1>2. CASE ServerNext /\ UNCHANGED phoneVars
  BY <1>2, OwnRowsServer DEF phoneVars
<1>3. ASSUME NEW c \in Client, NEW u \in User, NEW j, NEW by, Send(c, u, j, by),
             by \in {u} \cup overlapped, overlapped' = overlapped
      PROVE  OwnRows'
  <2>1. CASE \E r \in Request : Open(r, "mobile", u, j, by, c)
    BY <1>3, <2>1, OwnRowsOpen
  <2>2. CASE TurnAway(u, j, c) \/ Unauthorized(c)
    <3>1. UNCHANGED <<application, request>>
      BY <2>2 DEF TurnAway, Unauthorized
    <3> QED
      BY <1>1, <1>3, <3>1
  <2> QED
    BY <1>3, <2>1, <2>2 DEF Send
<1>4. ASSUME NEW c \in Client, NEW j, NEW by, Send(c, None, j, by), overlapped' = overlapped
      PROVE  OwnRows'
  <2>1. UNCHANGED <<application, request>>
    BY <1>4 DEF Send, Unauthorized
  <2> QED
    BY <1>1, <1>4, <2>1
<1>5. ASSUME NEW c \in Client, NEW j \in Job, Submit(c, j)
      PROVE  OwnRows'
  <2>1. session \in User /\ Send(c, session, j, session) /\ overlapped' = overlapped
    BY <1>5, PendingApplicationsAssumption DEF Submit
  <2> QED
    BY <1>3, <2>1
<1>6. ASSUME NEW c \in Client, SendEntry(c)
      PROVE  OwnRows'
  <2>1. /\ Send(c, session, Current(c).job, Current(c).by)
        /\ overlapped' = overlapped /\ task[c].pc = "loop"
    BY <1>6 DEF SendEntry
  <2>2. /\ Current(c) = task[c].todo[1] /\ 1 \in DOMAIN task[c].todo
        /\ Current(c).by \in User
    <3>1. task[c].todo \in Seq(Entry) /\ task[c].todo # <<>> /\ Current(c) \in Entry
      BY <2>1, CurrentIs DEF PhoneInv, PhoneTypes, Ready, Task
    <3> QED
      BY <3>1, HeadAndTail DEF Current, Entry
  <2>3. Current(c).by \in WorkersOf(c)
    BY <2>2, ApplicationsAssumption DEF WorkersOf
  <2>4. InHand(Current(c).by)
    BY <2>3 DEF OwnHands
  <2>5. CASE session = None
    <3>1. Send(c, None, Current(c).job, Current(c).by)
      BY <2>1, <2>5
    <3> QED
      BY <1>4, <2>1, <3>1
  <2>6. CASE session \in User
    <3>1. Current(c).by \in {session} \cup overlapped
      BY <2>4, <2>6, ApplicationsAssumption DEF InHand
    <3> QED
      BY <1>3, <2>1, <2>6, <3>1
  <2> QED
    BY <2>5, <2>6 DEF PhoneInv, PhoneTypes
<1>7. ASSUME NEW c \in Client, overlapped' = overlapped, ReadReply(c) \/ GiveUp(c)
      PROVE  OwnRows'
  <2>1. /\ application' = application
        /\ \A r \in Request : /\ request'[r].pc = request[r].pc
                              /\ request'[r].by = request[r].by
                              /\ request'[r].user = request[r].user
    BY <1>7 DEF ReadReply, GiveUp, IInv, ServerTypeOK, RequestState
  <2> QED
    BY <1>7, <2>1 DEF OwnRows, Applied
<1>8. CASE CloseApp
  <2>1. /\ application' = application /\ overlapped' = overlapped
        /\ \A r \in Request : /\ request'[r].pc = request[r].pc
                              /\ request'[r].by = request[r].by
                              /\ request'[r].user = request[r].user
    BY <1>8 DEF CloseApp, ClientsDie, IInv, ServerTypeOK, RequestState
  <2> QED
    BY <2>1 DEF OwnRows, Applied
<1>9. ASSUME NEW c \in Client,
             SubmitAnswered(c) \/ SubmitLost(c) \/ Answered(c) \/ Unanswered(c)
      PROVE  OwnRows'
  <2>1. overlapped' = overlapped /\ (ReadReply(c) \/ GiveUp(c))
    BY <1>9 DEF SubmitAnswered, SubmitLost, Answered, Unanswered
  <2> QED
    BY <1>7, <2>1
<1>10. \/ UNCHANGED <<application, request>> /\ overlapped \subseteq overlapped'
       \/ ServerNext /\ UNCHANGED phoneVars
       \/ \E c \in Client : \/ \E j \in Job : Submit(c, j)
                            \/ SendEntry(c) \/ SubmitAnswered(c) \/ SubmitLost(c)
                            \/ Answered(c) \/ Unanswered(c)
       \/ CloseApp
  BY DEF Next, vars, serverVars, phoneVars, Screen, ClientStep, CopyFiles, AppendEntry,
     ReadQueue, WriteQueue, DropMissing, Retry, Discard, StartSync, Logout, Login
<1> QED
  BY <1>1, <1>2, <1>5, <1>6, <1>8, <1>9, <1>10

-----------------------------------------------------------------------------
\* The queue's lists stay their workers'.
LEMMA TheirsKept ==
  ASSUME queue \in Seq(Entry), Theirs(queue)
  PROVE  /\ \A id : Theirs(Without(id))
         /\ \A id, status : status \in {"pending", "failed"} => Theirs(Marked(id, status))
<1>1. ASSUME NEW id PROVE Theirs(Without(id))
  BY WithoutKeeps DEF Theirs
<1>2. ASSUME NEW id, NEW status \in {"pending", "failed"}
      PROVE  Theirs(Marked(id, status))
  <2> DEFINE M == Marked(id, status)
  <2>1. /\ DOMAIN M = DOMAIN queue
        /\ \A i \in DOMAIN queue : M[i].owner = queue[i].owner /\ M[i].by = queue[i].by
    BY MarkedKeeps
  <2> HIDE DEF M
  <2>2. Theirs(M)
    BY <2>1 DEF Theirs
  <2> QED
    BY <2>2 DEF M
<1> QED
  BY <1>1, <1>2

LEMMA TheirsAdded ==
  ASSUME PhoneInv, OwnHands, NEW c \in Client, Adding(task[c]),
         NEW owner \in {None, session}, NEW list \in Seq(Entry), Theirs(list)
  PROVE  Theirs(Append(list, NewEntry(c, owner)))
<1> DEFINE e == NewEntry(c, owner)
           t == Append(list, e)
<1>1. e.owner = owner /\ e.by = task[c].by
  BY DEF NewEntry
<1>2. task[c].by \in WorkersOf(c)
  BY ApplicationsAssumption DEF WorkersOf, PhoneInv, Ready
<1>3. e.owner \in {None, e.by} \/ e.by \in overlapped
  BY <1>1, <1>2 DEF OwnHands, InHand
<1>4. /\ DOMAIN t = 1 .. Len(list) + 1 /\ DOMAIN list = 1 .. Len(list) /\ Len(list) \in Nat
      /\ t[Len(list) + 1] = e /\ \A i \in 1 .. Len(list) : t[i] = list[i]
  OBVIOUS
<1> HIDE DEF e, t
<1>5. \A i \in DOMAIN t : i = Len(list) + 1 \/ i \in DOMAIN list
  BY <1>4
<1>6. Theirs(t)
  BY <1>3, <1>4, <1>5 DEF Theirs
<1> QED
  BY <1>6 DEF e, t

\* Steps of one client that has no other worker's documents in hand after it.
LEMMA HandsOf ==
  ASSUME PhoneInv, OwnHands, NEW c \in Client, NEW x, task' = [task EXCEPT ![c] = x],
         session' \in {session, None}, overlapped' = overlapped, Theirs(queue'),
         Theirs(x.read),
         x.by = None \/ InHand(x.by),
         \A i \in DOMAIN x.todo : InHand(x.todo[i].by)
  PROVE  OwnHands'
<1>1. \A d \in Client : task'[d] = IF d = c THEN x ELSE task[d]
  BY TaskOf
<1>2. \A w : InHand(w) => InHand(w)'
  BY DEF InHand
<1>3. ASSUME NEW d \in Client, NEW w \in WorkersOf(d)'
      PROVE  InHand(w)'
  <2>1. CASE d = c
    <3>1. (w = x.by /\ w # None) \/ (\E i \in DOMAIN x.todo : w = x.todo[i].by)
      BY <1>1, <1>3, <2>1 DEF WorkersOf
    <3> QED
      BY <1>2, <3>1
  <2>2. CASE d # c
    <3>1. w \in WorkersOf(d)
      BY <1>1, <1>3, <2>2 DEF WorkersOf
    <3> QED
      BY <1>2, <3>1 DEF OwnHands
  <2> QED
    BY <2>1, <2>2
<1>4. \A list : Theirs(list) => \A i \in DOMAIN list :
        list[i].owner \in {None, list[i].by} \/ list[i].by \in overlapped'
  BY DEF Theirs
<1>5. \A d \in Client : Theirs(task'[d].read)
  BY <1>1 DEF OwnHands
<1> QED
  BY <1>3, <1>4, <1>5 DEF OwnHands, Theirs

LEMMA RestingHands ==
  Resting.by = None /\ Resting.todo = <<>> /\ Resting.read = <<>> /\ Theirs(<<>>)
BY DEF Resting, Theirs

\* What a client has in hand while it waits, copies or goes through its list.
LEMMA HandsAre ==
  ASSUME PhoneInv, OwnHands, NEW c \in Client
  PROVE  /\ task[c].by = None \/ InHand(task[c].by)
         /\ \A i \in DOMAIN task[c].todo : InHand(task[c].todo[i].by)
         /\ Theirs(task[c].read)
<1>1. task[c].by = None \/ task[c].by \in WorkersOf(c)
  BY DEF WorkersOf
<1>2. \A i \in DOMAIN task[c].todo : task[c].todo[i].by \in WorkersOf(c)
  <2>1. task[c].todo \in Seq(Entry)
    BY DEF PhoneInv, PhoneTypes, Task
  <2>2. \A i \in DOMAIN task[c].todo : task[c].todo[i] \in Entry
    BY <2>1
  <2>3. \A i \in DOMAIN task[c].todo : task[c].todo[i].by # None
    BY <2>2, ApplicationsAssumption DEF Entry
  <2> QED
    BY <2>3 DEF WorkersOf
<1> QED
  BY <1>1, <1>2 DEF OwnHands

LEMMA OwnHandsStep ==
  ASSUME PhoneInv, OwnHands, [Next]_vars
  PROVE  OwnHands'
<1>1. CASE UNCHANGED <<queue, task, overlapped>> /\ session' \in {session, None}
  BY <1>1 DEF OwnHands, WorkersOf, InHand, Theirs
<1>0. queue \in Seq(Entry) /\ session \in User \cup {None} /\ Theirs(queue)
  BY DEF PhoneInv, PhoneTypes, OwnHands
<1>2. ASSUME NEW c \in Client, NEW j \in Job, Submit(c, j)
      PROVE  OwnHands'
  <2> DEFINE x == Submission(session, j)
  <2>1. x.by = session /\ x.todo = <<>> /\ x.read = <<>>
    BY DEF Submission, Resting
  <2>2. /\ task' = [task EXCEPT ![c] = x]
        /\ UNCHANGED <<session, queue, overlapped>>
    BY <1>2 DEF Submit
  <2> HIDE DEF x
  <2>3. InHand(x.by) /\ \A i \in DOMAIN x.todo : FALSE
    BY <2>1 DEF InHand
  <2> QED
    BY <1>0, <2>1, <2>2, <2>3, RestingHands, HandsOf
<1>3. ASSUME NEW c \in Client, NEW x, task' = [task EXCEPT ![c] = x],
             x.by = task[c].by /\ x.todo = task[c].todo,
             x.read = task[c].read \/ x.read = queue,
             UNCHANGED <<session, queue, overlapped>>
      PROVE  OwnHands'
  BY <1>0, <1>3, HandsAre, HandsOf
<1>4. ASSUME NEW c \in Client, task' = [task EXCEPT ![c] = Resting],
             session' \in {session, None}, overlapped' = overlapped, Theirs(queue')
      PROVE  OwnHands'
  <2>1. \A i \in DOMAIN Resting.todo : InHand(Resting.todo[i].by)
    BY RestingHands
  <2> QED
    BY <1>4, <2>1, RestingHands, HandsOf
<1>5. ASSUME NEW c \in Client,
             \/ SubmitAnswered(c) \/ SubmitLost(c) \/ CopyFiles(c)
             \/ ReadQueue(c) \/ SendEntry(c)
      PROVE  OwnHands'
  <2>1. UNCHANGED <<session, queue, overlapped>>
    BY <1>5 DEF SubmitAnswered, SubmitLost, CopyFiles, ReadQueue, SendEntry
  <2>2. CASE task' = [task EXCEPT ![c] = Resting]
    BY <1>0, <1>4, <2>1, <2>2
  <2>3. CASE \E x : /\ task' = [task EXCEPT ![c] = x]
                    /\ x.by = task[c].by /\ x.todo = task[c].todo
                    /\ x.read = task[c].read \/ x.read = queue
    BY <1>3, <2>1, <2>3
  <2>4. task[c] \in Task
    BY DEF PhoneInv, PhoneTypes
  <2>5. CASE SubmitAnswered(c)
    BY <2>2, <2>5 DEF SubmitAnswered, Rest
  <2>6. CASE SubmitLost(c)
    <3> DEFINE x == [task[c] EXCEPT !.pc = "copying"]
    <3>1. x.by = task[c].by /\ x.todo = task[c].todo /\ x.read = task[c].read
      BY <2>4 DEF Task
    <3>2. task' = [task EXCEPT ![c] = x] \/ task' = [task EXCEPT ![c] = Resting]
      BY <2>6 DEF SubmitLost, Rest
    <3> HIDE DEF x
    <3> QED
      BY <2>2, <2>3, <3>1, <3>2
  <2>7. CASE CopyFiles(c)
    <3> DEFINE x == [task[c] EXCEPT !.pc = "appending", !.id = entries']
    <3>1. x.by = task[c].by /\ x.todo = task[c].todo /\ x.read = task[c].read
      BY <2>4 DEF Task
    <3>2. task' = [task EXCEPT ![c] = x]
      BY <2>7 DEF CopyFiles
    <3> HIDE DEF x
    <3> QED
      BY <2>3, <3>1, <3>2
  <2>8. CASE ReadQueue(c)
    <3> DEFINE x == [task[c] EXCEPT !.pc = "writing", !.read = queue]
    <3>1. x.by = task[c].by /\ x.todo = task[c].todo /\ x.read = queue
      BY <2>4 DEF Task
    <3>2. task' = [task EXCEPT ![c] = x]
      BY <2>8 DEF ReadQueue
    <3> HIDE DEF x
    <3> QED
      BY <2>3, <3>1, <3>2
  <2>9. CASE SendEntry(c)
    <3> DEFINE x == [task[c] EXCEPT !.pc = "waiting"]
    <3>1. x.by = task[c].by /\ x.todo = task[c].todo /\ x.read = task[c].read
      BY <2>4 DEF Task
    <3>2. task' = [task EXCEPT ![c] = x]
      BY <2>9 DEF SendEntry
    <3> HIDE DEF x
    <3> QED
      BY <2>3, <3>1, <3>2
  <2> QED
    BY <1>5, <2>5, <2>6, <2>7, <2>8, <2>9
<1>6. ASSUME NEW c \in Client, AppendEntry(c) \/ WriteQueue(c)
      PROVE  OwnHands'
  <2>1. /\ Adding(task[c]) /\ UNCHANGED <<session, overlapped>>
        /\ task' = [task EXCEPT ![c] = Resting]
        /\ \E owner \in {None, session} : \E list \in {queue, task[c].read} :
             queue' = Append(list, NewEntry(c, owner))
    BY <1>6 DEF AppendEntry, WriteQueue, Adding, Rest
  <2>2. task[c].read \in Seq(Entry)
    BY DEF PhoneInv, PhoneTypes, Task
  <2>3. Theirs(queue')
    BY <1>0, <2>1, <2>2, HandsAre, TheirsAdded
  <2> QED
    BY <1>4, <2>1, <2>3
<1>7. ASSUME NEW c \in Client, DropMissing(c) \/ Answered(c) \/ Unanswered(c)
      PROVE  OwnHands'
  <2>1. /\ task[c].pc \in {"loop", "waiting"} /\ Proceed(c)
        /\ overlapped' = overlapped /\ session' \in {session, None}
    BY <1>7 DEF DropMissing, Answered, Unanswered
  <2>2. Theirs(queue')
    BY <1>0, <1>7, TheirsKept
       DEF DropMissing, Answered, Unanswered, RemoveAndCleanup, UpdateStatus
  <2>3. CASE Len(task[c].todo) = 1
    BY <1>4, <2>1, <2>2, <2>3 DEF Proceed, Rest
  <2>4. CASE Len(task[c].todo) # 1
    <3> DEFINE x == [task[c] EXCEPT !.pc = "loop", !.todo = Tail(task[c].todo)]
    <3>1. task' = [task EXCEPT ![c] = x]
      BY <2>1, <2>4 DEF Proceed, PhoneInv, PhoneTypes
    <3>2. /\ x.by = task[c].by /\ x.read = task[c].read
          /\ x.todo = Tail(task[c].todo)
      BY DEF PhoneInv, PhoneTypes, Task
    <3> HIDE DEF x
    <3>3. task[c].todo \in Seq(Entry) /\ task[c].todo # <<>>
      BY <2>1 DEF PhoneInv, PhoneTypes, Ready, Task
    <3>4. \A i \in DOMAIN x.todo :
            i + 1 \in DOMAIN task[c].todo /\ x.todo[i] = task[c].todo[i + 1]
      BY <2>4, <3>2, <3>3, HeadAndTail
    <3>5. \A i \in DOMAIN x.todo : InHand(x.todo[i].by)
      BY <3>4, HandsAre
    <3> QED
      BY <2>1, <2>2, <3>1, <3>2, <3>5, HandsAre, HandsOf
  <2> QED
    BY <2>3, <2>4
<1>8. ASSUME NEW i \in DOMAIN queue, Discard(queue[i])
      PROVE  OwnHands'
  <2>1. Theirs(queue') /\ UNCHANGED <<session, task, overlapped>>
    BY <1>0, <1>8, TheirsKept DEF Discard, RemoveAndCleanup
  <2> QED
    BY <2>1 DEF OwnHands, WorkersOf, InHand, Theirs
<1>9. ASSUME NEW c \in Client, NEW todo, task' = [task EXCEPT ![c] = Round(todo)],
             session # None, UNCHANGED <<session, queue, overlapped>>,
             \A i \in DOMAIN todo :
               \E k \in DOMAIN queue : todo[i] = queue[k] /\ queue[k].owner = session
      PROVE  OwnHands'
  <2> DEFINE x == Round(todo)
  <2>1. x.by = None /\ x.todo = todo /\ x.read = <<>>
    BY DEF Round, Resting
  <2> HIDE DEF x
  <2>2. \A i \in DOMAIN x.todo : InHand(x.todo[i].by)
    BY <1>0, <1>9, <2>1 DEF Theirs, InHand
  <2> QED
    BY <1>0, <1>9, <2>1, <2>2, RestingHands, HandsOf DEF x
<1>10. ASSUME NEW i \in DOMAIN queue, NEW c \in Client, Retry(c, queue[i])
       PROVE  OwnHands'
  <2>1. /\ task' = [task EXCEPT ![c] = Round(<<queue[i]>>)]
        /\ session # None /\ queue[i].owner = session
        /\ UNCHANGED <<session, queue, overlapped>>
    BY <1>10 DEF Retry
  <2>2. \A k \in DOMAIN <<queue[i]>> : <<queue[i]>>[k] = queue[i]
    OBVIOUS
  <2> QED
    BY <1>9, <2>1, <2>2
<1>11. CASE StartSync
  <2>1. /\ task' = [task EXCEPT ![Sync] = Round(OwnEntries)]
        /\ OwnEntries # <<>> /\ Sync \in Client
        /\ UNCHANGED <<session, queue, overlapped>>
    BY <1>11, PendingApplicationsAssumption DEF StartSync
  <2> DEFINE P == {i \in DOMAIN queue : session # None /\ queue[i].owner = session}
  <2>2. OwnEntries = Where(queue, P)
    BY DEF OwnEntries
  <2>3. \A i \in P : i \in DOMAIN queue /\ session # None /\ queue[i].owner = session
    OBVIOUS
  <2> HIDE DEF P
  <2>4. /\ Where(queue, P) \in Seq(Entry)
        /\ \A k \in DOMAIN Where(queue, P) :
             \E i \in DOMAIN queue \cap P : Where(queue, P)[k] = queue[i]
    BY <1>0, WhereTakes
  <2>5. \A k \in DOMAIN OwnEntries :
          \E i \in DOMAIN queue : /\ OwnEntries[k] = queue[i]
                                  /\ session # None /\ queue[i].owner = session
    BY <2>2, <2>3, <2>4
  <2>6. 1 \in DOMAIN OwnEntries
    BY <2>1, <2>2, <2>4, HeadAndTail
  <2>7. session # None
    BY <2>5, <2>6
  <2> DEFINE x == Round(OwnEntries)
  <2>8. x.by = None /\ x.todo = OwnEntries /\ x.read = <<>>
    BY DEF Round, Resting
  <2>9. task' = [task EXCEPT ![Sync] = x] /\ UNCHANGED <<session, queue, overlapped>>
    BY <2>1
  <2> HIDE DEF x
  <2>10. \A i \in DOMAIN x.todo : InHand(x.todo[i].by)
    BY <1>0, <2>5, <2>7, <2>8 DEF Theirs, InHand
  <2> QED
    <3>1. Sync \in Client /\ task' = [task EXCEPT ![Sync] = x]
      BY <2>1, <2>9
    <3>2. session' \in {session, None} /\ overlapped' = overlapped
      BY <2>9
    <3>3. Theirs(queue') /\ Theirs(x.read) /\ x.by = None
      BY <1>0, <2>8, <2>9, RestingHands
    <3> QED
      BY <2>10, <3>1, <3>2, <3>3, HandsOf
<1>12. ASSUME NEW u \in User, Login(u)
       PROVE  OwnHands'
  <2>1. /\ session = None /\ session' = u /\ UNCHANGED <<queue, task>>
        /\ overlapped' = overlapped \cup ((UNION {WorkersOf(c) : c \in Client}) \ {u})
    BY <1>12 DEF Login
  <2>2. \A c \in Client : WorkersOf(c)' = WorkersOf(c)
    BY <2>1 DEF WorkersOf
  <2>3. ASSUME NEW c \in Client, NEW w \in WorkersOf(c)'
        PROVE  InHand(w)'
    <3>1. w \in WorkersOf(c)
      BY <2>2, <2>3
    <3>2. w = session' \/ w \in overlapped'
      BY <2>1, <3>1
    <3> QED
      BY <3>2 DEF InHand
  <2> QED
    BY <2>1, <2>3 DEF OwnHands, Theirs
<1>13. CASE CloseApp
  <2>1. /\ task' = [c \in Client |-> Resting]
        /\ UNCHANGED <<session, queue, overlapped>>
    BY <1>13 DEF CloseApp
  <2>2. \A c \in Client : WorkersOf(c)' = {} /\ task'[c].read = <<>>
    BY <2>1, RestingHands DEF WorkersOf
  <2>3. Theirs(queue)' /\ \A c \in Client : Theirs(task[c].read)'
    BY <1>0, <2>1, <2>2 DEF Theirs
  <2> QED
    BY <2>2, <2>3 DEF OwnHands
<1>14. \/ UNCHANGED <<queue, task, overlapped>> /\ session' \in {session, None}
       \/ \E c \in Client : ClientStep(c) \/ \E j \in Job : Submit(c, j)
       \/ \E i \in DOMAIN queue : Discard(queue[i])
       \/ \E i \in DOMAIN queue, c \in Client : Retry(c, queue[i])
       \/ StartSync \/ CloseApp
       \/ \E u \in User : Login(u)
  BY DEF Next, vars, phoneVars, Screen, Logout
<1> QED
  BY <1>1, <1>2, <1>5, <1>6, <1>7, <1>8, <1>10, <1>11, <1>12, <1>13, <1>14 DEF ClientStep

\* On a phone that workers share, nobody's documents are sent or queued under
\* another's name, but those the app had in hand when the other logged in
\* (loadForCurrentUser, and the session being read anew for each request).
THEOREM DocumentsStayTheirs == Spec => []OwnDocuments
<1>1. Init => OwnHands /\ OwnRows
  <2> SUFFICES ASSUME Init PROVE OwnHands /\ OwnRows
    OBVIOUS
  <2>1. \A c \in Client : WorkersOf(c) = {} /\ Theirs(task[c].read)
    BY RestingHands DEF Init, WorkersOf
  <2>2. Theirs(queue)
    BY RestingHands DEF Init
  <2>3. OwnRows
    BY DEF Init, ServerInit, OwnRows, Applied, Idle
  <2> QED
    BY <2>1, <2>2, <2>3 DEF OwnHands
<1>2. PhoneInv /\ IInv /\ OwnHands /\ OwnRows /\ [Next]_vars => OwnHands' /\ OwnRows'
  BY OwnHandsStep, OwnRowsStep
<1>3. PhoneInv /\ IInv /\ OwnHands /\ OwnRows => OwnDocuments
  BY DEF OwnHands, OwnRows, Theirs, OwnDocuments
<1> QED
  BY <1>1, <1>2, <1>3, PhoneAlways, PTL DEF Spec
=============================================================================
