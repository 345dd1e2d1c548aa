---------------------------- MODULE HiringProofs ----------------------------
(***************************************************************************)
(* Proofs about Hiring, for any applications, messages, flags, scores and  *)
(* any number of threads, requests and faults.                             *)
(***************************************************************************)
EXTENDS Hiring, FiniteSetTheorems, WellFoundedInduction, TLAPS

-----------------------------------------------------------------------------
(* Types *)

AnyRequest == {Idle} \cup GigRequest \cup M!MessageRequest

\* What a gig request holds, by its operation.
LEMMA GigRequestFields ==
  ASSUME NEW r \in AnyRequest
  PROVE  /\ r.op \in {"deciding", "completing", "telling", "delivering"} => r.app \in App
         /\ r.op = "deciding" => r.was \in Status /\ r.to \in Decision
         /\ r.op = "telling" => r.was \in Status
         /\ r.op = "delivering" => r.says \in Status \cup {"rated"}
         /\ r.op = "rating" => r.of \in Key /\ r.score \in Given
         /\ r.op = "hiding" => r.flag \in Flag
BY DEF AnyRequest, Idle, GigRequest, M!MessageRequest

\* What a message request holds, by its operation.
LEMMA MessageRequestFields ==
  ASSUME NEW r \in AnyRequest
  PROVE  /\ r.op = "sending" => r.msg \in Msg /\ r.app \in App /\ r.by \in M!Side
         /\ r.op = "committing" =>
              r.msg \in Msg /\ r.app \in App /\ r.by \in M!Side /\ r.file \in BOOLEAN
         /\ r.op = "notifying" => r.msg \in Msg
         /\ r.op = "serving" => r.app \in App /\ r.by \in M!Side /\ r.marked \subseteq Msg
         /\ r.op = "erasing" => r.by \in M!Side /\ r.found \subseteq Msg
BY DEF AnyRequest, Idle, GigRequest, M!MessageRequest

\* Every action puts some request in place of a thread's.
LEMMA ThreadTyped ==
  ASSUME HiringTypeOK, NEW t \in Thread, NEW r \in AnyRequest,
         thread' = [thread EXCEPT ![t] = r]
  PROVE  thread' \in [Thread -> AnyRequest]
BY DEF HiringTypeOK, AnyRequest

LEMMA IdleTyped == Idle \in AnyRequest /\ M!Idle \in AnyRequest
BY DEF AnyRequest, Idle, M!Idle

\* A notice is added to the inbox.
LEMMA InboxTyped ==
  ASSUME HiringTypeOK, NEW n \in Notice \cup [app : App, says : Msg], inbox' = Append(inbox, n)
  PROVE  inbox' \in Seq(Notice \cup [app : App, says : Msg])
BY DEF HiringTypeOK

\* The bound on requests and faults.
LEMMA CountersTyped ==
  ASSUME HiringTypeOK,
         Counted \/ requests' = requests, Fault \/ faults' = faults
  PROVE  requests' \in 0 .. MaxRequests /\ faults' \in 0 .. MaxFaults
BY GigsAssumption DEF HiringTypeOK, TypeRows, Counted, Fault

\* A flag in the table is of a rating in the table, and so is one being hidden.
FlagsOfRatings ==
  /\ \A f \in Flag : flag[f] # None => Rated(flag[f].of)
  /\ \A t \in Thread : thread[t].op = "hiding" => flag[thread[t].flag] # None

\* What message requests know of rows.
Requests ==
  \A t \in Thread :
    /\ thread[t].op = "notifying" => M!Sent(thread[t].msg)
    /\ thread[t].op = "erasing" => \A m \in thread[t].found : M!Sent(m)

Typed == HiringTypeOK /\ FlagsOfRatings /\ Requests

-----------------------------------------------------------------------------
\* Steps of Gigs keep the types.
LEMMA GigTypes ==
  ASSUME Typed, GigNext
  PROVE  HiringTypeOK'
<1> USE DEF Typed, vars, rows, history, counters, messageVars
<1>m. M!TypeRows'
  BY DEF HiringTypeOK, GigNext, M!TypeRows, messageVars
<1>f. /\ status \in [App -> Status]
      /\ rating \in [Key -> RatingRow \cup {None}]
      /\ flag \in [Flag -> FlagRow \cup {None}]
      /\ hired \cup reopened \cup overlapped \cup untold \subseteq App
      /\ inbox \in Seq(Notice \cup [app : App, says : Msg])
      /\ thread \in [Thread -> AnyRequest]
      /\ requests \in 0 .. MaxRequests /\ faults \in 0 .. MaxFaults
  BY DEF HiringTypeOK, TypeRows, AnyRequest
<1>q. ASSUME /\ status' \in [App -> Status]
             /\ rating' \in [Key -> RatingRow \cup {None}]
             /\ flag' \in [Flag -> FlagRow \cup {None}]
             /\ hired' \cup reopened' \cup overlapped' \cup untold' \subseteq App
             /\ inbox' \in Seq(Notice \cup [app : App, says : Msg])
             /\ thread' \in [Thread -> AnyRequest]
             /\ Counted \/ requests' = requests
             /\ Fault \/ faults' = faults
      PROVE  HiringTypeOK'
  BY <1>m, <1>q, CountersTyped DEF HiringTypeOK, TypeRows, AnyRequest
<1>1. ASSUME NEW a \in App, Apply(a) PROVE HiringTypeOK'
  BY <1>1, <1>f, <1>q DEF Apply, Status
<1>2. ASSUME NEW t \in Thread, NEW a \in App, StartCompletion(t, a) PROVE HiringTypeOK'
  <2>1. [op |-> "completing", app |-> a] \in AnyRequest
    BY DEF AnyRequest, GigRequest
  <2> QED
    BY <1>2, <1>f, <1>q, <2>1, ThreadTyped DEF StartCompletion, Begin, Become, Overlap
<1>3. ASSUME NEW t \in Thread, NEW a \in App, NEW to \in Decision, StartDecision(t, a, to)
      PROVE  HiringTypeOK'
  <2>1. [op |-> "deciding", app |-> a, was |-> status[a], to |-> to] \in AnyRequest
    BY <1>f DEF AnyRequest, GigRequest
  <2> QED
    BY <1>3, <1>f, <1>q, <2>1, ThreadTyped DEF StartDecision, Begin, Become, Overlap
<1>4. ASSUME NEW t \in Thread, CommitDecision(t) PROVE HiringTypeOK'
  <2>1. thread[t] \in AnyRequest /\ thread[t].op = "deciding"
    BY <1>4, <1>f DEF CommitDecision
  <2>2. thread[t].app \in App /\ thread[t].was \in Status /\ thread[t].to \in Decision
    BY <2>1, GigRequestFields
  <2>3. [op |-> "telling", app |-> thread[t].app, was |-> thread[t].was] \in AnyRequest
    BY <2>2 DEF AnyRequest, GigRequest
  <2>4. Written(t) \in Status
    BY <2>2, <1>f DEF Written, Status
  <2> QED
    BY <1>4, <1>f, <1>q, <2>2, <2>3, <2>4, ThreadTyped DEF CommitDecision, Become
<1>5. ASSUME NEW t \in Thread, CommitCompletion(t) PROVE HiringTypeOK'
  <2>1. thread[t] \in AnyRequest /\ thread[t].op = "completing"
    BY <1>5, <1>f DEF CommitCompletion
  <2>2. thread[t].app \in App
    BY <2>1, GigRequestFields
  <2>3. [op |-> "delivering", app |-> thread[t].app, says |-> "Completed"] \in AnyRequest
    BY <2>2 DEF AnyRequest, GigRequest, Status
  <2> QED
    BY <1>5, <1>f, <1>q, <2>2, <2>3, ThreadTyped DEF CommitCompletion, Become, Status
<1>6. ASSUME NEW t \in Thread, ComposeNotice(t) PROVE HiringTypeOK'
  <2>1. thread[t] \in AnyRequest /\ thread[t].op = "telling"
    BY <1>6, <1>f DEF ComposeNotice
  <2>2. thread[t].app \in App
    BY <2>1, GigRequestFields
  <2>3. [op |-> "delivering", app |-> thread[t].app, says |-> Told(t)] \in AnyRequest
    BY <2>2, <1>f DEF AnyRequest, GigRequest, Told
  <2> QED
    BY <1>6, <1>f, <1>q, <2>3, ThreadTyped DEF ComposeNotice, Become
<1>7. ASSUME NEW t \in Thread, Deliver(t) PROVE HiringTypeOK'
  <2>1. thread[t] \in AnyRequest /\ thread[t].op = "delivering"
    BY <1>7, <1>f DEF Deliver
  <2>2. [app |-> thread[t].app, says |-> thread[t].says] \in Notice
    BY <2>1, GigRequestFields DEF Notice
  <2> QED
    BY <1>7, <1>f, <1>q, <2>2, ThreadTyped, IdleTyped, InboxTyped DEF Deliver, Become
<1>8. ASSUME NEW t \in Thread, NEW k \in Key, NEW score \in Given, StartRating(t, k, score)
      PROVE  HiringTypeOK'
  <2>1. [op |-> "rating", of |-> k, score |-> score] \in AnyRequest
    BY DEF AnyRequest, GigRequest
  <2> QED
    BY <1>8, <1>f, <1>q, <2>1, ThreadTyped DEF StartRating, Begin, Become
<1>9. ASSUME NEW t \in Thread, CommitRating(t) PROVE HiringTypeOK'
  <2>1. thread[t] \in AnyRequest /\ thread[t].op = "rating"
    BY <1>9, <1>f DEF CommitRating
  <2>2. thread[t].of \in Key /\ thread[t].score \in Given
    BY <2>1, GigRequestFields
  <2>3. [op |-> "delivering", app |-> thread[t].of[1], says |-> "rated"] \in AnyRequest
    BY <2>2 DEF AnyRequest, GigRequest, Key
  <2>4. NewRating(thread[t].score) \in RatingRow
    BY <2>2 DEF NewRating, RatingRow
  <2> QED
    BY <1>9, <1>f, <1>q, <2>2, <2>3, <2>4, ThreadTyped, IdleTyped DEF CommitRating, Become
<1>10. ASSUME NEW t \in Thread, LoseRating(t) PROVE HiringTypeOK'
  BY <1>10, <1>f, <1>q, ThreadTyped, IdleTyped DEF LoseRating, Become
<1>11. ASSUME NEW f \in Flag, NEW k \in Key, FileFlag(f, k) PROVE HiringTypeOK'
  BY <1>11, <1>f, <1>q DEF FileFlag, FlagRow
<1>12. ASSUME NEW f \in Flag, DismissFlag(f) PROVE HiringTypeOK'
  <2>1. flag[f] \in FlagRow
    BY <1>12, <1>f DEF DismissFlag
  <2>2. [flag[f] EXCEPT !.status = "dismissed"] \in FlagRow
    BY <2>1 DEF FlagRow
  <2> QED
    BY <1>12, <1>f, <1>q, <2>2 DEF DismissFlag
<1>13. ASSUME NEW f \in Flag, NEW t \in Thread, HideRating(t, f) PROVE HiringTypeOK'
  <2>1. [op |-> "hiding", flag |-> f] \in AnyRequest
    BY DEF AnyRequest, GigRequest
  <2>2. flag[f].of \in Key /\ rating[flag[f].of] \in RatingRow
    BY <1>13, <1>f DEF HideRating, FlagsOfRatings, Rated, FlagRow
  <2>3. [rating[flag[f].of] EXCEPT !.hidden = TRUE] \in RatingRow
    BY <2>2 DEF RatingRow
  <2> QED
    BY <1>13, <1>f, <1>q, <2>1, <2>2, <2>3, ThreadTyped DEF HideRating, Begin, Become
<1>14. ASSUME NEW f \in Flag, NEW t \in Thread, LoseHiding(t, f) PROVE HiringTypeOK'
  <2>1. [op |-> "hiding", flag |-> f] \in AnyRequest
    BY DEF AnyRequest, GigRequest
  <2> QED
    BY <1>14, <1>f, <1>q, <2>1, ThreadTyped DEF LoseHiding, Become
<1>15. ASSUME NEW t \in Thread, MarkFlag(t) PROVE HiringTypeOK'
  <2>1. thread[t] \in AnyRequest /\ thread[t].op = "hiding"
    BY <1>15, <1>f DEF MarkFlag
  <2>2. thread[t].flag \in Flag
    BY <2>1, GigRequestFields
  <2>3. flag[thread[t].flag] \in FlagRow
    BY <2>1, <2>2, <1>f DEF FlagsOfRatings
  <2>4. [flag[thread[t].flag] EXCEPT !.status = "actioned"] \in FlagRow
    BY <2>3 DEF FlagRow
  <2> QED
    BY <1>15, <1>f, <1>q, <2>2, <2>4, ThreadTyped, IdleTyped DEF MarkFlag, Become
<1>16. ASSUME NEW t \in Thread, Crash(t) PROVE HiringTypeOK'
  <2>1. LosesNotice(t) \subseteq App
    BY <1>f, GigRequestFields DEF LosesNotice
  <2> QED
    BY <1>16, <1>f, <1>q, <2>1, ThreadTyped, IdleTyped DEF Crash, Become
<1> QED
  BY <1>1, <1>2, <1>3, <1>4, <1>5, <1>6, <1>7, <1>8, <1>9, <1>10, <1>11, <1>12, <1>13, <1>14,
     <1>15, <1>16 DEF GigNext, Next, EmployerStep, RatingStep, FlagStep

-----------------------------------------------------------------------------
\* Steps of Messages keep the types.
LEMMA MessageTypes ==
  ASSUME Typed, MessageNext
  PROVE  HiringTypeOK'
<1> USE DEF Typed, vars, rows, history, counters, gigVars, M!vars, M!history, M!counters, M!accounts
<1>f. /\ message \in [Msg -> M!MessageRow \cup {None}]
      /\ served \in [M!Side -> SUBSET Msg]
      /\ disk \cup unseen \cup leftover \cup overtaken \cup unnoticed \subseteq Msg
      /\ erased \cup inactive \cup halted \subseteq M!Side
      /\ inbox \in Seq(Notice \cup [app : App, says : Msg])
      /\ thread \in [Thread -> AnyRequest]
  BY DEF HiringTypeOK, M!TypeRows, AnyRequest
<1>q. ASSUME /\ message' \in [Msg -> M!MessageRow \cup {None}]
             /\ served' \in [M!Side -> SUBSET Msg]
             /\ disk' \cup unseen' \cup leftover' \cup overtaken' \cup unnoticed' \subseteq Msg
             /\ erased' \cup inactive' \cup halted' \subseteq M!Side
             /\ inbox' \in Seq(Notice \cup [app : App, says : Msg])
             /\ thread' \in [Thread -> AnyRequest]
             /\ M!Counted \/ requests' = requests
             /\ Fault \/ faults' = faults
      PROVE  HiringTypeOK'
  <2>1. requests' \in 0 .. MaxRequests /\ faults' \in 0 .. MaxFaults
    BY <1>q, CountersTyped DEF M!Counted, Counted
  <2>2. UNCHANGED gigVars
    BY DEF MessageNext
  <2> QED
    BY <1>q, <2>1, <2>2 DEF HiringTypeOK, TypeRows, M!TypeRows, AnyRequest
<1>o. ASSUME NEW t \in Thread, NEW a \in App, NEW s \in M!Side, M!Opened(t, a, s)
      PROVE  /\ message' \in [Msg -> M!MessageRow \cup {None}]
             /\ thread' \in [Thread -> AnyRequest]
  <2>1. M!Unread(a, s) \subseteq Msg
    BY DEF M!Unread, M!OfApp
  <2>2. [op |-> "serving", app |-> a, by |-> s, marked |-> M!Unread(a, s)] \in AnyRequest
    BY <2>1 DEF AnyRequest, M!MessageRequest
  <2>3. \A m \in M!Unread(a, s) : message[m] \in M!MessageRow
    BY <1>f DEF M!Unread, M!OfApp, M!Sent
  <2>4. \A m \in M!Unread(a, s) : [message[m] EXCEPT !.read = TRUE] \in M!MessageRow
    BY <2>3 DEF M!MessageRow
  <2> QED
    BY <1>o, <1>f, <2>1, <2>2, <2>4, ThreadTyped DEF M!Opened, M!Become
<1>r. ASSUME NEW t \in Thread, thread[t].op = "sending", M!Refused(t)
      PROVE  /\ message' \in [Msg -> M!MessageRow \cup {None}]
             /\ thread' \in [Thread -> AnyRequest]
  <2>1. thread[t].app \in App /\ thread[t].by \in M!Side
    BY <1>r, <1>f, MessageRequestFields
  <2>2. CASE M!Opened(t, thread[t].app, thread[t].by)
    BY <1>o, <2>1, <2>2
  <2>3. CASE M!Become(t, M!Idle) /\ UNCHANGED message
    BY <2>3, <1>f, ThreadTyped, IdleTyped DEF M!Become
  <2> QED
    BY <1>r, <2>2, <2>3 DEF M!Refused
<1>1. ASSUME NEW t \in Thread, NEW m \in Msg, NEW a \in App, NEW s \in M!Side,
             M!SendText(t, m, a, s)
      PROVE  HiringTypeOK'
  <2>1. [op |-> "committing", msg |-> m, app |-> a, by |-> s, file |-> FALSE] \in AnyRequest
    BY DEF AnyRequest, M!MessageRequest
  <2> QED
    BY <1>1, <1>f, <1>q, <2>1, ThreadTyped DEF M!SendText, M!Begin, M!MayBegin, M!Become
<1>2. ASSUME NEW t \in Thread, NEW m \in Msg, NEW a \in App, NEW s \in M!Side,
             NEW long \in BOOLEAN, M!SendFile(t, m, a, s, long)
      PROVE  HiringTypeOK'
  <2>1. [op |-> "sending", msg |-> m, app |-> a, by |-> s, long |-> long] \in AnyRequest
    BY DEF AnyRequest, M!MessageRequest
  <2> QED
    BY <1>2, <1>f, <1>q, <2>1, ThreadTyped DEF M!SendFile, M!Begin, M!MayBegin, M!Become
<1>3. ASSUME NEW t \in Thread, M!RefuseAttachment(t) PROVE HiringTypeOK'
  BY <1>3, <1>f, <1>q, <1>r DEF M!RefuseAttachment
<1>4. ASSUME NEW t \in Thread, M!SaveAttachment(t) PROVE HiringTypeOK'
  <2>1. thread[t].op = "sending" /\ thread[t] \in AnyRequest
    BY <1>4, <1>f DEF M!SaveAttachment
  <2>2. thread[t].msg \in Msg /\ thread[t].app \in App /\ thread[t].by \in M!Side
    BY <2>1, MessageRequestFields
  <2>3. [op |-> "committing", msg |-> thread[t].msg, app |-> thread[t].app,
         by |-> thread[t].by, file |-> TRUE] \in AnyRequest
    BY <2>2 DEF AnyRequest, M!MessageRequest
  <2>4. /\ message' \in [Msg -> M!MessageRow \cup {None}]
        /\ thread' \in [Thread -> AnyRequest]
    <3>1. CASE thread[t].long
      BY <3>1, <1>4, <1>r, <2>1 DEF M!SaveAttachment
    <3>2. CASE ~thread[t].long
      BY <3>2, <1>4, <1>f, <2>3, ThreadTyped DEF M!SaveAttachment, M!Become
    <3> QED
      BY <3>1, <3>2
  <2> QED
    BY <1>4, <1>f, <1>q, <2>2, <2>4 DEF M!SaveAttachment
<1>5. ASSUME NEW t \in Thread, M!CommitMessage(t) PROVE HiringTypeOK'
  <2>1. thread[t].op = "committing" /\ thread[t] \in AnyRequest
    BY <1>5, <1>f DEF M!CommitMessage
  <2>2. /\ thread[t].msg \in Msg /\ thread[t].app \in App
        /\ thread[t].by \in M!Side /\ thread[t].file \in BOOLEAN
    BY <2>1, MessageRequestFields
  <2>3. [op |-> "notifying", msg |-> thread[t].msg] \in AnyRequest
    BY <2>2 DEF AnyRequest, M!MessageRequest
  <2>4. [app |-> thread[t].app, by |-> thread[t].by, text |-> "own", read |-> FALSE,
         file |-> thread[t].file] \in M!MessageRow
    BY <2>2 DEF M!MessageRow
  <2> QED
    BY <1>5, <1>f, <1>q, <2>2, <2>3, <2>4, ThreadTyped, IdleTyped DEF M!CommitMessage, M!Become
<1>6. ASSUME NEW t \in Thread, M!Notify(t) PROVE HiringTypeOK'
  <2>1. thread[t].op = "notifying" /\ thread[t] \in AnyRequest
    BY <1>6, <1>f DEF M!Notify
  <2>2. thread[t].msg \in Msg /\ message[thread[t].msg] \in M!MessageRow
    BY <2>1, <1>f, MessageRequestFields DEF Requests, M!Sent
  <2>3. [app |-> message[thread[t].msg].app, says |-> thread[t].msg]
          \in [app : App, says : Msg]
    BY <2>2 DEF M!MessageRow
  <2> QED
    BY <1>6, <1>f, <1>q, <2>3, ThreadTyped, IdleTyped, InboxTyped DEF M!Notify, M!Become
<1>7. ASSUME NEW t \in Thread, NEW a \in App, NEW s \in M!Side, M!OpenMessages(t, a, s)
      PROVE  HiringTypeOK'
  BY <1>7, <1>f, <1>q, <1>o DEF M!OpenMessages, M!MayBegin
<1>8. ASSUME NEW t \in Thread, M!ServeMessages(t) PROVE HiringTypeOK'
  <2>1. M!OfApp(thread[t].app) \subseteq Msg
    BY DEF M!OfApp
  <2>2. served' \in [M!Side -> SUBSET Msg]
    BY <1>8, <1>f, <2>1 DEF M!ServeMessages
  <2> QED
    BY <1>8, <1>f, <1>q, <2>2, ThreadTyped, IdleTyped DEF M!ServeMessages, M!Become
<1>9. ASSUME NEW t \in Thread, NEW s \in M!Side, M!EraseAttachments(t, s)
      PROVE  HiringTypeOK'
  <2>1. M!SentBy(s) \subseteq Msg
    BY DEF M!SentBy
  <2>2. [op |-> "erasing", by |-> s, found |-> M!SentBy(s), was |-> s \notin inactive]
          \in AnyRequest
    BY <2>1 DEF AnyRequest, M!MessageRequest
  <2>3. thread' \in [Thread -> AnyRequest]
    BY <1>9, <1>f, <2>2, ThreadTyped DEF M!EraseAttachments, M!Become
  <2>4. disk' \cup leftover' \subseteq Msg /\ (Fault \/ faults' = faults)
    BY <1>9, <1>f DEF M!EraseAttachments, Fault
  <2> QED
    BY <1>9, <1>f, <1>q, <2>3, <2>4 DEF M!EraseAttachments
<1>10. ASSUME NEW t \in Thread, M!EraseMessages(t) PROVE HiringTypeOK'
  <2>1. thread[t].op = "erasing" /\ thread[t] \in AnyRequest
    BY <1>10, <1>f DEF M!EraseMessages
  <2>2. thread[t].by \in M!Side /\ thread[t].found \subseteq Msg
    BY <2>1, MessageRequestFields
  <2>3. \A m \in thread[t].found : message[m] \in M!MessageRow
    BY <2>1, <2>2, <1>f DEF Requests, M!Sent
  <2>4. \A m \in thread[t].found :
          M!Redacted(message[m]) \in M!MessageRow
    BY <2>3 DEF M!MessageRow, M!Redacted
  <2>5. message' \in [Msg -> M!MessageRow \cup {None}]
    BY <1>10, <1>f, <2>4 DEF M!EraseMessages
  <2>6. <<>> \in Seq(Notice \cup [app : App, says : Msg])
    OBVIOUS
  <2>7. inactive' \subseteq M!Side
    BY <1>10, <1>f, <2>2 DEF M!EraseMessages
  <2> QED
    BY <1>10, <1>f, <1>q, <2>2, <2>5, <2>6, <2>7, ThreadTyped, IdleTyped
       DEF M!EraseMessages, M!Become
<1>11. ASSUME NEW t \in Thread, M!CrashMessage(t) PROVE HiringTypeOK'
  <2>1. thread[t] \in AnyRequest
    BY <1>f
  <2>2. /\ thread[t].op = "serving" => thread[t].marked \subseteq Msg
        /\ thread[t].op = "notifying" => thread[t].msg \in Msg
        /\ thread[t].op = "erasing" => thread[t].by \in M!Side
    BY <2>1, MessageRequestFields
  <2>3. /\ unseen' \subseteq Msg /\ leftover' \subseteq Msg /\ unnoticed' \subseteq Msg
        /\ halted' \subseteq M!Side
    BY <1>11, <1>f, <2>2 DEF M!CrashMessage
  <2> QED
    BY <1>11, <1>f, <1>q, <2>3, ThreadTyped, IdleTyped DEF M!CrashMessage, M!Become, Fault
<1>12. ASSUME NEW s \in M!Side, M!SetActive(s) PROVE HiringTypeOK'
  BY <1>12, <1>f, <1>q DEF M!SetActive
<1> QED
  BY <1>1, <1>2, <1>3, <1>4, <1>5, <1>6, <1>7, <1>8, <1>9, <1>10, <1>11, <1>12
     DEF MessageNext, M!Next, M!SendStep, M!ReadStep, M!EraseStep

-----------------------------------------------------------------------------
(* The two modules share the threads and nothing else that they write *)

\* A step of Gigs leaves the threads alone that Messages has under way.
LEMMA GigFrame ==
  ASSUME Typed, GigNext
  PROVE  \A t \in Thread :
           \/ thread'[t] = thread[t]
           \/ thread[t].op \notin M!MessageOp /\ thread'[t].op \notin M!MessageOp
<1> USE DEF M!MessageOp, Become
<1>f. thread \in [Thread -> AnyRequest]
  BY DEF Typed, HiringTypeOK, AnyRequest
<1>1. ASSUME NEW t \in Thread, NEW r, r.op \notin M!MessageOp,
             thread[t].op \notin M!MessageOp, Become(t, r)
      PROVE  \A u \in Thread :
               \/ thread'[u] = thread[u]
               \/ thread[u].op \notin M!MessageOp /\ thread'[u].op \notin M!MessageOp
  BY <1>1, <1>f
<1>2. ASSUME NEW a \in App, Apply(a) PROVE thread' = thread
  BY <1>2 DEF Apply
<1>3. ASSUME NEW t \in Thread, EmployerStep(t)
      PROVE  \E r : r.op \notin M!MessageOp /\ thread[t].op \notin M!MessageOp /\ Become(t, r)
  <2>1. ASSUME NEW a \in App, StartCompletion(t, a)
        PROVE  thread[t] = Idle /\ Become(t, [op |-> "completing", app |-> a])
    BY <2>1 DEF StartCompletion, Begin
  <2>2. ASSUME NEW a \in App, NEW to \in Decision, StartDecision(t, a, to)
        PROVE  /\ thread[t] = Idle
               /\ Become(t, [op |-> "deciding", app |-> a, was |-> status[a], to |-> to])
    BY <2>2 DEF StartDecision, Begin
  <2> QED
    BY <1>3, <2>1, <2>2 DEF EmployerStep, Idle, CommitDecision, CommitCompletion,
       ComposeNotice, Deliver
<1>4. ASSUME NEW t \in Thread, RatingStep(t)
      PROVE  \E r : r.op \notin M!MessageOp /\ thread[t].op \notin M!MessageOp /\ Become(t, r)
  BY <1>4 DEF RatingStep, Idle, StartRating, Begin, CommitRating, LoseRating
<1>5. ASSUME NEW t \in Thread, MarkFlag(t) \/ Crash(t)
      PROVE  \E r : r.op \notin M!MessageOp /\ thread[t].op \notin M!MessageOp /\ Become(t, r)
  BY <1>5 DEF MarkFlag, Crash, Idle, GigOp
<1>6. ASSUME FlagStep
      PROVE  \/ thread' = thread
             \/ \E t \in Thread : \E r :
                  r.op \notin M!MessageOp /\ thread[t].op \notin M!MessageOp /\ Become(t, r)
  BY <1>6 DEF FlagStep, FileFlag, DismissFlag, HideRating, LoseHiding, Begin, Idle
<1> QED
  BY <1>1, <1>2, <1>3, <1>4, <1>5, <1>6 DEF GigNext, Next

\* A step of Messages leaves the threads alone that Gigs has under way.
LEMMA MessageFrame ==
  ASSUME Typed, MessageNext
  PROVE  \A t \in Thread :
           \/ thread'[t] = thread[t]
           \/ thread[t].op \notin GigOp /\ thread'[t].op \notin GigOp
<1> USE DEF GigOp, M!Become
<1>f. thread \in [Thread -> AnyRequest]
  BY DEF Typed, HiringTypeOK, AnyRequest
<1>1. ASSUME NEW t \in Thread, NEW r, r.op \notin GigOp,
             thread[t].op \notin GigOp, M!Become(t, r)
      PROVE  \A u \in Thread :
               \/ thread'[u] = thread[u]
               \/ thread[u].op \notin GigOp /\ thread'[u].op \notin GigOp
  BY <1>1, <1>f
<1>2. ASSUME NEW t \in Thread, M!SendStep(t)
      PROVE  \E r : r.op \notin GigOp /\ thread[t].op \notin GigOp /\ M!Become(t, r)
  BY <1>2 DEF M!SendStep, M!Idle, M!SendText, M!SendFile, M!Begin, M!MayBegin,
     M!RefuseAttachment, M!SaveAttachment, M!Refused, M!Opened, M!CommitMessage, M!Notify
<1>3. ASSUME NEW t \in Thread, M!ReadStep(t) \/ M!EraseStep(t)
      PROVE  \E r : r.op \notin GigOp /\ thread[t].op \notin GigOp /\ M!Become(t, r)
  <2>1. ASSUME NEW a \in App, NEW s \in M!Side, M!OpenMessages(t, a, s)
        PROVE  /\ thread[t] = Idle
               /\ M!Become(t, [op |-> "serving", app |-> a, by |-> s, marked |-> M!Unread(a, s)])
    BY <2>1 DEF M!OpenMessages, M!Opened, M!MayBegin, M!Idle, Idle
  <2>2. ASSUME NEW s \in M!Side, M!EraseAttachments(t, s)
        PROVE  /\ thread[t] = Idle
               /\ M!Become(t, [op |-> "erasing", by |-> s, found |-> M!SentBy(s),
                               was |-> s \notin inactive])
    BY <2>2 DEF M!EraseAttachments, M!Idle, Idle
  <2>3. ASSUME M!ServeMessages(t) \/ M!EraseMessages(t)
        PROVE  thread[t].op \in {"serving", "erasing"} /\ M!Become(t, M!Idle)
    BY <2>3 DEF M!ServeMessages, M!EraseMessages
  <2>4. CASE M!ReadStep(t)
    BY <2>1, <2>3, <2>4 DEF M!ReadStep, M!Idle, Idle
  <2>5. CASE M!EraseStep(t)
    BY <2>2, <2>3, <2>5 DEF M!EraseStep, M!Idle, Idle
  <2> QED
    BY <1>3, <2>4, <2>5
<1>4. ASSUME NEW t \in Thread, M!CrashMessage(t)
      PROVE  \E r : r.op \notin GigOp /\ thread[t].op \notin GigOp /\ M!Become(t, r)
  BY <1>4 DEF M!CrashMessage, M!Idle, M!MessageOp
<1>5. ASSUME NEW s \in M!Side, M!SetActive(s) PROVE thread' = thread
  BY <1>5 DEF M!SetActive
<1> QED
  BY <1>1, <1>2, <1>3, <1>4, <1>5 DEF MessageNext, M!Next

-----------------------------------------------------------------------------
(* What holds of applications, ratings and their requests *)

\* Whoever was accepted is known to have been, and only gigs are completed.
StatusEarned ==
  \A a \in App :
    /\ status[a] = "Accepted" => a \in hired
    /\ status[a] = "Completed" => a \in Gig \cap hired

\* So it is for what is being completed or rated.
RequestsEarned ==
  \A t \in Thread :
    /\ thread[t].op = "completing" => thread[t].app \in Gig \cap hired
    /\ thread[t].op = "rating" =>
         LET a == thread[t].of[1]
         IN  a \in Gig \cap hired /\ (status[a] = "Completed" \/ a \in reopened)

\* Two requests that are to write one status overlapped.
WritesStatus(t) == thread[t].op \in {"deciding", "completing"}

Overlaps ==
  \A t, u \in Thread :
    t # u /\ WritesStatus(t) /\ WritesStatus(u) /\ thread[t].app = thread[u].app
      => thread[t].app \in overlapped

\* A completion finds its application as it was, unless another one overlapped.
CompletesAccepted ==
  \A t \in Thread :
    thread[t].op = "completing" =>
      status[thread[t].app] = "Accepted" \/ thread[t].app \in overlapped

GigInv ==
  /\ FlagsOfRatings /\ StatusEarned /\ RequestsEarned
  /\ Overlaps /\ CompletesAccepted /\ RatedWasHired

\* Steps of Messages keep it: they write none of its rows.
LEMMA GigInvFrame ==
  ASSUME Typed, GigInv, MessageNext
  PROVE  GigInv'
<1> USE DEF gigVars, rows, history
<1>1. UNCHANGED gigVars
  BY DEF MessageNext
<1>2. \A t \in Thread : thread'[t].op \in GigOp => thread'[t] = thread[t]
  BY MessageFrame
<1>3. FlagsOfRatings' /\ StatusEarned' /\ RatedWasHired'
  BY <1>1, <1>2 DEF GigInv, FlagsOfRatings, StatusEarned, RatedWasHired, Rated, GigOp
<1>4. RequestsEarned' /\ Overlaps' /\ CompletesAccepted'
  BY <1>1, <1>2 DEF GigInv, RequestsEarned, Overlaps, CompletesAccepted, WritesStatus, GigOp
<1> QED
  BY <1>3, <1>4 DEF GigInv

\* A request that ends, or has only to tell, leaves it in place.
LEMMA GigInvEnds ==
  ASSUME Typed, GigInv, UNCHANGED <<status, rating, flag, hired, reopened, overlapped>>,
         NEW t \in Thread, NEW r, thread' = [thread EXCEPT ![t] = r],
         r.op \notin {"deciding", "completing", "rating", "hiding"}
  PROVE  GigInv'
<1>f. thread \in [Thread -> AnyRequest]
  BY DEF Typed, HiringTypeOK, AnyRequest
<1>1. \A u \in Thread : thread'[u] = IF u = t THEN r ELSE thread[u]
  BY <1>f
<1>2. FlagsOfRatings' /\ StatusEarned' /\ RatedWasHired'
  BY <1>1 DEF GigInv, FlagsOfRatings, StatusEarned, RatedWasHired, Rated
<1>3. RequestsEarned' /\ Overlaps' /\ CompletesAccepted'
  BY <1>1 DEF GigInv, RequestsEarned, Overlaps, CompletesAccepted, WritesStatus
<1> QED
  BY <1>2, <1>3 DEF GigInv

\* A request that is about to write the status of an application.
LEMMA GigInvStarts ==
  ASSUME Typed, GigInv, UNCHANGED <<status, rating, flag, hired, reopened>>,
         NEW t \in Thread, NEW a \in App, NEW r, r.app = a,
         \/ r.op = "deciding"
         \/ r.op = "completing" /\ a \in Gig /\ status[a] = "Accepted",
         thread' = [thread EXCEPT ![t] = r], Overlap(a)
  PROVE  GigInv'
<1>f. thread \in [Thread -> AnyRequest] /\ overlapped \subseteq App
  BY DEF Typed, HiringTypeOK, TypeRows, AnyRequest
<1>1. \A u \in Thread : thread'[u] = IF u = t THEN r ELSE thread[u]
  BY <1>f
<1>2. /\ overlapped \subseteq overlapped'
      /\ \A u \in Thread : WritesStatus(u) /\ thread[u].app = a => a \in overlapped'
  BY DEF Overlap, About, WritesStatus
<1>3. FlagsOfRatings' /\ StatusEarned' /\ RatedWasHired'
  BY <1>1 DEF GigInv, FlagsOfRatings, StatusEarned, RatedWasHired, Rated
<1>4. RequestsEarned'
  BY <1>1 DEF GigInv, RequestsEarned, StatusEarned
<1>5. Overlaps'
  BY <1>1, <1>2 DEF GigInv, Overlaps, WritesStatus
<1>6. CompletesAccepted'
  BY <1>1, <1>2 DEF GigInv, CompletesAccepted
<1> QED
  BY <1>3, <1>4, <1>5, <1>6 DEF GigInv

\* The status of an application is written.
LEMMA GigInvWrites ==
  ASSUME Typed, GigInv, UNCHANGED <<rating, flag, overlapped>>,
         NEW t \in Thread, NEW a \in App, NEW s \in Status, NEW r,
         WritesStatus(t), thread[t].app = a,
         status' = [status EXCEPT ![a] = s],
         s = "Completed" => a \in Gig \cap hired,
         hired' = IF s = "Accepted" THEN hired \cup {a} ELSE hired,
         reopened' = IF status[a] = "Completed" /\ s # "Completed"
                     THEN reopened \cup {a} ELSE reopened,
         thread' = [thread EXCEPT ![t] = r], r.op \in {"telling", "delivering"}
  PROVE  GigInv'
<1>f. thread \in [Thread -> AnyRequest] /\ status \in [App -> Status]
  BY DEF Typed, HiringTypeOK, TypeRows, AnyRequest
<1>1. /\ \A u \in Thread : thread'[u] = IF u = t THEN r ELSE thread[u]
      /\ \A b \in App : status'[b] = IF b = a THEN s ELSE status[b]
      /\ hired \subseteq hired' /\ reopened \subseteq reopened'
  BY <1>f
<1>2. \A b \in App : status[b] = "Completed" => status'[b] = "Completed" \/ b \in reopened'
  BY <1>1
<1>3. FlagsOfRatings'
  BY <1>1 DEF GigInv, FlagsOfRatings, Rated
<1>4. StatusEarned'
  BY <1>1 DEF GigInv, StatusEarned
<1>5. RatedWasHired'
  BY <1>1, <1>2 DEF GigInv, RatedWasHired, Rated, Key
<1>6. RequestsEarned'
  <2>1. \A u \in Thread : thread[u].op = "rating" => thread[u].of[1] \in App
    BY <1>f, GigRequestFields DEF Key
  <2> QED
    BY <1>1, <1>2, <2>1 DEF GigInv, RequestsEarned
<1>7. Overlaps'
  BY <1>1 DEF GigInv, Overlaps, WritesStatus
<1>8. CompletesAccepted'
  <2>1. ASSUME NEW u \in Thread, u # t, thread[u].op = "completing"
        PROVE  status'[thread[u].app] = "Accepted" \/ thread[u].app \in overlapped'
    <3>1. thread[u].app \in App
      BY <2>1, <1>f, GigRequestFields
    <3>2. CASE thread[u].app = a
      BY <2>1, <3>2 DEF GigInv, Overlaps, WritesStatus
    <3>3. CASE thread[u].app # a
      BY <2>1, <3>1, <3>3, <1>1 DEF GigInv, CompletesAccepted
    <3> QED
      BY <3>2, <3>3
  <2> QED
    BY <1>1, <2>1 DEF CompletesAccepted
<1> QED
  BY <1>3, <1>4, <1>5, <1>6, <1>7, <1>8 DEF GigInv

\* Every step of Gigs.
LEMMA GigInvStep ==
  ASSUME Typed, HiringTypeOK', GigInv, GigNext
  PROVE  GigInv'
<1> USE DEF rows, history, counters, Become
<1>f. /\ thread \in [Thread -> AnyRequest] /\ status \in [App -> Status]
      /\ rating \in [Key -> RatingRow \cup {None}] /\ flag \in [Flag -> FlagRow \cup {None}]
  BY DEF Typed, HiringTypeOK, TypeRows, AnyRequest
<1>1. ASSUME NEW a \in App, Apply(a) PROVE GigInv'
  <2>1. \A b \in App : status'[b] = IF b = a THEN "Pending" ELSE status[b]
    BY <1>1, <1>f DEF Apply
  <2>2. \A t \in Thread : /\ thread[t].op = "rating" => thread[t].of[1] \in App
                          /\ thread[t].op = "completing" => thread[t].app \in App
    BY <1>f, GigRequestFields DEF Key
  <2>3. FlagsOfRatings' /\ StatusEarned' /\ RatedWasHired'
    BY <1>1, <2>1 DEF Apply, GigInv, FlagsOfRatings, StatusEarned, RatedWasHired, Rated, Key
  <2>4. RequestsEarned' /\ Overlaps' /\ CompletesAccepted'
    BY <1>1, <2>1, <2>2
       DEF Apply, GigInv, RequestsEarned, Overlaps, CompletesAccepted, WritesStatus
  <2> QED
    BY <2>3, <2>4 DEF GigInv
<1>2. ASSUME NEW t \in Thread, NEW a \in App, StartCompletion(t, a) PROVE GigInv'
  BY <1>2, GigInvStarts DEF StartCompletion, MayComplete, Begin
<1>3. ASSUME NEW t \in Thread, NEW a \in App, NEW to \in Decision, StartDecision(t, a, to)
      PROVE  GigInv'
  BY <1>3, GigInvStarts DEF StartDecision, Begin
<1>4. ASSUME NEW t \in Thread, CommitDecision(t) PROVE GigInv'
  <2>1. /\ thread[t] \in AnyRequest /\ thread[t].op = "deciding"
    BY <1>4, <1>f DEF CommitDecision
  <2>2. thread[t].app \in App /\ thread[t].to \in Decision
    BY <2>1, GigRequestFields
  <2>3. Written(t) \in Status /\ (Written(t) = "Completed" => thread[t].app \in Gig \cap hired)
    BY <2>2, <1>f DEF Written, Status, Decision, GigInv, StatusEarned
  <2> DEFINE a == thread[t].app
             r == [op |-> "telling", app |-> a, was |-> thread[t].was]
  <2>4. /\ status' = [status EXCEPT ![a] = Written(t)]
        /\ hired' = IF Written(t) = "Accepted" THEN hired \cup {a} ELSE hired
        /\ reopened' = IF status[a] = "Completed" /\ Written(t) # "Completed"
                       THEN reopened \cup {a} ELSE reopened
        /\ thread' = [thread EXCEPT ![t] = r]
        /\ UNCHANGED <<rating, flag, overlapped>>
    BY <1>4 DEF CommitDecision
  <2>5. r.op = "telling" /\ WritesStatus(t)
    BY <2>1 DEF WritesStatus
  <2>6. a \in App /\ (Written(t) = "Completed" => a \in Gig \cap hired) /\ Written(t) \in Status
    BY <2>2, <2>3
  <2> HIDE DEF a, r
  <2>7. thread[t].app = a
    BY DEF a
  <2> QED
    BY <2>4, <2>5, <2>6, <2>7, GigInvWrites
<1>5. ASSUME NEW t \in Thread, CommitCompletion(t) PROVE GigInv'
  <2>1. /\ thread[t] \in AnyRequest /\ thread[t].op = "completing"
    BY <1>5, <1>f DEF CommitCompletion
  <2>2. thread[t].app \in App /\ thread[t].app \in Gig \cap hired
    BY <2>1, GigRequestFields DEF GigInv, RequestsEarned
  <2> DEFINE a == thread[t].app
             r == [op |-> "delivering", app |-> a, says |-> "Completed"]
  <2>4. /\ status' = [status EXCEPT ![a] = "Completed"]
        /\ hired' = hired /\ reopened' = reopened
        /\ thread' = [thread EXCEPT ![t] = r]
        /\ UNCHANGED <<rating, flag, overlapped>>
    BY <1>5 DEF CommitCompletion
  <2>5. r.op = "delivering" /\ WritesStatus(t) /\ "Completed" \in Status
    BY <2>1 DEF WritesStatus, Status
  <2>6. a \in App /\ a \in Gig \cap hired
    BY <2>2
  <2> HIDE DEF a, r
  <2>7. thread[t].app = a
    BY DEF a
  <2> QED
    BY <2>4, <2>5, <2>6, <2>7, GigInvWrites
<1>6. ASSUME NEW t \in Thread, ComposeNotice(t) \/ Deliver(t) \/ LoseRating(t) \/ Crash(t)
      PROVE  GigInv'
  BY <1>6, GigInvEnds DEF ComposeNotice, Deliver, LoseRating, Crash, Idle
<1>7. ASSUME NEW t \in Thread, NEW k \in Key, NEW score \in Given, StartRating(t, k, score)
      PROVE  GigInv'
  <2>1. \A u \in Thread :
          thread'[u] = IF u = t THEN [op |-> "rating", of |-> k, score |-> score] ELSE thread[u]
    BY <1>7, <1>f DEF StartRating, Begin
  <2>2. k[1] \in App /\ status[k[1]] = "Completed" /\ k[1] \in Gig \cap hired
    BY <1>7 DEF StartRating, MayRate, GigInv, StatusEarned, Key
  <2>3. FlagsOfRatings' /\ StatusEarned' /\ RatedWasHired'
    BY <1>7, <2>1 DEF StartRating, GigInv, FlagsOfRatings, StatusEarned, RatedWasHired, Rated
  <2>4. RequestsEarned'
    BY <1>7, <2>1, <2>2 DEF StartRating, GigInv, RequestsEarned
  <2>5. Overlaps' /\ CompletesAccepted'
    BY <1>7, <2>1 DEF StartRating, GigInv, Overlaps, CompletesAccepted, WritesStatus
  <2> QED
    BY <2>3, <2>4, <2>5 DEF GigInv
<1>8. ASSUME NEW t \in Thread, CommitRating(t) PROVE GigInv'
  <2>1. thread[t].op = "rating" /\ thread[t].of \in Key
    BY <1>8, <1>f, GigRequestFields DEF CommitRating
  <2>2. thread'[t].op \in {"idle", "delivering"}
    <3>1. CASE thread[t].of[2] = "employer_to_worker"
      <4>1. thread' = [thread EXCEPT ![t] =
                         [op |-> "delivering", app |-> thread[t].of[1], says |-> "rated"]]
        BY <1>8, <3>1 DEF CommitRating
      <4> QED
        BY <4>1, <1>f
    <3>2. CASE thread[t].of[2] # "employer_to_worker"
      <4>1. thread' = [thread EXCEPT ![t] = Idle]
        BY <1>8, <3>2 DEF CommitRating
      <4> QED
        BY <4>1, <1>f DEF Idle
    <3> QED
      BY <3>1, <3>2
  <2>3. \A u \in Thread : u # t => thread'[u] = thread[u]
    BY <1>8, <1>f DEF CommitRating
  <2>4. \A k \in Key : k # thread[t].of => rating'[k] = rating[k]
    BY <1>8, <1>f DEF CommitRating
  <2>5. rating'[thread[t].of] # None
    <3>1. thread[t].score \in Given
      BY <2>1, <1>f, GigRequestFields
    <3>2. NewRating(thread[t].score) \in RatingRow
      BY <3>1 DEF NewRating, RatingRow
    <3>3. rating'[thread[t].of] = NewRating(thread[t].score)
      BY <1>8, <2>1, <1>f DEF CommitRating
    <3> QED
      BY <3>2, <3>3, NoneAssumption
  <2>6. FlagsOfRatings'
    <3>1. \A f \in Flag : flag[f] # None => flag[f].of \in Key
      BY <1>f DEF FlagRow
    <3> QED
      BY <1>8, <2>2, <2>3, <2>4, <2>5, <3>1 DEF CommitRating, GigInv, FlagsOfRatings, Rated
  <2>7. RatedWasHired'
    BY <1>8, <2>1, <2>4 DEF CommitRating, GigInv, RatedWasHired, RequestsEarned, Rated
  <2>8. StatusEarned'
    BY <1>8 DEF CommitRating, GigInv, StatusEarned
  <2>9. RequestsEarned' /\ Overlaps' /\ CompletesAccepted'
    BY <1>8, <2>2, <2>3
       DEF CommitRating, GigInv, RequestsEarned, Overlaps, CompletesAccepted, WritesStatus
  <2> QED
    BY <2>6, <2>7, <2>8, <2>9 DEF GigInv
<1>9. ASSUME NEW f \in Flag, NEW k \in Key, FileFlag(f, k) PROVE GigInv'
  <2>1. /\ \A g \in Flag : flag'[g] = IF g = f THEN [of |-> k, status |-> "open"] ELSE flag[g]
        /\ UNCHANGED <<status, rating, thread, history>>
    BY <1>9, <1>f DEF FileFlag
  <2>2. FlagsOfRatings'
    <3>1. [of |-> k, status |-> "open"] \in FlagRow
      BY DEF FlagRow
    <3>2. \A t \in Thread : thread[t].op = "hiding" => thread[t].flag \in Flag
      BY <1>f, GigRequestFields
    <3>3. Rated(k)
      BY <1>9 DEF FileFlag
    <3> QED
      BY <2>1, <3>1, <3>2, <3>3, NoneAssumption DEF GigInv, FlagsOfRatings, Rated
  <2> QED
    BY <2>1, <2>2 DEF GigInv, StatusEarned, RequestsEarned, Overlaps, CompletesAccepted,
       RatedWasHired, WritesStatus, Rated
<1>10. ASSUME NEW f \in Flag, DismissFlag(f) PROVE GigInv'
  <2>1. /\ \A g \in Flag : g # f => flag'[g] = flag[g]
        /\ flag'[f] = [flag[f] EXCEPT !.status = "dismissed"]
        /\ UNCHANGED <<status, rating, thread, history>>
    BY <1>10, <1>f DEF DismissFlag
  <2>2. flag[f] \in FlagRow /\ flag'[f].of = flag[f].of /\ flag'[f] # None
    BY <1>10, <1>f, <2>1, NoneAssumption DEF DismissFlag, FlagRow
  <2>3. FlagsOfRatings'
    <3>2. \A t \in Thread : thread[t].op = "hiding" => thread[t].flag \in Flag
      BY <1>f, GigRequestFields
    <3> QED
      BY <1>10, <2>1, <2>2, <3>2 DEF GigInv, FlagsOfRatings, Rated, DismissFlag
  <2> QED
    BY <2>1, <2>3 DEF GigInv, StatusEarned, RequestsEarned, Overlaps, CompletesAccepted,
       RatedWasHired, WritesStatus, Rated
<1>11. ASSUME NEW f \in Flag, NEW t \in Thread, HideRating(t, f) \/ LoseHiding(t, f)
       PROVE  GigInv'
  <2>1. /\ \A u \in Thread :
             thread'[u] = IF u = t THEN [op |-> "hiding", flag |-> f] ELSE thread[u]
        /\ UNCHANGED <<status, flag, history>> /\ flag[f] # None
    BY <1>11, <1>f DEF HideRating, LoseHiding, Begin
  <2>2. \A k \in Key : Rated(k)' <=> Rated(k)
    <3>1. flag[f].of \in Key /\ rating[flag[f].of] \in RatingRow
      BY <2>1, <1>f DEF FlagRow, GigInv, FlagsOfRatings, Rated
    <3>2. [rating[flag[f].of] EXCEPT !.hidden = TRUE] \in RatingRow
      BY <3>1 DEF RatingRow
    <3>3. CASE HideRating(t, f)
      BY <3>1, <3>2, <3>3, <1>f, NoneAssumption DEF HideRating, Rated
    <3>4. CASE LoseHiding(t, f)
      BY <3>4 DEF LoseHiding, Rated
    <3> QED
      BY <1>11, <3>3, <3>4
  <2>3. FlagsOfRatings'
    <3>1. \A g \in Flag : flag[g] # None => flag[g].of \in Key
      BY <1>f DEF FlagRow
    <3> QED
      BY <2>1, <2>2, <3>1 DEF GigInv, FlagsOfRatings
  <2>4. StatusEarned' /\ RatedWasHired'
    BY <2>1, <2>2 DEF GigInv, StatusEarned, RatedWasHired
  <2>5. RequestsEarned' /\ Overlaps' /\ CompletesAccepted'
    BY <2>1 DEF GigInv, RequestsEarned, Overlaps, CompletesAccepted, WritesStatus
  <2> QED
    BY <2>3, <2>4, <2>5 DEF GigInv
<1>12. ASSUME NEW t \in Thread, MarkFlag(t) PROVE GigInv'
  <2>1. thread[t].op = "hiding" /\ thread[t].flag \in Flag
    BY <1>12, <1>f, GigRequestFields DEF MarkFlag
  <2>2. /\ \A g \in Flag : g # thread[t].flag => flag'[g] = flag[g]
        /\ flag'[thread[t].flag] = [flag[thread[t].flag] EXCEPT !.status = "actioned"]
        /\ \A u \in Thread : thread'[u] = IF u = t THEN Idle ELSE thread[u]
        /\ UNCHANGED <<status, rating, history>>
    BY <1>12, <1>f, <2>1 DEF MarkFlag
  <2>3. /\ flag[thread[t].flag] \in FlagRow /\ flag'[thread[t].flag] # None
        /\ flag'[thread[t].flag].of = flag[thread[t].flag].of
    BY <1>f, <2>1, <2>2, NoneAssumption DEF FlagRow, GigInv, FlagsOfRatings
  <2>4. FlagsOfRatings'
    <3>1. \A u \in Thread : thread[u].op = "hiding" => thread[u].flag \in Flag
      BY <1>f, GigRequestFields
    <3>2. \A f \in Flag : flag'[f] # None => flag[f] # None /\ flag'[f].of = flag[f].of
      BY <2>1, <2>2, <2>3, NoneAssumption
    <3>3. \A f \in Flag : flag'[f] # None => rating'[flag'[f].of] # None
      <4>1. ASSUME NEW f \in Flag, flag'[f] # None PROVE rating'[flag'[f].of] # None
        <5>1. flag[f] # None /\ flag'[f].of = flag[f].of
          BY <3>2, <4>1
        <5>2. rating[flag[f].of] # None
          BY <5>1 DEF GigInv, FlagsOfRatings, Rated
        <5> QED
          BY <5>1, <5>2, <2>2
      <4> QED
        BY <4>1
    <3>4. \A u \in Thread : thread'[u].op = "hiding" => flag'[thread'[u].flag] # None
      BY <2>2, <2>3, <3>1 DEF GigInv, FlagsOfRatings, Idle
    <3> QED
      BY <3>3, <3>4 DEF FlagsOfRatings, Rated
  <2>5. StatusEarned' /\ RatedWasHired'
    BY <2>2 DEF GigInv, StatusEarned, RatedWasHired, Rated
  <2>6. RequestsEarned' /\ Overlaps' /\ CompletesAccepted'
    BY <2>2 DEF GigInv, RequestsEarned, Overlaps, CompletesAccepted, WritesStatus, Idle
  <2> QED
    BY <2>4, <2>5, <2>6 DEF GigInv
<1> QED
  BY <1>1, <1>2, <1>3, <1>4, <1>5, <1>6, <1>7, <1>8, <1>9, <1>10, <1>11, <1>12
     DEF GigNext, Next, EmployerStep, RatingStep, FlagStep

-----------------------------------------------------------------------------
(* What holds of messages and their requests *)

Sending(t) == thread[t].op \in {"sending", "committing"}

\* A message under way has no row yet, is nobody else's, and has its
\* attachment on the disk once that is checked.
NewMessages ==
  \A t \in Thread :
    Sending(t) =>
      /\ ~M!Sent(thread[t].msg) /\ thread[t].msg \notin leftover
      /\ thread[t].msg \in disk <=> thread[t].op = "committing" /\ thread[t].file
      /\ \A u \in Thread : u # t /\ Sending(u) => thread[u].msg # thread[t].msg

\* An erasure has found its side's messages, but for those that overtook it,
\* and has deleted their attachments.
Erasures ==
  \A t \in Thread :
    thread[t].op = "erasing" =>
      /\ \A m \in Msg : M!Sent(m) /\ message[m].by = thread[t].by
                          => m \in thread[t].found \cup overtaken
      /\ \A m \in thread[t].found : /\ M!Sent(m) /\ message[m].by = thread[t].by
                                    /\ m \notin disk \ leftover

\* What is to be notified or served is in the table.
Deliveries ==
  \A t \in Thread :
    /\ thread[t].op = "notifying" => M!Sent(thread[t].msg)
    /\ thread[t].op = "serving" => thread[t].marked \subseteq M!OfApp(thread[t].app)

MessageInv ==
  /\ NewMessages /\ Erasures /\ Deliveries
  /\ ErasedTextIsGone /\ ReadWasServed /\ AttachmentsAgree

RowsTyped ==
  /\ message \in [Msg -> M!MessageRow \cup {None}]
  /\ thread \in [Thread -> AnyRequest]
  /\ served \in [M!Side -> SUBSET Msg]

LEMMA TypedRows == ASSUME Typed PROVE RowsTyped
BY DEF Typed, HiringTypeOK, M!TypeRows, RowsTyped, AnyRequest

\* Steps of Gigs keep it.
LEMMA MessageInvFrame ==
  ASSUME Typed, MessageInv, GigNext
  PROVE  MessageInv'
<1> USE DEF messageVars, M!MessageOp, M!Sent, M!OfApp
<1>1. UNCHANGED messageVars
  BY DEF GigNext
<1>2. \A t \in Thread :
        thread'[t].op \in M!MessageOp \/ thread[t].op \in M!MessageOp => thread'[t] = thread[t]
  BY GigFrame
<1>3. NewMessages'
  BY <1>1, <1>2 DEF MessageInv, NewMessages, Sending
<1>4. Erasures' /\ Deliveries'
  BY <1>1, <1>2 DEF MessageInv, Erasures, Deliveries
<1>5. ErasedTextIsGone'
  BY <1>1 DEF MessageInv, ErasedTextIsGone, M!ErasedTextIsGone
<1>6. ReadWasServed' /\ AttachmentsAgree'
  BY <1>1, <1>2 DEF MessageInv, ReadWasServed, M!ReadWasServed, AttachmentsAgree, M!AttachmentsAgree
<1> QED
  BY <1>3, <1>4, <1>5, <1>6 DEF MessageInv

\* A message starts: nothing has been written.
LEMMA MessageInvStarts ==
  ASSUME Typed, MessageInv, UNCHANGED messageVars,
         NEW t \in Thread, NEW m \in Msg, M!Fresh(m), thread[t].op \notin M!MessageOp,
         NEW r, r.msg = m, r.op = "sending" \/ (r.op = "committing" /\ ~r.file),
         thread' = [thread EXCEPT ![t] = r]
  PROVE  MessageInv'
<1> USE TypedRows DEF messageVars, M!MessageOp, M!Sent, M!OfApp
<1>1. \A u \in Thread : thread'[u] = IF u = t THEN r ELSE thread[u]
  BY DEF RowsTyped
<1>2. NewMessages'
  BY <1>1 DEF MessageInv, NewMessages, Sending, M!Fresh
<1>3. Erasures' /\ Deliveries'
  BY <1>1 DEF MessageInv, Erasures, Deliveries
<1>4. ErasedTextIsGone'
  BY DEF MessageInv, ErasedTextIsGone, M!ErasedTextIsGone
<1>5. ReadWasServed'
  BY <1>1 DEF MessageInv, ReadWasServed, M!ReadWasServed
<1>6. AttachmentsAgree'
  BY <1>1 DEF MessageInv, AttachmentsAgree, M!AttachmentsAgree
<1> QED
  BY <1>2, <1>3, <1>4, <1>5, <1>6 DEF MessageInv

\* What a refused attachment leaves on the disk is accounted for.
LeavesOnDisk(t) ==
  \/ UNCHANGED <<disk, leftover>>
  \/ /\ thread[t].op = "sending"
     /\ disk' = disk \cup {thread[t].msg} /\ leftover' = leftover \cup {thread[t].msg}

\* A request that has written no row and writes none ends.
LEMMA MessageInvRefused ==
  ASSUME Typed, MessageInv,
         UNCHANGED <<message, erased, served, unseen, halted, overtaken>>,
         NEW t \in Thread, thread[t].op \notin {"committing", "serving", "erasing"},
         LeavesOnDisk(t), thread' = [thread EXCEPT ![t] = Idle]
  PROVE  MessageInv'
<1> USE TypedRows DEF M!Sent, M!OfApp
<1>1. \A u \in Thread : thread'[u] = IF u = t THEN Idle ELSE thread[u]
  BY DEF RowsTyped
<1>2. Idle.op = "idle"
  BY DEF Idle
<1>3. NewMessages'
  BY <1>1, <1>2 DEF MessageInv, NewMessages, Sending, LeavesOnDisk
<1>4. Erasures' /\ Deliveries'
  BY <1>1, <1>2 DEF MessageInv, Erasures, Deliveries, LeavesOnDisk
<1>5. ErasedTextIsGone'
  BY DEF MessageInv, ErasedTextIsGone, M!ErasedTextIsGone
<1>6. ReadWasServed'
  BY <1>1, <1>2 DEF MessageInv, ReadWasServed, M!ReadWasServed
<1>7. AttachmentsAgree'
  BY <1>1, <1>2 DEF MessageInv, AttachmentsAgree, M!AttachmentsAgree, LeavesOnDisk
<1> QED
  BY <1>3, <1>4, <1>5, <1>6, <1>7 DEF MessageInv

\* A thread of messages is opened, after a refusal or not.
LEMMA MessageInvOpened ==
  ASSUME Typed, MessageInv,
         UNCHANGED <<erased, served, unseen, halted, overtaken>>,
         NEW t \in Thread, thread[t].op \notin {"committing", "serving", "erasing"},
         NEW a \in App, NEW s \in M!Side, LeavesOnDisk(t), M!Opened(t, a, s)
  PROVE  MessageInv'
<1> USE TypedRows
<1> DEFINE marked == M!Unread(a, s)
           r == [op |-> "serving", app |-> a, by |-> s, marked |-> marked]
<1>1. \A u \in Thread : thread'[u] = IF u = t THEN r ELSE thread[u]
  BY DEF RowsTyped, M!Opened, M!Become
<1>2. \A m \in Msg : message'[m] = IF m \in marked THEN [message[m] EXCEPT !.read = TRUE]
                                                  ELSE message[m]
  BY DEF M!Opened
<1>3. /\ marked \subseteq Msg
      /\ \A m \in marked : M!Sent(m) /\ message[m].app = a /\ message[m].by = M!Other(s)
  BY DEF M!Unread, M!OfApp
<1>4. \A m \in Msg :
        /\ M!Sent(m)' <=> M!Sent(m)
        /\ M!Sent(m) => /\ message'[m].app = message[m].app /\ message'[m].by = message[m].by
                        /\ message'[m].text = message[m].text
                        /\ message'[m].file = message[m].file
                        /\ message'[m].read => message[m].read \/ m \in marked
  <2>1. ASSUME NEW m \in Msg, m \in marked
        PROVE  /\ message[m] \in M!MessageRow
               /\ [message[m] EXCEPT !.read = TRUE] \in M!MessageRow
    <3>1. message[m] \in M!MessageRow
      BY <1>3, <2>1 DEF RowsTyped, M!Sent
    <3> QED
      BY <3>1 DEF M!MessageRow
  <2> QED
    BY <1>2, <1>3, <2>1, MessageAssumption DEF M!Sent, M!MessageRow
<1>5. M!Other(M!Other(s)) = s
  BY DEF M!Other, M!Side
<1> HIDE DEF marked
<1>6. r.op = "serving" /\ r.app = a /\ r.by = s /\ r.marked = marked
  OBVIOUS
<1> HIDE DEF r
<1>t. \A u \in Thread : /\ Sending(u) => thread[u].msg \in Msg
                        /\ thread[u].op = "notifying" => thread[u].msg \in Msg
                        /\ thread[u].op = "erasing" => thread[u].found \subseteq Msg
                        /\ thread[u].op = "serving" => thread[u].marked \subseteq Msg
  BY MessageRequestFields DEF RowsTyped, Sending
<1>7. NewMessages'
  BY <1>1, <1>4, <1>6, <1>t DEF MessageInv, NewMessages, Sending, LeavesOnDisk
<1>8. Erasures'
  <2>1. \A m \in disk' : m \in disk \ leftover \/ m \in leftover' \/ m \notin disk
    BY DEF LeavesOnDisk
  <2>2. \A m \in Msg : M!Sent(m) /\ m \in disk' \ leftover' => m \in disk \ leftover
    BY DEF MessageInv, NewMessages, Sending, LeavesOnDisk
  <2> QED
    BY <1>1, <1>4, <1>6, <1>t, <2>2 DEF MessageInv, Erasures
<1>9. Deliveries'
  BY <1>1, <1>3, <1>4, <1>6, <1>t DEF MessageInv, Deliveries, M!OfApp
<1>10. ErasedTextIsGone'
  BY <1>4 DEF MessageInv, ErasedTextIsGone, M!ErasedTextIsGone
<1>11. ReadWasServed'
  BY <1>1, <1>3, <1>4, <1>5, <1>6 DEF MessageInv, ReadWasServed, M!ReadWasServed
<1>12. AttachmentsAgree'
  <2>1. disk \subseteq disk' /\ disk' \ leftover' \subseteq disk \ leftover
    BY DEF LeavesOnDisk
  <2>2. ASSUME NEW m \in Msg, M!Sent(m)', message'[m].file
        PROVE  \/ m \in disk'
               \/ message'[m].by \in halted'
               \/ \E u \in Thread : thread'[u].op = "erasing" /\ m \in thread'[u].found
    <3>1. M!Sent(m) /\ message[m].file /\ message'[m].by = message[m].by
      BY <1>4, <2>2
    <3>2. \A u \in Thread : thread[u].op = "erasing" => thread'[u] = thread[u]
      BY <1>1
    <3> QED
      BY <2>1, <3>1, <3>2 DEF MessageInv, AttachmentsAgree, M!AttachmentsAgree
  <2>3. ASSUME NEW m \in disk' \ leftover'
        PROVE  \/ M!Sent(m)' /\ message'[m].file
               \/ \E u \in Thread : thread'[u].op = "committing" /\ thread'[u].msg = m
    <3>1. m \in Msg
      BY <2>1, <2>3 DEF Typed, HiringTypeOK, M!TypeRows
    <3>2. \A u \in Thread : thread[u].op = "committing" => thread'[u] = thread[u]
      BY <1>1
    <3> QED
      BY <1>4, <2>1, <2>3, <3>1, <3>2 DEF MessageInv, AttachmentsAgree, M!AttachmentsAgree
  <2> QED
    BY <2>2, <2>3 DEF AttachmentsAgree, M!AttachmentsAgree
<1> QED
  BY <1>7, <1>8, <1>9, <1>10, <1>11, <1>12 DEF MessageInv

\* Every step of Messages.
LEMMA MessageInvStep ==
  ASSUME Typed, MessageInv, MessageNext
  PROVE  MessageInv'
<1> USE TypedRows DEF M!Become, M!accounts
<1>t. \A u \in Thread :
        /\ Sending(u) => thread[u].msg \in Msg /\ thread[u].app \in App /\ thread[u].by \in M!Side
        /\ thread[u].op = "notifying" => thread[u].msg \in Msg
        /\ thread[u].op = "erasing" => thread[u].found \subseteq Msg /\ thread[u].by \in M!Side
        /\ thread[u].op = "serving" => /\ thread[u].marked \subseteq Msg
                                       /\ thread[u].app \in App /\ thread[u].by \in M!Side
  BY MessageRequestFields DEF RowsTyped, Sending
<1>1. ASSUME NEW t \in Thread, NEW m \in Msg, NEW a \in App, NEW s \in M!Side,
             M!SendText(t, m, a, s)
      PROVE  MessageInv'
  <2> DEFINE r == [op |-> "committing", msg |-> m, app |-> a, by |-> s, file |-> FALSE]
  <2>1. /\ r.msg = m /\ r.op = "committing" /\ ~r.file /\ M!Fresh(m)
        /\ thread[t].op \notin M!MessageOp
        /\ thread' = [thread EXCEPT ![t] = r] /\ UNCHANGED messageVars
    BY <1>1 DEF M!SendText, M!Begin, M!MayBegin, M!Idle, M!MessageOp, messageVars, M!history
  <2> HIDE DEF r
  <2> QED
    BY <2>1, MessageInvStarts
<1>2. ASSUME NEW t \in Thread, NEW m \in Msg, NEW a \in App, NEW s \in M!Side,
             NEW long \in BOOLEAN, M!SendFile(t, m, a, s, long)
      PROVE  MessageInv'
  <2> DEFINE r == [op |-> "sending", msg |-> m, app |-> a, by |-> s, long |-> long]
  <2>1. r.msg = m /\ r.op = "sending"
    OBVIOUS
  <2>2. /\ M!Fresh(m)
        /\ thread[t].op \notin M!MessageOp
        /\ thread' = [thread EXCEPT ![t] = r] /\ UNCHANGED messageVars
    BY <1>2 DEF M!SendFile, M!Begin, M!MayBegin, M!Idle, M!MessageOp, messageVars, M!history
  <2> HIDE DEF r
  <2> QED
    BY <2>1, <2>2, MessageInvStarts
<1>3. ASSUME NEW t \in Thread, thread[t].op = "sending", M!Refused(t), LeavesOnDisk(t),
             UNCHANGED <<erased, served, unseen, halted, overtaken>>
      PROVE  MessageInv'
  <2>1. CASE M!Opened(t, thread[t].app, thread[t].by)
    BY <1>t, <1>3, <2>1, MessageInvOpened DEF Sending
  <2>2. CASE thread' = [thread EXCEPT ![t] = M!Idle] /\ message' = message
    BY <1>3, <2>2, MessageInvRefused DEF M!Idle, Idle
  <2> QED
    BY <1>3, <2>1, <2>2 DEF M!Refused
<1>4. ASSUME NEW t \in Thread, M!RefuseAttachment(t) PROVE MessageInv'
  BY <1>3, <1>4 DEF M!RefuseAttachment, LeavesOnDisk, M!history
<1>5. ASSUME NEW t \in Thread, M!SaveAttachment(t), thread[t].long PROVE MessageInv'
  BY <1>3, <1>5 DEF M!SaveAttachment, LeavesOnDisk
<1>6. ASSUME NEW t \in Thread, M!SaveAttachment(t), ~thread[t].long PROVE MessageInv'
  <2> DEFINE r == [op |-> "committing", msg |-> thread[t].msg, app |-> thread[t].app,
                   by |-> thread[t].by, file |-> TRUE]
  <2>1. /\ thread[t].op = "sending" /\ disk' = disk \cup {thread[t].msg}
        /\ UNCHANGED <<message, erased, served, unseen, leftover, halted, overtaken>>
        /\ thread' = [thread EXCEPT ![t] = r]
    BY <1>6 DEF M!SaveAttachment
  <2>2. r.op = "committing" /\ r.msg = thread[t].msg /\ r.file
    OBVIOUS
  <2> HIDE DEF r
  <2>3. \A u \in Thread : thread'[u] = IF u = t THEN r ELSE thread[u]
    BY <2>1 DEF RowsTyped
  <2>4. NewMessages'
    BY <2>1, <2>2, <2>3 DEF MessageInv, NewMessages, Sending, M!Sent
  <2>5. Erasures' /\ Deliveries'
    BY <2>1, <2>2, <2>3
       DEF MessageInv, Erasures, Deliveries, NewMessages, Sending, M!Sent, M!OfApp
  <2>6. ErasedTextIsGone'
    BY <2>1 DEF MessageInv, ErasedTextIsGone, M!ErasedTextIsGone, M!Sent
  <2>7. ReadWasServed'
    BY <2>1, <2>2, <2>3 DEF MessageInv, ReadWasServed, M!ReadWasServed, M!Sent
  <2>8. AttachmentsAgree'
    BY <2>1, <2>2, <2>3 DEF MessageInv, AttachmentsAgree, M!AttachmentsAgree, M!Sent
  <2> QED
    BY <2>4, <2>5, <2>6, <2>7, <2>8 DEF MessageInv
<1>7. ASSUME NEW t \in Thread, M!CommitMessage(t) PROVE MessageInv'
  <2> DEFINE n == thread[t].msg
             row == [app |-> thread[t].app, by |-> thread[t].by, text |-> "own",
                     read |-> FALSE, file |-> thread[t].file]
  <2>1. /\ thread[t].op = "committing" /\ message' = [message EXCEPT ![n] = row]
        /\ overtaken' = IF M!BeingErased(thread[t].by) THEN overtaken \cup {n} ELSE overtaken
        /\ UNCHANGED <<disk, erased, served, unseen, leftover, halted>>
    BY <1>7 DEF M!CommitMessage
  <2>2. /\ \A u \in Thread : u # t => thread'[u] = thread[u]
        /\ thread'[t].op = "idle" \/ (thread'[t].op = "notifying" /\ thread'[t].msg = n)
    <3>1. CASE M!Notifies(thread[t].by)
      <4>1. thread' = [thread EXCEPT ![t] = [op |-> "notifying", msg |-> n]]
        BY <1>7, <3>1 DEF M!CommitMessage
      <4> QED
        BY <4>1 DEF RowsTyped
    <3>2. CASE ~M!Notifies(thread[t].by)
      <4>1. thread' = [thread EXCEPT ![t] = M!Idle]
        BY <1>7, <3>2 DEF M!CommitMessage
      <4>2. thread'[t].op = "idle"
        BY <4>1 DEF RowsTyped, M!Idle
      <4>3. \A u \in Thread : u # t => thread'[u] = thread[u]
        BY <4>1 DEF RowsTyped
      <4> QED
        BY <4>2, <4>3
    <3> QED
      BY <3>1, <3>2
  <2>3. /\ n \in Msg /\ ~M!Sent(n) /\ n \notin leftover
        /\ n \in disk <=> thread[t].file
        /\ \A u \in Thread : u # t /\ Sending(u) => thread[u].msg # n
    BY <1>t, <2>1 DEF MessageInv, NewMessages, Sending
  <2>4. /\ row \in M!MessageRow /\ row # None /\ row.by = thread[t].by /\ row.read = FALSE
        /\ row.file = thread[t].file
    <3>1. thread[t].file \in BOOLEAN /\ thread[t].app \in App /\ thread[t].by \in M!Side
      BY <2>1, MessageRequestFields DEF RowsTyped
    <3>2. row \in M!MessageRow
      BY <3>1 DEF M!MessageRow
    <3> QED
      BY <3>2, MessageAssumption
  <2> HIDE DEF row
  <2>5. \A m \in Msg : message'[m] = IF m = n THEN row ELSE message[m]
    BY <2>1 DEF RowsTyped
  <2>6. /\ \A m \in Msg : M!Sent(m)' <=> m = n \/ M!Sent(m)
        /\ n \in overtaken' \/ ~M!BeingErased(row.by)
        /\ overtaken \subseteq overtaken'
    BY <2>1, <2>3, <2>4, <2>5 DEF M!Sent
  <2> HIDE DEF n
  <2>7. NewMessages'
    BY <1>t, <2>1, <2>2, <2>3, <2>6 DEF MessageInv, NewMessages, Sending
  <2>8. Erasures'
    BY <1>t, <2>1, <2>2, <2>3, <2>5, <2>6 DEF MessageInv, Erasures, M!BeingErased
  <2>9. Deliveries'
    BY <1>t, <2>1, <2>2, <2>3, <2>5, <2>6 DEF MessageInv, Deliveries, M!OfApp
  <2>10. ErasedTextIsGone'
    BY <2>1, <2>5, <2>6
       DEF MessageInv, ErasedTextIsGone, M!ErasedTextIsGone, M!BeingErased
  <2>11. ReadWasServed'
    BY <2>1, <2>2, <2>4, <2>5, <2>6 DEF MessageInv, ReadWasServed, M!ReadWasServed
  <2>12. AttachmentsAgree'
    <3>1. thread[t].msg = n
      BY DEF n
    <3>2. disk \subseteq Msg
      BY DEF Typed, HiringTypeOK, M!TypeRows
    <3> QED
      BY <2>1, <2>2, <2>3, <2>4, <2>5, <2>6, <3>1, <3>2
         DEF MessageInv, AttachmentsAgree, M!AttachmentsAgree
  <2> QED
    BY <2>7, <2>8, <2>9, <2>10, <2>11, <2>12 DEF MessageInv
<1>8. ASSUME NEW t \in Thread, M!Notify(t) PROVE MessageInv'
  BY <1>8, MessageInvRefused DEF M!Notify, M!Idle, Idle, LeavesOnDisk, M!history
<1>9. ASSUME NEW t \in Thread, NEW a \in App, NEW s \in M!Side, M!OpenMessages(t, a, s)
      PROVE  MessageInv'
  BY <1>9, MessageInvOpened
     DEF M!OpenMessages, M!MayBegin, M!Idle, LeavesOnDisk, M!history
<1>10. ASSUME NEW t \in Thread, M!ServeMessages(t) PROVE MessageInv'
  <2>1. /\ thread[t].op = "serving"
        /\ served' = [served EXCEPT ![thread[t].by] = @ \cup M!OfApp(thread[t].app)]
        /\ UNCHANGED <<message, disk, erased, unseen, leftover, halted, overtaken>>
        /\ thread' = [thread EXCEPT ![t] = M!Idle]
    BY <1>10 DEF M!ServeMessages
  <2>2. \A u \in Thread : thread'[u] = IF u = t THEN M!Idle ELSE thread[u]
    BY <2>1 DEF RowsTyped
  <2>3. M!Idle.op = "idle"
    BY DEF M!Idle
  <2>4. NewMessages'
    BY <2>1, <2>2, <2>3 DEF MessageInv, NewMessages, Sending, M!Sent
  <2>5. Erasures' /\ Deliveries'
    BY <2>1, <2>2, <2>3 DEF MessageInv, Erasures, Deliveries, M!Sent, M!OfApp
  <2>6. ErasedTextIsGone'
    BY <2>1 DEF MessageInv, ErasedTextIsGone, M!ErasedTextIsGone, M!Sent
  <2>7. ReadWasServed'
    <3>1. /\ thread[t].by \in M!Side /\ thread[t].marked \subseteq M!OfApp(thread[t].app)
      BY <1>t, <2>1 DEF MessageInv, Deliveries
    <3>2. /\ \A s \in M!Side : served[s] \subseteq served'[s]
          /\ thread[t].marked \subseteq served'[thread[t].by]
      BY <2>1, <3>1 DEF RowsTyped
    <3>3. \A m \in Msg : M!Sent(m) => M!Other(message[m].by) \in M!Side
      BY DEF RowsTyped, M!Sent, M!MessageRow, M!Other, M!Side
    <3> QED
      BY <2>1, <2>2, <2>3, <3>2, <3>3 DEF MessageInv, ReadWasServed, M!ReadWasServed, M!Sent
  <2>8. AttachmentsAgree'
    BY <2>1, <2>2, <2>3 DEF MessageInv, AttachmentsAgree, M!AttachmentsAgree, M!Sent
  <2> QED
    BY <2>4, <2>5, <2>6, <2>7, <2>8 DEF MessageInv
<1>11. ASSUME NEW t \in Thread, NEW s \in M!Side, M!EraseAttachments(t, s) PROVE MessageInv'
  <2> DEFINE r == [op |-> "erasing", by |-> s, found |-> M!SentBy(s), was |-> s \notin inactive]
  <2>k. PICK kept \in SUBSET (M!Attached(s) \cap disk) :
          /\ disk' = disk \ (M!Attached(s) \ kept)
          /\ leftover' = leftover \cup kept
    BY <1>11 DEF M!EraseAttachments
  <2>1. /\ thread[t].op = "idle"
        /\ UNCHANGED <<message, erased, served, unseen, halted, overtaken>>
        /\ thread' = [thread EXCEPT ![t] = r]
    BY <1>11 DEF M!EraseAttachments, M!Idle
  <2>2. /\ r.op = "erasing" /\ r.by = s
        /\ r.found = {m \in Msg : M!Sent(m) /\ message[m].by = s}
    BY DEF M!SentBy
  <2> HIDE DEF r
  <2>3. \A u \in Thread : thread'[u] = IF u = t THEN r ELSE thread[u]
    BY <2>1 DEF RowsTyped
  <2>4. \A m : m \in M!Attached(s) <=> m \in r.found /\ message[m].file
    BY <2>2 DEF M!Attached, M!SentBy
  <2>d. /\ disk' \subseteq disk /\ disk' \ leftover' \subseteq disk \ leftover
        /\ \A m \in disk \ disk' : m \in M!Attached(s)
        /\ \A m \in leftover' \ leftover : m \in M!Attached(s)
        /\ \A m \in M!Attached(s) : m \notin disk' \ leftover'
    BY <2>k
  <2>5. NewMessages'
    BY <1>t, <2>d, <2>1, <2>2, <2>3, <2>4 DEF MessageInv, NewMessages, Sending, M!Sent
  <2>6. Erasures'
    <3>1. \A m \in r.found : m \notin disk' \ leftover'
      <4>1. ASSUME NEW m \in r.found, m \in disk' \ leftover' PROVE FALSE
        <5>1. m \in Msg /\ M!Sent(m) /\ m \in disk \ leftover /\ ~message[m].file
          BY <2>d, <2>2, <2>4, <4>1
        <5>2. PICK u \in Thread : thread[u].op = "committing" /\ thread[u].msg = m
          BY <5>1 DEF MessageInv, AttachmentsAgree, M!AttachmentsAgree
        <5> QED
          BY <5>1, <5>2 DEF MessageInv, NewMessages, Sending
      <4> QED
        BY <4>1
    <3> QED
      BY <2>d, <2>1, <2>2, <2>3, <3>1 DEF MessageInv, Erasures, M!Sent
  <2>7. Deliveries' /\ ErasedTextIsGone'
    BY <2>1, <2>2, <2>3
       DEF MessageInv, Deliveries, ErasedTextIsGone, M!ErasedTextIsGone, M!Sent, M!OfApp
  <2>8. ReadWasServed'
    BY <2>1, <2>2, <2>3 DEF MessageInv, ReadWasServed, M!ReadWasServed, M!Sent
  <2>9. AttachmentsAgree'
    <3>1. ASSUME NEW m \in Msg, M!Sent(m), message[m].file
          PROVE  \/ m \in disk' \/ message[m].by \in halted
                 \/ \E u \in Thread : thread'[u].op = "erasing" /\ m \in thread'[u].found
      <4>1. CASE m \in M!Attached(s)
        BY <2>2, <2>3, <2>4, <4>1
      <4>2. CASE m \notin M!Attached(s)
        <5>1. \A u \in Thread : thread[u].op = "erasing" => thread'[u] = thread[u]
          BY <2>1, <2>3
        <5> QED
          BY <2>d, <2>1, <3>1, <4>2, <5>1 DEF MessageInv, AttachmentsAgree, M!AttachmentsAgree
      <4> QED
        BY <4>1, <4>2
    <3>2. \A u \in Thread : thread[u].op = "committing" => thread'[u] = thread[u]
      BY <2>1, <2>3
    <3> QED
      BY <2>d, <2>1, <3>1, <3>2 DEF MessageInv, AttachmentsAgree, M!AttachmentsAgree, M!Sent
  <2> QED
    BY <2>5, <2>6, <2>7, <2>8, <2>9 DEF MessageInv
<1>12. ASSUME NEW t \in Thread, M!EraseMessages(t) PROVE MessageInv'
  <2> DEFINE found == thread[t].found
  <2>1. /\ thread[t].op = "erasing" /\ erased' = erased \cup {thread[t].by}
        /\ UNCHANGED <<disk, served, unseen, leftover, halted, overtaken>>
        /\ thread' = [thread EXCEPT ![t] = M!Idle]
    BY <1>12 DEF M!EraseMessages, M!history
  <2>2. \A u \in Thread : thread'[u] = IF u = t THEN M!Idle ELSE thread[u]
    BY <2>1 DEF RowsTyped
  <2>3. M!Idle.op = "idle"
    BY DEF M!Idle
  <2>4. /\ \A m \in found : m \in Msg /\ M!Sent(m) /\ message[m].by = thread[t].by
                            /\ m \notin disk \ leftover
        /\ \A m \in Msg : M!Sent(m) /\ message[m].by = thread[t].by => m \in found \cup overtaken
    BY <1>t, <2>1 DEF MessageInv, Erasures
  <2>5. \A m \in Msg :
          /\ M!Sent(m)' <=> M!Sent(m)
          /\ M!Sent(m) => /\ message'[m].app = message[m].app
                          /\ message'[m].by = message[m].by
                          /\ message'[m].read = message[m].read
          /\ m \in found => message'[m].text = "deleted" /\ message'[m].file = FALSE
          /\ m \notin found => message'[m] = message[m]
    <3>1. ASSUME NEW m \in found
          PROVE  /\ message[m] \in M!MessageRow
                 /\ M!Redacted(message[m]) \in M!MessageRow
      <4>1. message[m] \in M!MessageRow
        BY <2>4 DEF RowsTyped, M!Sent
      <4> QED
        BY <4>1 DEF M!MessageRow, M!Redacted
    <3>2. \A m \in Msg : message'[m] =
             IF m \in found THEN M!Redacted(message[m])
                            ELSE message[m]
      BY <1>12 DEF M!EraseMessages
    <3>3. ASSUME NEW m \in found
          PROVE  /\ M!Sent(m)' /\ M!Sent(m) /\ m \in Msg
                 /\ message'[m].app = message[m].app /\ message'[m].by = message[m].by
                 /\ message'[m].read = message[m].read
                 /\ message'[m].text = "deleted" /\ message'[m].file = FALSE
      <4>1. message'[m] = M!Redacted(message[m])
        BY <2>4, <3>2, <3>3
      <4>2. message'[m] # None
        BY <4>1, <3>1, <3>3, MessageAssumption
      <4>3. message[m] \in M!MessageRow
        BY <3>1, <3>3
      <4> QED
        BY <2>4, <3>3, <4>1, <4>2, <4>3 DEF M!Sent, M!MessageRow, M!Redacted
    <3>4. ASSUME NEW m \in Msg, m \notin found PROVE message'[m] = message[m]
      BY <3>2, <3>4
    <3> QED
      BY <3>3, <3>4 DEF M!Sent
  <2> HIDE DEF found
  <2>6. NewMessages'
    BY <1>t, <2>1, <2>2, <2>3, <2>5 DEF MessageInv, NewMessages, Sending
  <2>7. Erasures'
    BY <1>t, <2>1, <2>2, <2>3, <2>5 DEF MessageInv, Erasures
  <2>8. Deliveries'
    BY <1>t, <2>1, <2>2, <2>3, <2>5 DEF MessageInv, Deliveries, M!OfApp
  <2>9. ErasedTextIsGone'
    BY <2>1, <2>4, <2>5 DEF MessageInv, ErasedTextIsGone, M!ErasedTextIsGone
  <2>10. ReadWasServed'
    BY <2>1, <2>2, <2>3, <2>5 DEF MessageInv, ReadWasServed, M!ReadWasServed
  <2>11. AttachmentsAgree'
    <3>1. thread[t].found = found
      BY DEF found
    <3>2. disk \subseteq Msg
      BY DEF Typed, HiringTypeOK, M!TypeRows
    <3>3. \A u \in Thread : thread[u].op = "committing" => thread'[u] = thread[u]
      BY <2>1, <2>2
    <3> QED
      BY <2>1, <2>2, <2>3, <2>4, <2>5, <3>1, <3>2, <3>3
         DEF MessageInv, AttachmentsAgree, M!AttachmentsAgree
  <2> QED
    BY <2>6, <2>7, <2>8, <2>9, <2>10, <2>11 DEF MessageInv
<1>13. ASSUME NEW t \in Thread, M!CrashMessage(t) PROVE MessageInv'
  <2>1. /\ UNCHANGED <<message, disk, erased, served, overtaken>>
        /\ thread' = [thread EXCEPT ![t] = M!Idle]
        /\ unseen \subseteq unseen' /\ leftover \subseteq leftover' /\ halted \subseteq halted'
        /\ thread[t].op = "serving" => thread[t].marked \subseteq unseen'
        /\ thread[t].op = "erasing" => thread[t].by \in halted'
        /\ leftover' = IF thread[t].op = "committing"
                       THEN leftover \cup (disk \cap {thread[t].msg}) ELSE leftover
    BY <1>13 DEF M!CrashMessage
  <2>2. \A u \in Thread : thread'[u] = IF u = t THEN M!Idle ELSE thread[u]
    BY <2>1 DEF RowsTyped
  <2>3. M!Idle.op = "idle"
    BY DEF M!Idle
  <2>4. NewMessages'
    BY <2>1, <2>2, <2>3 DEF MessageInv, NewMessages, Sending, M!Sent
  <2>5. Erasures' /\ Deliveries' /\ ErasedTextIsGone'
    BY <2>1, <2>2, <2>3
       DEF MessageInv, Erasures, Deliveries, ErasedTextIsGone, M!ErasedTextIsGone,
           M!Sent, M!OfApp
  <2>6. ReadWasServed'
    BY <2>1, <2>2, <2>3 DEF MessageInv, ReadWasServed, M!ReadWasServed, M!Sent
  <2>7. AttachmentsAgree'
    BY <2>1, <2>2, <2>3
       DEF MessageInv, AttachmentsAgree, M!AttachmentsAgree, Erasures, M!Sent
  <2> QED
    BY <2>4, <2>5, <2>6, <2>7 DEF MessageInv
<1>14. ASSUME NEW s \in M!Side, M!SetActive(s) PROVE MessageInv'
  <2>1. UNCHANGED <<message, disk, erased, served, unseen, leftover, halted, overtaken, thread>>
    BY <1>14 DEF M!SetActive, M!history
  <2> QED
    BY <2>1 DEF MessageInv, NewMessages, Erasures, Deliveries, ErasedTextIsGone,
       M!ErasedTextIsGone, ReadWasServed, M!ReadWasServed, AttachmentsAgree,
       M!AttachmentsAgree, M!Sent, M!OfApp, Sending
<1> QED
  BY <1>1, <1>2, <1>4, <1>5, <1>6, <1>7, <1>8, <1>9, <1>10, <1>11, <1>12, <1>13, <1>14
     DEF MessageNext, M!Next, M!SendStep, M!ReadStep, M!EraseStep

-----------------------------------------------------------------------------
(* The inductive invariant *)

HiringInv == HiringTypeOK /\ GigInv /\ MessageInv

LEMMA InvIsTyped == ASSUME HiringInv PROVE Typed
BY DEF HiringInv, Typed, GigInv, MessageInv, Requests, Erasures, Deliveries

LEMMA HiringInvInit ==
  ASSUME HiringInit
  PROVE  HiringInv
<1> USE DEF HiringInit, Init, M!InitRows
<1>1. HiringTypeOK
  <2>1. TypeRows /\ M!TypeRows
    BY GigsAssumption DEF TypeRows, M!TypeRows, Status, M!Side
  <2>2. thread \in [Thread -> {Idle}] /\ inbox = <<>>
    OBVIOUS
  <2> QED
    BY <2>1, <2>2 DEF HiringTypeOK
<1>2. \A t \in Thread : thread[t].op = "idle"
  BY DEF Idle
<1>3. GigInv
  <2>1. FlagsOfRatings /\ RatedWasHired
    BY <1>2 DEF FlagsOfRatings, RatedWasHired, Rated
  <2>2. StatusEarned
    <3>1. \A a \in App : status[a] \in {"absent", "Pending"}
      OBVIOUS
    <3> QED
      BY <3>1 DEF StatusEarned
  <2>3. RequestsEarned /\ Overlaps /\ CompletesAccepted
    BY <1>2 DEF RequestsEarned, Overlaps, CompletesAccepted, WritesStatus
  <2> QED
    BY <2>1, <2>2, <2>3 DEF GigInv
<1>4. MessageInv
  <2>1. NewMessages /\ Erasures /\ Deliveries
    BY <1>2 DEF NewMessages, Erasures, Deliveries, Sending
  <2>2. ErasedTextIsGone /\ ReadWasServed /\ AttachmentsAgree
    BY DEF ErasedTextIsGone, M!ErasedTextIsGone, ReadWasServed, M!ReadWasServed,
       AttachmentsAgree, M!AttachmentsAgree, M!Sent
  <2> QED
    BY <2>1, <2>2 DEF MessageInv
<1> QED
  BY <1>1, <1>3, <1>4 DEF HiringInv

LEMMA HiringInvStep ==
  ASSUME HiringInv, [HiringNext]_hiringVars
  PROVE  HiringInv'
<1>t. Typed /\ GigInv /\ MessageInv
  BY InvIsTyped DEF HiringInv
<1>1. CASE GigNext
  BY <1>t, <1>1, GigTypes, GigInvStep, MessageInvFrame DEF HiringInv
<1>2. CASE MessageNext
  BY <1>t, <1>2, MessageTypes, GigInvFrame, MessageInvStep DEF HiringInv
<1>3. CASE UNCHANGED hiringVars
  <2> USE <1>3 DEF hiringVars, vars, rows, history, counters, messageVars
  <2>1. HiringTypeOK'
    BY <1>t DEF Typed, HiringTypeOK, TypeRows, M!TypeRows
  <2>2. GigInv'
    BY <1>t DEF GigInv, FlagsOfRatings, StatusEarned, RequestsEarned, Overlaps,
       CompletesAccepted, RatedWasHired, WritesStatus, Rated
  <2>3. MessageInv'
    BY <1>t DEF MessageInv, NewMessages, Erasures, Deliveries, ErasedTextIsGone,
       M!ErasedTextIsGone, ReadWasServed, M!ReadWasServed, AttachmentsAgree,
       M!AttachmentsAgree, M!Sent, M!OfApp, Sending
  <2> QED
    BY <2>1, <2>2, <2>3 DEF HiringInv
<1> QED
  BY <1>1, <1>2, <1>3 DEF HiringNext

LEMMA HiringInvAlways == HiringSpec => []HiringInv
<1>1. HiringInit => HiringInv
  BY HiringInvInit
<1>2. HiringInv /\ [HiringNext]_hiringVars => HiringInv'
  BY HiringInvStep
<1> QED
  BY <1>1, <1>2, PTL DEF HiringSpec

-----------------------------------------------------------------------------
(* Messages are told of once *)

Slots(m) == {i \in DOMAIN inbox : inbox[i].says = m}
Notifying(m) == \E t \in Thread : thread[t].op = "notifying" /\ thread[t].msg = m
OfEmployer(m) == M!Sent(m) /\ message[m].by = "employer"

\* One request notifies of a message, and the message is the employer's.
OneNotifier ==
  \A t \in Thread : thread[t].op = "notifying" =>
    /\ OfEmployer(thread[t].msg)
    /\ \A u \in Thread :
         thread[u].op = "notifying" /\ thread[u].msg = thread[t].msg => u = t

\* A notice is written when its request is over, and not before.
NoticeOnce(m) ==
  \/ m \in unnoticed \/ "user" \in erased
  \/ Slots(m) = {} /\ (OfEmployer(m) => Notifying(m))
  \/ OfEmployer(m) /\ ~Notifying(m) /\ \E i \in Nat : Slots(m) = {i}

ToldInv == OneNotifier /\ \A m \in Msg : NoticeOnce(m)

LEMMA SlotsGrow ==
  ASSUME Typed, NEW n, inbox' = Append(inbox, n), NEW m
  PROVE  /\ n.says # m => Slots(m)' = Slots(m)
         /\ n.says = m => Slots(m)' = Slots(m) \cup {Len(inbox) + 1}
         /\ Len(inbox) + 1 \in Nat
<1> DEFINE S == Notice \cup [app : App, says : Msg]
<1>1. inbox \in Seq(S)
  BY DEF Typed, HiringTypeOK
<1> HIDE DEF S
<1>2. /\ DOMAIN inbox = 1 .. Len(inbox) /\ Len(inbox) \in Nat
      /\ DOMAIN inbox' = 1 .. Len(inbox) + 1
      /\ \A i \in 1 .. Len(inbox) : inbox'[i] = inbox[i]
      /\ inbox'[Len(inbox) + 1] = n
  BY <1>1
<1> QED
  BY <1>2 DEF Slots

\* A step that tells of no message and ends no request that will.
LEMMA ToldFrame ==
  ASSUME ToldInv, \A m \in Msg : Slots(m)' = Slots(m),
         \A m \in Msg : OfEmployer(m)' <=> OfEmployer(m),
         \A t \in Thread : thread[t].op = "notifying" => thread[t].msg \in Msg,
         unnoticed \subseteq unnoticed', erased \subseteq erased',
         \A t \in Thread : \/ thread'[t] = thread[t]
                           \/ thread[t].op # "notifying" /\ thread'[t].op # "notifying"
  PROVE  ToldInv'
<1>1. \A m : Notifying(m)' <=> Notifying(m)
  BY DEF Notifying
<1>2. OneNotifier'
  BY DEF ToldInv, OneNotifier
<1>3. ASSUME NEW m \in Msg PROVE NoticeOnce(m)'
  BY <1>1 DEF ToldInv, NoticeOnce
<1> QED
  BY <1>2, <1>3 DEF ToldInv

\* Read marks and tombstones leave a row with its sender.
LEMMA RowWritten ==
  ASSUME NEW row \in M!MessageRow
  PROVE  /\ [row EXCEPT !.read = TRUE] # None
         /\ [row EXCEPT !.read = TRUE].by = row.by
         /\ M!Redacted(row) # None
         /\ M!Redacted(row).by = row.by
<1>1. /\ [row EXCEPT !.read = TRUE] \in M!MessageRow
      /\ M!Redacted(row) \in M!MessageRow
  BY DEF M!MessageRow, M!Redacted
<1>2. /\ [row EXCEPT !.read = TRUE].by = row.by
      /\ M!Redacted(row).by = row.by
  BY DEF M!MessageRow, M!Redacted
<1> QED
  BY <1>1, <1>2, MessageAssumption

\* A step of Gigs keeps ToldInv.
LEMMA ToldGig ==
  ASSUME Typed, ToldInv, GigNext
  PROVE  ToldInv'
<1>1. \A t \in Thread : thread[t] \in AnyRequest
  BY TypedRows DEF RowsTyped
<1>2. \A m \in Msg : Slots(m)' = Slots(m)
  <2>1. CASE inbox' = inbox
    BY <2>1 DEF Slots
  <2>2. ASSUME NEW t \in Thread, Deliver(t), NEW m \in Msg
        PROVE  Slots(m)' = Slots(m)
    <3>1. thread[t].says \in Status \cup {"rated"}
      BY <1>1, <2>2, GigRequestFields DEF Deliver
    <3>2. PICK n : n = [app |-> thread[t].app, says |-> thread[t].says]
      OBVIOUS
    <3>3. n.says # m
      BY <3>1, <3>2, NoticeAssumption
    <3>4. inbox' = Append(inbox, n)
      BY <2>2, <3>2 DEF Deliver
    <3> QED
      BY <3>3, <3>4, SlotsGrow
  <2>3. inbox' = inbox \/ \E t \in Thread : Deliver(t)
    BY DEF GigNext, Next, Apply, EmployerStep, StartCompletion, StartDecision, CommitDecision,
       CommitCompletion, ComposeNotice, RatingStep, StartRating, CommitRating, LoseRating,
       MarkFlag, Crash, FlagStep, FileFlag, DismissFlag, HideRating, LoseHiding
  <2> QED
    BY <2>1, <2>2, <2>3
<1>3. \A m \in Msg : OfEmployer(m)' <=> OfEmployer(m)
  BY DEF GigNext, messageVars, OfEmployer, M!Sent
<1>4. \A t \in Thread : \/ thread'[t] = thread[t]
                        \/ thread[t].op # "notifying" /\ thread'[t].op # "notifying"
  BY GigFrame DEF M!MessageOp
<1>5. unnoticed' = unnoticed /\ erased' = erased
  BY DEF GigNext, messageVars
<1> QED
  BY <1>1, <1>2, <1>3, <1>4, <1>5, ToldFrame, MessageRequestFields

\* A step of Messages keeps ToldInv.
LEMMA ToldMessage ==
  ASSUME Typed, MessageInv, ToldInv, MessageNext
  PROVE  ToldInv'
<1> USE TypedRows DEF M!Become, M!accounts
<1>t. \A u \in Thread :
        /\ Sending(u) => thread[u].msg \in Msg /\ thread[u].by \in M!Side
        /\ thread[u].op = "notifying" => thread[u].msg \in Msg
        /\ thread[u].op = "erasing" => thread[u].found \subseteq Msg /\ thread[u].by \in M!Side
  BY MessageRequestFields DEF RowsTyped, Sending
<1>f. ASSUME NEW t \in Thread, NEW r, thread[t].op # "notifying", r.op # "notifying",
             thread' = [thread EXCEPT ![t] = r], inbox' = inbox,
             unnoticed \subseteq unnoticed', erased \subseteq erased',
             \A m \in Msg : OfEmployer(m)' <=> OfEmployer(m)
      PROVE  ToldInv'
  <2>1. \A u \in Thread : \/ thread'[u] = thread[u]
                          \/ thread[u].op # "notifying" /\ thread'[u].op # "notifying"
    BY <1>f DEF RowsTyped
  <2>2. \A m \in Msg : Slots(m)' = Slots(m)
    BY <1>f DEF Slots
  <2> QED
    BY <1>f, <1>t, <2>1, <2>2, ToldFrame
<1>m. ASSUME message' = message
      PROVE  \A m \in Msg : OfEmployer(m)' <=> OfEmployer(m)
  BY <1>m DEF OfEmployer, M!Sent
<1>o. ASSUME NEW t \in Thread, NEW a, NEW s, M!Opened(t, a, s)
      PROVE  /\ \A m \in Msg : OfEmployer(m)' <=> OfEmployer(m)
             /\ \E r : r.op # "notifying" /\ thread' = [thread EXCEPT ![t] = r]
  <2>1. \A m \in M!Unread(a, s) : m \in Msg /\ M!Sent(m)
    BY DEF M!Unread, M!OfApp
  <2>2. \A m \in Msg : message'[m] = IF m \in M!Unread(a, s)
                                     THEN [message[m] EXCEPT !.read = TRUE] ELSE message[m]
    BY <1>o DEF M!Opened
  <2>3. ASSUME NEW m \in Msg PROVE OfEmployer(m)' <=> OfEmployer(m)
    <3>1. CASE m \notin M!Unread(a, s)
      BY <2>2, <3>1 DEF OfEmployer, M!Sent
    <3>2. CASE m \in M!Unread(a, s)
      <4>1. message[m] \in M!MessageRow /\ message[m] # None
        BY <2>1, <3>2 DEF RowsTyped, M!Sent
      <4>2. message'[m] # None /\ message'[m].by = message[m].by
        <5>1. message'[m] = [message[m] EXCEPT !.read = TRUE]
          BY <2>2, <3>2
        <5>2. PICK row \in M!MessageRow : row = message[m]
          BY <4>1
        <5>3. message'[m] = [row EXCEPT !.read = TRUE]
          BY <5>1, <5>2
        <5> QED
          BY <5>2, <5>3, RowWritten
      <4> QED
        BY <4>1, <4>2 DEF OfEmployer, M!Sent
    <3> QED
      BY <3>1, <3>2
  <2>4. \E r : r.op # "notifying" /\ thread' = [thread EXCEPT ![t] = r]
    BY <1>o DEF M!Opened
  <2> QED
    BY <2>3, <2>4
<1>r. ASSUME NEW t \in Thread, M!Refused(t)
      PROVE  /\ \A m \in Msg : OfEmployer(m)' <=> OfEmployer(m)
             /\ \E r : r.op # "notifying" /\ thread' = [thread EXCEPT ![t] = r]
  BY <1>r, <1>m, <1>o DEF M!Refused, M!Idle
<1>n. ASSUME NEW t \in Thread, NEW k, thread[t].op = "notifying", thread[t].msg = k,
             thread' = [thread EXCEPT ![t] = M!Idle]
      PROVE  /\ ~Notifying(k)'
             /\ \A m : m # k => (Notifying(m)' <=> Notifying(m))
             /\ \A u \in Thread : thread'[u].op = "notifying" => thread'[u] = thread[u]
  <2>1. thread'[t].op = "idle" /\ \A u \in Thread : u # t => thread'[u] = thread[u]
    BY <1>n DEF RowsTyped, M!Idle
  <2>2. \A u \in Thread : thread[u].op = "notifying" /\ thread[u].msg = k => u = t
    BY <1>n DEF ToldInv, OneNotifier
  <2> QED
    BY <1>n, <2>1, <2>2 DEF Notifying
<1>e. ASSUME \A u \in Thread : thread'[u].op = "notifying" => thread'[u] = thread[u],
             \A m \in Msg : OfEmployer(m)' <=> OfEmployer(m)
      PROVE  OneNotifier'
  <2>1. \A u \in Thread : thread'[u].op = "notifying" =>
          thread[u].op = "notifying" /\ thread[u].msg \in Msg /\ OfEmployer(thread[u].msg)
    BY <1>e, <1>t DEF ToldInv, OneNotifier
  <2>2. \A m \in Msg : OfEmployer(m) => message'[m] # None /\ message'[m].by = "employer"
    BY <1>e DEF OfEmployer, M!Sent
  <2> QED
    BY <1>e, <2>1, <2>2 DEF ToldInv, OneNotifier, OfEmployer, M!Sent
<1>1. ASSUME NEW t \in Thread, NEW m \in Msg, NEW a \in App, NEW s \in M!Side,
             M!SendText(t, m, a, s) \/ \E long \in BOOLEAN : M!SendFile(t, m, a, s, long)
      PROVE  ToldInv'
  <2>1. /\ thread[t].op # "notifying"
        /\ UNCHANGED <<message, inbox, unnoticed, erased>>
        /\ \E r : r.op # "notifying" /\ thread' = [thread EXCEPT ![t] = r]
    BY <1>1 DEF M!SendText, M!SendFile, M!Begin, M!MayBegin, M!Idle, M!history
  <2> QED
    BY <2>1, <1>f, <1>m
<1>2. ASSUME NEW t \in Thread, M!RefuseAttachment(t) \/ M!SaveAttachment(t)
      PROVE  ToldInv'
  <2>1. /\ thread[t].op # "notifying" /\ UNCHANGED <<inbox, unnoticed, erased>>
        /\ \/ M!Refused(t)
           \/ /\ message' = message
              /\ \E r : r.op # "notifying" /\ thread' = [thread EXCEPT ![t] = r]
    BY <1>2 DEF M!RefuseAttachment, M!SaveAttachment, M!history
  <2> QED
    BY <2>1, <1>f, <1>m, <1>r
<1>3. ASSUME NEW t \in Thread, M!ReadStep(t)
      PROVE  ToldInv'
  <2>1. /\ thread[t].op # "notifying" /\ UNCHANGED <<inbox, unnoticed, erased>>
        /\ \/ \E a \in App, s \in M!Side : M!Opened(t, a, s)
           \/ /\ message' = message
              /\ \E r : r.op # "notifying" /\ thread' = [thread EXCEPT ![t] = r]
    BY <1>3 DEF M!ReadStep, M!OpenMessages, M!ServeMessages, M!MayBegin, M!Idle, M!history
  <2> QED
    BY <2>1, <1>f, <1>m, <1>o
<1>4. ASSUME NEW t \in Thread, NEW s \in M!Side, M!EraseAttachments(t, s)
      PROVE  ToldInv'
  <2>1. PICK r : r = [op |-> "erasing", by |-> s, found |-> M!SentBy(s),
                      was |-> s \notin inactive]
    OBVIOUS
  <2>2. /\ thread[t].op # "notifying" /\ r.op # "notifying"
        /\ UNCHANGED <<message, inbox, unnoticed, erased>>
        /\ thread' = [thread EXCEPT ![t] = r]
    BY <1>4, <2>1 DEF M!EraseAttachments, M!Idle
  <2> QED
    BY <2>2, <1>f, <1>m
<1>5. ASSUME NEW t \in Thread, M!EraseMessages(t)
      PROVE  ToldInv'
  <2>1. /\ thread[t].op = "erasing" /\ thread' = [thread EXCEPT ![t] = M!Idle]
        /\ unnoticed' = unnoticed /\ erased' = erased \cup {thread[t].by}
        /\ inbox' = IF thread[t].by = "user" THEN <<>> ELSE inbox
    BY <1>5, Zenon DEF M!EraseMessages, M!history
  <2>2. ASSUME NEW m \in Msg PROVE OfEmployer(m)' <=> OfEmployer(m)
    <3>1. \A k \in Msg : message'[k] =
            IF k \in thread[t].found
            THEN M!Redacted(message[k]) ELSE message[k]
      BY <1>5, Zenon DEF M!EraseMessages
    <3>2. CASE m \notin thread[t].found
      BY <3>1, <3>2 DEF OfEmployer, M!Sent
    <3>3. CASE m \in thread[t].found
      <4>1. message[m] \in M!MessageRow /\ message[m] # None
        BY <2>1, <3>3 DEF RowsTyped, M!Sent, Typed, Requests
      <4>2. message'[m] # None /\ message'[m].by = message[m].by
        <5>1. message'[m] = M!Redacted(message[m])
          BY <3>1, <3>3
        <5>2. PICK row \in M!MessageRow : row = message[m]
          BY <4>1
        <5>3. message'[m] = M!Redacted(row)
          BY <5>1, <5>2
        <5> QED
          BY <5>2, <5>3, RowWritten
      <4> QED
        BY <4>1, <4>2 DEF OfEmployer, M!Sent
    <3> QED
      BY <3>2, <3>3
  <2>3. CASE thread[t].by # "user"
    BY <2>1, <2>2, <2>3, <1>f DEF M!Idle
  <2>4. CASE thread[t].by = "user"
    <3>1. \A u \in Thread : thread'[u].op = "notifying" => thread'[u] = thread[u]
      BY <2>1 DEF M!Idle, RowsTyped
    <3>2. OneNotifier'
      BY <1>e, <2>2, <3>1
    <3> QED
      BY <2>1, <2>4, <3>2 DEF ToldInv, NoticeOnce
  <2> QED
    BY <2>3, <2>4
<1>6. ASSUME NEW t \in Thread, M!CommitMessage(t)
      PROVE  ToldInv'
  <2>1. PICK k \in Msg : k = thread[t].msg
    BY <1>6, <1>t DEF M!CommitMessage, Sending
  <2>2. /\ thread[t].op = "committing" /\ UNCHANGED <<inbox, unnoticed, erased>>
        /\ \A m \in Msg : m # k => message'[m] = message[m]
        /\ message'[k] # None /\ message'[k].by = thread[t].by
    <3>1. PICK row : row = [app |-> thread[t].app, by |-> thread[t].by, text |-> "own",
                            read |-> FALSE, file |-> thread[t].file]
      OBVIOUS
    <3>2. message' = [message EXCEPT ![k] = row] /\ thread[t].op = "committing"
      BY <1>6, <2>1, <3>1 DEF M!CommitMessage
    <3>3. row \in M!MessageRow /\ row.by = thread[t].by
      BY <3>1, <3>2, MessageRequestFields DEF RowsTyped, M!MessageRow
    <3>4. row # None
      BY <3>3, MessageAssumption
    <3> QED
      BY <1>6, <2>1, <3>2, <3>3, <3>4 DEF M!CommitMessage, RowsTyped
  <2>3. ~M!Sent(k) /\ ~Notifying(k)
    BY <2>1, <2>2 DEF MessageInv, NewMessages, Sending, ToldInv, OneNotifier, Notifying,
       OfEmployer
  <2>4. /\ \A u \in Thread : u # t => thread'[u] = thread[u]
        /\ thread'[t].op = "notifying" => thread'[t].msg = k /\ thread[t].by = "employer"
        /\ thread[t].by = "employer" => thread'[t].op = "notifying"
    BY <1>6, <2>1 DEF M!CommitMessage, M!Notifies, M!Idle, RowsTyped
  <2>5. \A m \in Msg : Slots(m)' = Slots(m) /\ (m # k => (OfEmployer(m)' <=> OfEmployer(m)))
    BY <2>2 DEF Slots, OfEmployer, M!Sent
  <2>6. OfEmployer(k)' <=> thread[t].by = "employer"
    BY <2>2 DEF OfEmployer, M!Sent
  <2>7. OneNotifier'
    <3>1. ASSUME NEW u \in Thread, thread'[u].op = "notifying", u # t
          PROVE  /\ thread'[u] = thread[u] /\ thread[u].op = "notifying"
                 /\ thread[u].msg \in Msg /\ thread[u].msg # k
      BY <1>t, <2>3, <2>4, <3>1 DEF Notifying
    <3>2. ASSUME NEW u \in Thread, thread'[u].op = "notifying", u # t
          PROVE  /\ OfEmployer(thread[u].msg)
                 /\ \A v \in Thread :
                      thread[v].op = "notifying" /\ thread[v].msg = thread[u].msg => v = u
      BY <3>1, <3>2 DEF ToldInv, OneNotifier
    <3>3. \A m \in Msg : m # k => (message'[m] # None /\ message'[m].by = "employer"
                                    <=> OfEmployer(m))
      BY <2>2 DEF OfEmployer, M!Sent
    <3>4. thread[t].by = "employer" => message'[k] # None /\ message'[k].by = "employer"
      BY <2>2
    <3> QED
      BY <2>1, <2>4, <3>1, <3>2, <3>3, <3>4 DEF OneNotifier, OfEmployer, M!Sent
  <2>8. ASSUME NEW m \in Msg, m # k PROVE NoticeOnce(m)'
    <3>1. Notifying(m)' <=> Notifying(m)
      BY <2>2, <2>4, <2>8 DEF Notifying
    <3> QED
      BY <2>2, <2>5, <2>8, <3>1 DEF ToldInv, NoticeOnce
  <2>9. NoticeOnce(k)'
    <3>1. OfEmployer(k)' => Notifying(k)'
      BY <2>4, <2>6 DEF Notifying
    <3> QED
      BY <2>2, <2>3, <2>5, <3>1 DEF ToldInv, NoticeOnce, OfEmployer
  <2> QED
    BY <2>7, <2>8, <2>9 DEF ToldInv
<1>7. ASSUME NEW t \in Thread, M!Notify(t)
      PROVE  ToldInv'
  <2>1. PICK k \in Msg : k = thread[t].msg
    BY <1>7, <1>t DEF M!Notify
  <2>2. /\ thread[t].op = "notifying" /\ thread' = [thread EXCEPT ![t] = M!Idle]
        /\ UNCHANGED <<message, erased, unnoticed>>
    BY <1>7 DEF M!Notify, M!history
  <2>3. PICK n : n = [app |-> message[k].app, says |-> k]
    OBVIOUS
  <2>4. n.says = k /\ inbox' = Append(inbox, n)
    BY <1>7, <2>1, <2>3 DEF M!Notify
  <2>5. \A m \in Msg : OfEmployer(m)' <=> OfEmployer(m)
    BY <2>2, <1>m
  <2>6. OneNotifier'
    BY <1>n, <1>e, <2>1, <2>2, <2>5
  <2>7. ASSUME NEW m \in Msg, m # k PROVE NoticeOnce(m)'
    <3>1. Slots(m)' = Slots(m)
      BY <2>4, <2>7, SlotsGrow
    <3>2. Notifying(m)' <=> Notifying(m)
      BY <1>n, <2>1, <2>2, <2>7
    <3> QED
      BY <2>2, <2>5, <3>1, <3>2 DEF ToldInv, NoticeOnce
  <2>8. NoticeOnce(k)'
    <3>1. OfEmployer(k) /\ Notifying(k)
      BY <2>1, <2>2 DEF ToldInv, OneNotifier, Notifying
    <3>2. CASE k \in unnoticed \/ "user" \in erased
      BY <2>2, <3>2 DEF NoticeOnce
    <3>3. CASE Slots(k) = {}
      <4>1. Slots(k)' = {Len(inbox) + 1} /\ Len(inbox) + 1 \in Nat
        BY <2>4, <3>3, SlotsGrow
      <4>2. OfEmployer(k)' /\ ~Notifying(k)'
        BY <1>n, <2>1, <2>2, <2>5, <3>1
      <4> QED
        BY <4>1, <4>2 DEF NoticeOnce
    <3> QED
      BY <3>1, <3>2, <3>3 DEF ToldInv, NoticeOnce
  <2> QED
    BY <2>6, <2>7, <2>8 DEF ToldInv
<1>8. ASSUME NEW t \in Thread, M!CrashMessage(t)
      PROVE  ToldInv'
  <2>1. /\ UNCHANGED <<message, inbox, erased>> /\ unnoticed \subseteq unnoticed'
        /\ thread' = [thread EXCEPT ![t] = M!Idle]
        /\ thread[t].op = "notifying" => thread[t].msg \in unnoticed'
    BY <1>8 DEF M!CrashMessage
  <2>2. CASE thread[t].op # "notifying"
    BY <2>1, <2>2, <1>f, <1>m DEF M!Idle
  <2>3. CASE thread[t].op = "notifying"
    <3>1. \A m \in Msg : Slots(m)' = Slots(m) /\ (OfEmployer(m)' <=> OfEmployer(m))
      BY <2>1, <1>m DEF Slots
    <3>2. OneNotifier'
      BY <1>n, <1>e, <2>1, <2>3, <3>1
    <3>3. ASSUME NEW m \in Msg PROVE NoticeOnce(m)'
      BY <1>n, <2>1, <2>3, <3>1, <3>3 DEF ToldInv, NoticeOnce
    <3> QED
      BY <3>2, <3>3 DEF ToldInv
  <2> QED
    BY <2>2, <2>3
<1>9. ASSUME NEW s \in M!Side, M!SetActive(s)
      PROVE  ToldInv'
  <2>1. UNCHANGED <<message, inbox, unnoticed, erased, thread>>
    BY <1>9 DEF M!SetActive, M!history
  <2> QED
    BY <2>1 DEF ToldInv, OneNotifier, NoticeOnce, OfEmployer, Notifying, Slots, M!Sent
<1> QED
  BY <1>1, <1>2, <1>3, <1>4, <1>5, <1>6, <1>7, <1>8, <1>9
     DEF MessageNext, M!Next, M!SendStep, M!EraseStep

LEMMA ToldInvAlways == HiringSpec => []ToldInv
<1>1. HiringInit => ToldInv
  <2>1. SUFFICES ASSUME HiringInit PROVE ToldInv
    OBVIOUS
  <2>2. \A m \in Msg : Slots(m) = {} /\ ~M!Sent(m)
    BY <2>1 DEF HiringInit, Init, M!InitRows, Slots, M!Sent
  <2>3. \A t \in Thread : thread[t].op # "notifying"
    BY <2>1 DEF HiringInit, Init, Idle
  <2> QED
    BY <2>2, <2>3 DEF ToldInv, OneNotifier, NoticeOnce, OfEmployer
<1>2. ASSUME HiringInv, ToldInv, [HiringNext]_hiringVars
      PROVE  ToldInv'
  <2>1. CASE GigNext
    BY <1>2, <2>1, ToldGig, InvIsTyped
  <2>2. CASE MessageNext
    BY <1>2, <2>2, ToldMessage, InvIsTyped DEF HiringInv
  <2>3. CASE UNCHANGED hiringVars
    BY <1>2, <2>3 DEF hiringVars, vars, messageVars, ToldInv, OneNotifier, NoticeOnce,
       OfEmployer, Notifying, Slots, M!Sent
  <2> QED
    BY <1>2, <2>1, <2>2, <2>3 DEF HiringNext
<1> QED
  BY <1>1, <1>2, HiringInvAlways, PTL DEF HiringSpec

-----------------------------------------------------------------------------
(* What the worker was told last is so *)

Answers == {"Completed"} \cup Decision
Shown(s) == IF s \in {"absent", "Pending"} THEN None ELSE s

\* A request that is to tell of a status, and one that may write it before.
Tells(r) == r.op = "telling" \/ (r.op = "delivering" /\ r.says \in Status)
Speaks(r) == Tells(r) \/ r.op \in {"deciding", "completing"}

SpeaksOf(r, a) == Speaks(r) /\ r.app = a

\* One request at a time speaks of an application.  Until it writes the status,
\* it knows it and the worker was told of it; from then on it has it to tell.
SpeaksSo(a) ==
  /\ \A t, u \in Thread :
       SpeaksOf(thread[t], a) /\ SpeaksOf(thread[u], a) => t = u
  /\ \A t \in Thread :
       SpeaksOf(thread[t], a) /\ thread[t].op = "deciding" =>
         status[a] = thread[t].was /\ status[a] # "absent"
  /\ \A t \in Thread :
       SpeaksOf(thread[t], a) /\ Tells(thread[t]) =>
         status[a] \in Answers /\ (thread[t].op = "delivering" => thread[t].says = status[a])
  /\ \/ a \in untold \/ "user" \in erased
     \/ \E t \in Thread : SpeaksOf(thread[t], a) /\ Tells(thread[t])
     \/ LastTold(a) = Shown(status[a])

TellsInv == \A a \in App : a \in overlapped \/ SpeaksSo(a)

LEMMA LargestSlot ==
  ASSUME NEW n \in Nat, NEW T \in SUBSET (1 .. n), T # {}
  PROVE  Max(T) \in T /\ \A i \in T : i <= Max(T)
<1> DEFINE R == {ss \in Nat \X Nat : ss[1] < ss[2]}
           D == {n - i : i \in T}
<1>1. IsWellFoundedOn(R, Nat)
  BY NatLessThanWellFounded DEF OpToRel
<1>2. D \subseteq Nat /\ D # {}
  <2>1. \A i \in T : i \in Nat /\ i <= n /\ n - i \in Nat
    OBVIOUS
  <2>2. PICK i \in T : TRUE
    OBVIOUS
  <2>3. n - i \in D
    OBVIOUS
  <2> QED
    BY <2>1, <2>3
<1>3. \A x, y \in Nat : <<y, x>> \in R <=> y < x
  OBVIOUS
<1> HIDE DEF R
<1>4. PICK d \in D : \A e \in D : ~(<<e, d>> \in R)
  <2> HIDE DEF D
  <2> QED
    BY <1>1, <1>2, WFMin
<1>5. PICK m \in T : d = n - m
  BY <1>4
<1>6. ASSUME NEW i \in T PROVE m >= i
  <2>1. n - i \in D /\ ~(n - i < d)
    BY <1>2, <1>3, <1>4
  <2>2. i \in Int /\ m \in Int
    OBVIOUS
  <2> QED
    BY <1>5, <2>1, <2>2
<1>7. \E x \in T : \A y \in T : x >= y
  BY <1>6
<1>8. Max(T) \in T /\ \A i \in T : Max(T) >= i
  BY <1>7 DEF Max
<1> QED
  BY <1>8

\* A new notice is the last of its application's, and nobody else's.
LEMMA LastToldGrows ==
  ASSUME Typed, NEW n, inbox' = Append(inbox, n), NEW a
  PROVE  LastTold(a)' = IF n.app = a /\ n.says \in Status THEN n.says ELSE LastTold(a)
<1> DEFINE S == Notice \cup [app : App, says : Msg]
           told == {i \in DOMAIN inbox : inbox[i].app = a /\ inbox[i].says \in Status}
           next == {i \in DOMAIN inbox' : inbox'[i].app = a /\ inbox'[i].says \in Status}
           end == Len(inbox) + 1
<1>1. inbox \in Seq(S)
  BY DEF Typed, HiringTypeOK
<1>2. /\ LastTold(a) = IF told = {} THEN None ELSE inbox[Max(told)].says
      /\ LastTold(a)' = IF next = {} THEN None ELSE inbox'[Max(next)].says
  BY DEF LastTold
<1> HIDE DEF S
<1>3. /\ DOMAIN inbox = 1 .. Len(inbox) /\ Len(inbox) \in Nat
      /\ DOMAIN inbox' = 1 .. end
      /\ \A i \in 1 .. Len(inbox) : inbox'[i] = inbox[i]
      /\ inbox'[end] = n
  BY <1>1
<1>4. CASE n.app = a /\ n.says \in Status
  <2>1. end \in next /\ next \in SUBSET (1 .. end) /\ end \in Nat
    BY <1>3, <1>4
  <2> HIDE DEF next, end
  <2>2. Max(next) \in next /\ end <= Max(next)
    BY <2>1, LargestSlot
  <2>3. Max(next) \in 1 .. end
    BY <2>1, <2>2
  <2>4. Max(next) = end
    BY <2>1, <2>2, <2>3
  <2> QED
    BY <1>2, <1>3, <1>4, <2>1, <2>4
<1>5. CASE ~(n.app = a /\ n.says \in Status)
  <2>1. next = told /\ told \in SUBSET (1 .. Len(inbox))
    BY <1>3, <1>5
  <2> HIDE DEF next, told
  <2>2. told # {} => Max(told) \in 1 .. Len(inbox)
    BY <1>3, <2>1, LargestSlot
  <2> QED
    BY <1>2, <1>3, <1>5, <2>1, <2>2
<1> QED
  BY <1>4, <1>5

\* Nobody who speaks of a starts or ends.
LEMMA SpeaksStay ==
  ASSUME NEW a \in App, SpeaksSo(a), status'[a] = status[a],
         a \in untold => a \in untold', "user" \in erased => "user" \in erased',
         LastTold(a)' = LastTold(a) \/ "user" \in erased',
         \A t \in Thread : \/ thread'[t] = thread[t]
                           \/ ~SpeaksOf(thread[t], a) /\ ~SpeaksOf(thread'[t], a)
  PROVE  SpeaksSo(a)'
<1>1. \A t \in Thread : SpeaksOf(thread'[t], a) <=> SpeaksOf(thread[t], a)
  OBVIOUS
<1>2. \A t \in Thread : SpeaksOf(thread[t], a) => thread'[t] = thread[t]
  OBVIOUS
<1>3. \A t, u \in Thread : SpeaksOf(thread'[t], a) /\ SpeaksOf(thread'[u], a) => t = u
  BY <1>1 DEF SpeaksSo
<1>4. /\ \A t \in Thread :
           SpeaksOf(thread'[t], a) /\ thread'[t].op = "deciding" =>
             status'[a] = thread'[t].was /\ status'[a] # "absent"
      /\ \A t \in Thread :
           SpeaksOf(thread'[t], a) /\ Tells(thread'[t]) =>
             status'[a] \in Answers
             /\ (thread'[t].op = "delivering" => thread'[t].says = status'[a])
  BY <1>1, <1>2 DEF SpeaksSo
<1>5. \/ a \in untold' \/ "user" \in erased'
      \/ \E t \in Thread : SpeaksOf(thread'[t], a) /\ Tells(thread'[t])
      \/ LastTold(a)' = Shown(status'[a])
  BY <1>1, <1>2 DEF SpeaksSo
<1> QED
  BY <1>3, <1>4, <1>5 DEF SpeaksSo, SpeaksOf, Speaks, Tells, Shown

\* Requests of Messages tell of no status.
LEMMA TellsMessage ==
  ASSUME Typed, TellsInv, MessageNext
  PROVE  TellsInv'
<1>1. UNCHANGED gigVars
  BY DEF MessageNext
<1>2. \A t \in Thread : \A a \in App :
        \/ thread'[t] = thread[t]
        \/ ~SpeaksOf(thread[t], a) /\ ~SpeaksOf(thread'[t], a)
  BY MessageFrame DEF GigOp, SpeaksOf, Speaks, Tells
<1>3. /\ "user" \in erased => "user" \in erased'
      /\ inbox' = inbox \/ "user" \in erased' \/ \E t \in Thread : M!Notify(t)
  <2> USE DEF M!accounts
  <2>1. ASSUME NEW t \in Thread, M!SendStep(t)
        PROVE  erased' = erased /\ (inbox' = inbox \/ M!Notify(t))
    BY <2>1 DEF M!SendStep, M!SendText, M!SendFile, M!RefuseAttachment, M!SaveAttachment,
       M!CommitMessage, M!Notify
  <2>2. ASSUME NEW t \in Thread, M!ReadStep(t)
        PROVE  erased' = erased /\ inbox' = inbox
    BY <2>2 DEF M!ReadStep, M!OpenMessages, M!ServeMessages
  <2>3. ASSUME NEW t \in Thread, M!EraseStep(t)
        PROVE  erased \subseteq erased' /\ (inbox' = inbox \/ "user" \in erased')
    <3>1. ASSUME NEW s \in M!Side, M!EraseAttachments(t, s)
          PROVE  erased' = erased /\ inbox' = inbox
      BY <3>1 DEF M!EraseAttachments
    <3>2. ASSUME M!EraseMessages(t)
          PROVE  /\ erased' = erased \cup {thread[t].by}
                 /\ inbox' = inbox \/ thread[t].by = "user"
      BY <3>2 DEF M!EraseMessages
    <3> QED
      BY <2>3, <3>1, <3>2 DEF M!EraseStep
  <2>4. ASSUME NEW t \in Thread, M!CrashMessage(t)
        PROVE  erased' = erased /\ inbox' = inbox
    BY <2>4 DEF M!CrashMessage
  <2>5. ASSUME NEW s \in M!Side, M!SetActive(s)
        PROVE  erased' = erased /\ inbox' = inbox
    BY <2>5 DEF M!SetActive
  <2> QED
    BY <2>1, <2>2, <2>3, <2>4, <2>5 DEF MessageNext, M!Next
<1>4. ASSUME NEW a \in App
      PROVE  LastTold(a)' = LastTold(a) \/ "user" \in erased'
  <2>1. CASE inbox' = inbox
    BY <2>1 DEF LastTold
  <2>2. ASSUME NEW t \in Thread, M!Notify(t)
        PROVE  LastTold(a)' = LastTold(a)
    <3>1. thread[t].msg \in Msg
      BY <2>2, MessageRequestFields, TypedRows DEF RowsTyped, M!Notify
    <3>2. PICK n : n = [app |-> message[thread[t].msg].app, says |-> thread[t].msg]
      OBVIOUS
    <3>3. n.says \notin Status /\ inbox' = Append(inbox, n)
      BY <2>2, <3>1, <3>2, NoticeAssumption DEF M!Notify
    <3> QED
      BY <3>3, LastToldGrows
  <2> QED
    BY <1>3, <2>1, <2>2
<1>5. ASSUME NEW a \in App, a \notin overlapped'
      PROVE  SpeaksSo(a)'
  BY <1>1, <1>2, <1>3, <1>4, <1>5, SpeaksStay DEF TellsInv, gigVars, rows, history
<1> QED
  BY <1>5 DEF TellsInv

\* A request that speaks of a becomes another, which is the only one still.
LEMMA SpeakerWrites ==
  ASSUME NEW a \in App, SpeaksSo(a), NEW t \in Thread, NEW r, NEW s,
         SpeaksOf(thread[t], a), status'[a] = s, s \in Answers,
         \A u \in Thread : thread'[u] = IF u = t THEN r ELSE thread[u],
         r.app = a, r.op \in {"telling", "delivering"}, r.op = "delivering" => r.says = s
  PROVE  SpeaksSo(a)'
<1>1. SpeaksOf(r, a) /\ Tells(r)
  BY DEF SpeaksOf, Speaks, Tells, Answers, Status
<1>2. \A u \in Thread : SpeaksOf(thread'[u], a) => u = t
  BY DEF SpeaksSo
<1>3. r.op # "deciding"
  OBVIOUS
<1>4. /\ \A u, v \in Thread : SpeaksOf(thread'[u], a) /\ SpeaksOf(thread'[v], a) => u = v
      /\ \A u \in Thread : SpeaksOf(thread'[u], a) => thread'[u] = r
      /\ \E u \in Thread : SpeaksOf(thread'[u], a) /\ Tells(thread'[u])
  BY <1>1, <1>2
<1> QED
  BY <1>3, <1>4 DEF SpeaksSo, SpeaksOf, Speaks, Tells

\* A step of Gigs keeps TellsInv.
LEMMA TellsGig ==
  ASSUME Typed, HiringTypeOK', TellsInv, GigNext
  PROVE  TellsInv'
<1> USE DEF rows, history
<1>f. /\ thread \in [Thread -> AnyRequest] /\ status \in [App -> Status]
      /\ \A t \in Thread : thread[t] \in AnyRequest
  BY DEF Typed, HiringTypeOK, TypeRows, AnyRequest
<1>e. erased' = erased
  BY DEF GigNext, messageVars
<1>i. \A a : inbox' = inbox => LastTold(a)' = LastTold(a)
  BY DEF LastTold
<1>b. \A t \in Thread : \A r : Become(t, r) =>
        \A u \in Thread : thread'[u] = IF u = t THEN r ELSE thread[u]
  BY <1>f DEF Become
<1>q. \A a : ~SpeaksOf(Idle, a)
  BY DEF SpeaksOf, Speaks, Tells, Idle
\* Steps that have nothing to do with a status.
<1>1. ASSUME UNCHANGED <<status, inbox, overlapped>>, untold \subseteq untold',
             \/ thread' = thread
             \/ \E t \in Thread : \E r : /\ Become(t, r)
                                        /\ \A a : ~SpeaksOf(thread[t], a) /\ ~SpeaksOf(r, a)
      PROVE  TellsInv'
  <2>1. \A u \in Thread, a \in App : \/ thread'[u] = thread[u]
                                     \/ ~SpeaksOf(thread[u], a) /\ ~SpeaksOf(thread'[u], a)
    BY <1>1, <1>b
  <2>2. ASSUME NEW a \in App, a \notin overlapped' PROVE SpeaksSo(a)'
    BY <1>1, <1>e, <1>i, <2>1, <2>2, SpeaksStay DEF TellsInv
  <2> QED
    BY <2>2 DEF TellsInv
<1>2. ASSUME NEW b \in App, Apply(b)
      PROVE  TellsInv'
  <2>1. /\ UNCHANGED <<inbox, thread, overlapped, untold>> /\ status[b] = "absent"
        /\ \A a \in App : status'[a] = IF a = b THEN "Pending" ELSE status[a]
    BY <1>2, <1>f DEF Apply
  <2>2. ASSUME NEW a \in App, a # b, a \notin overlapped' PROVE SpeaksSo(a)'
    BY <1>e, <1>i, <2>1, <2>2, SpeaksStay DEF TellsInv
  <2>3. ASSUME b \notin overlapped' PROVE SpeaksSo(b)'
    <3>1. /\ SpeaksSo(b) /\ LastTold(b)' = LastTold(b)
          /\ status[b] \notin Answers /\ Shown(status[b]) = Shown(status'[b])
      BY <1>i, <2>1, <2>3 DEF TellsInv, Answers, Decision, Shown
    <3> QED
      BY <1>e, <2>1, <3>1 DEF SpeaksSo, SpeaksOf, Speaks, Tells, Shown
  <2> QED
    BY <2>2, <2>3 DEF TellsInv
\* A request about b begins: the only one, or it overlaps.
<1>3. ASSUME NEW t \in Thread, NEW b \in App, NEW r, thread[t] = Idle, Become(t, r),
             Overlap(b), UNCHANGED <<status, inbox, untold>>, r.app = b,
             \/ r.op = "completing"
             \/ r.op = "deciding" /\ r.was = status[b] /\ status[b] # "absent"
      PROVE  TellsInv'
  <2>1. \A u \in Thread : thread'[u] = IF u = t THEN r ELSE thread[u]
    BY <1>3, <1>b
  <2>2. /\ overlapped \subseteq overlapped'
        /\ \A u \in Thread : SpeaksOf(thread[u], b) => b \in overlapped'
    BY <1>3 DEF Overlap, About, SpeaksOf, Speaks, Tells
  <2>3. ASSUME NEW a \in App, a # b, a \notin overlapped' PROVE SpeaksSo(a)'
    <3>1. ~SpeaksOf(r, a)
      BY <1>3, <2>3 DEF SpeaksOf
    <3>2. SpeaksSo(a)
      BY <2>2, <2>3 DEF TellsInv
    <3> QED
      BY <1>3, <1>e, <1>i, <1>q, <2>1, <3>1, <3>2, SpeaksStay
  <2>4. ASSUME b \notin overlapped' PROVE SpeaksSo(b)'
    <3>1. SpeaksSo(b) /\ LastTold(b)' = LastTold(b) /\ ~Tells(r)
      BY <1>3, <1>i, <2>2, <2>4 DEF TellsInv, Tells
    <3>2. \A u \in Thread : SpeaksOf(thread'[u], b) => u = t /\ thread'[u] = r
      BY <2>1, <2>2, <2>4
    <3> QED
      BY <1>3, <1>e, <2>2, <2>4, <3>1, <3>2 DEF SpeaksSo, SpeaksOf, Speaks, Tells, Shown
  <2> QED
    BY <2>3, <2>4 DEF TellsInv
<1>4. ASSUME NEW t \in Thread, NEW b \in App, NEW to \in Decision, StartDecision(t, b, to)
      PROVE  TellsInv'
  <2> DEFINE r == [op |-> "deciding", app |-> b, was |-> status[b], to |-> to]
  <2>1. r.app = b /\ r.op = "deciding" /\ r.was = status[b]
    OBVIOUS
  <2>2. Become(t, r)
    BY <1>4 DEF StartDecision, Begin
  <2> HIDE DEF r
  <2> QED
    BY <1>3, <1>4, <2>1, <2>2 DEF StartDecision, Begin
<1>5. ASSUME NEW t \in Thread, NEW b \in App, StartCompletion(t, b)
      PROVE  TellsInv'
  <2> DEFINE r == [op |-> "completing", app |-> b]
  <2>1. r.app = b /\ r.op = "completing"
    OBVIOUS
  <2>2. Become(t, r)
    BY <1>5 DEF StartCompletion, Begin
  <2> HIDE DEF r
  <2> QED
    BY <1>3, <1>5, <2>1, <2>2 DEF StartCompletion, Begin
\* The request about b writes its status or has its notice made.
<1>6. ASSUME NEW t \in Thread, NEW r, NEW s, Speaks(thread[t]),
             NEW b \in App, b = thread[t].app,
             Become(t, r), UNCHANGED <<inbox, overlapped, untold>>,
             \A a \in App : status'[a] = IF a = b THEN s ELSE status[a],
             r.app = b, r.op \in {"telling", "delivering"},
             r.op = "delivering" => r.says = s,
             b \notin overlapped => s \in Answers
      PROVE  TellsInv'
  <2>1. \A u \in Thread : thread'[u] = IF u = t THEN r ELSE thread[u]
    BY <1>6, <1>b
  <2>2. ASSUME NEW a \in App, a # b, a \notin overlapped' PROVE SpeaksSo(a)'
    <3>1. ~SpeaksOf(r, a) /\ ~SpeaksOf(thread[t], a)
      BY <1>6, <2>2 DEF SpeaksOf
    <3> QED
      BY <1>6, <1>e, <1>i, <2>1, <2>2, <3>1, SpeaksStay DEF TellsInv
  <2>3. ASSUME b \notin overlapped' PROVE SpeaksSo(b)'
    BY <1>6, <2>1, <2>3, SpeakerWrites DEF TellsInv, SpeaksOf
  <2> QED
    BY <2>2, <2>3 DEF TellsInv
<1>7. ASSUME NEW t \in Thread, CommitDecision(t)
      PROVE  TellsInv'
  <2> DEFINE b == thread[t].app
             r == [op |-> "telling", app |-> b, was |-> thread[t].was]
  <2>1. b \in App /\ thread[t].to \in Decision /\ thread[t].op = "deciding"
    BY <1>7, <1>f, GigRequestFields DEF CommitDecision
  <2>2. /\ Become(t, r) /\ UNCHANGED <<inbox, overlapped, untold>>
        /\ status' = [status EXCEPT ![b] = Written(t)]
    BY <1>7 DEF CommitDecision
  <2>3. b \notin overlapped => Written(t) \in Answers
    <3>1. b \notin overlapped => thread[t].was = status[b]
      BY <2>1 DEF TellsInv, SpeaksSo, SpeaksOf, Speaks
    <3> QED
      BY <2>1, <3>1 DEF Written, Answers
  <2>4. \A a \in App : status'[a] = IF a = b THEN Written(t) ELSE status[a]
    BY <1>f, <2>1, <2>2
  <2>5. Speaks(thread[t]) /\ r.op = "telling" /\ r.app = b
    BY <2>1 DEF Speaks
  <2> HIDE DEF r
  <2> QED
    BY <1>6, <2>1, <2>2, <2>3, <2>4, <2>5
<1>8. ASSUME NEW t \in Thread, ComposeNotice(t)
      PROVE  TellsInv'
  <2> DEFINE b == thread[t].app
             r == [op |-> "delivering", app |-> b, says |-> status[b]]
  <2>1. b \in App /\ thread[t].op = "telling"
    BY <1>8, <1>f, GigRequestFields DEF ComposeNotice
  <2>2. Become(t, r) /\ UNCHANGED <<status, inbox, overlapped, untold>>
    BY <1>8 DEF ComposeNotice, Told
  <2>3. b \notin overlapped => status[b] \in Answers
    BY <2>1 DEF TellsInv, SpeaksSo, SpeaksOf, Speaks, Tells
  <2>4. Speaks(thread[t]) /\ r.op = "delivering" /\ r.app = b /\ r.says = status[b]
    BY <2>1 DEF Speaks, Tells
  <2> HIDE DEF r
  <2> QED
    BY <1>6, <2>1, <2>2, <2>3, <2>4
<1>9. ASSUME NEW t \in Thread, CommitCompletion(t)
      PROVE  TellsInv'
  <2> DEFINE b == thread[t].app
             r == [op |-> "delivering", app |-> b, says |-> "Completed"]
  <2>1. b \in App /\ thread[t].op = "completing"
    BY <1>9, <1>f, GigRequestFields DEF CommitCompletion
  <2>2. Become(t, r) /\ UNCHANGED <<inbox, overlapped, untold>>
    BY <1>9 DEF CommitCompletion
  <2>3. \A a \in App : status'[a] = IF a = b THEN "Completed" ELSE status[a]
    BY <1>9, <1>f, <2>1 DEF CommitCompletion
  <2>4. Speaks(thread[t]) /\ r.op = "delivering" /\ r.app = b /\ r.says = "Completed"
    BY <2>1 DEF Speaks
  <2> HIDE DEF r
  <2> QED
    BY <1>6, <2>1, <2>2, <2>3, <2>4 DEF Answers
<1>10. ASSUME NEW t \in Thread, Deliver(t)
       PROVE  TellsInv'
  <2> DEFINE b == thread[t].app
  <2>1. b \in App /\ thread[t].op = "delivering" /\ Become(t, Idle)
        /\ UNCHANGED <<status, overlapped, untold>>
    BY <1>10, <1>f, GigRequestFields DEF Deliver
  <2>2. \A u \in Thread : thread'[u] = IF u = t THEN Idle ELSE thread[u]
    BY <2>1, <1>b
  <2>3. PICK n : n = [app |-> b, says |-> thread[t].says]
    OBVIOUS
  <2>4. n.app = b /\ n.says = thread[t].says /\ inbox' = Append(inbox, n)
    BY <1>10, <2>3 DEF Deliver
  <2>5. \A a : LastTold(a)' = IF b = a /\ thread[t].says \in Status
                              THEN thread[t].says ELSE LastTold(a)
    BY <2>4, LastToldGrows
  <2>6. ASSUME NEW a \in App, a \notin overlapped', ~SpeaksOf(thread[t], a)
        PROVE  SpeaksSo(a)'
    <3>1. LastTold(a)' = LastTold(a)
      BY <2>1, <2>5, <2>6 DEF SpeaksOf, Speaks, Tells
    <3> QED
      BY <1>e, <1>q, <2>1, <2>2, <2>6, <3>1, SpeaksStay DEF TellsInv
  <2>7. ASSUME NEW a \in App, a \notin overlapped', SpeaksOf(thread[t], a)
        PROVE  SpeaksSo(a)'
    <3>1. a = b /\ SpeaksSo(a) /\ Tells(thread[t]) /\ thread[t].says \in Status
      BY <2>1, <2>7 DEF TellsInv, SpeaksOf, Speaks, Tells
    <3>2. thread[t].says = status[a] /\ status[a] \in Answers
      BY <2>1, <2>7, <3>1 DEF SpeaksSo
    <3>3. LastTold(a)' = Shown(status'[a])
      BY <2>1, <2>5, <3>1, <3>2 DEF Shown, Answers, Decision
    <3>4. \A u \in Thread : ~SpeaksOf(thread'[u], a)
      BY <1>q, <2>2, <2>7, <3>1 DEF SpeaksSo
    <3> QED
      BY <3>3, <3>4 DEF SpeaksSo, SpeaksOf, Speaks, Tells, Shown
  <2> QED
    BY <2>6, <2>7 DEF TellsInv
<1>11. ASSUME NEW t \in Thread, Crash(t)
       PROVE  TellsInv'
  <2>1. /\ Become(t, Idle) /\ UNCHANGED <<status, inbox, overlapped>>
        /\ untold' = untold \cup LosesNotice(t)
    BY <1>11 DEF Crash
  <2>2. \A u \in Thread : thread'[u] = IF u = t THEN Idle ELSE thread[u]
    BY <2>1, <1>b
  <2>3. ASSUME NEW a \in App, a \notin overlapped', ~SpeaksOf(thread[t], a)
        PROVE  SpeaksSo(a)'
    BY <1>e, <1>i, <1>q, <2>1, <2>2, <2>3, SpeaksStay DEF TellsInv
  <2>4. ASSUME NEW a \in App, a \notin overlapped', SpeaksOf(thread[t], a)
        PROVE  SpeaksSo(a)'
    <3>1. SpeaksSo(a) /\ LastTold(a)' = LastTold(a)
      BY <1>i, <2>1, <2>4 DEF TellsInv
    <3>2. \A u \in Thread : ~SpeaksOf(thread'[u], a)
      BY <1>q, <2>2, <2>4, <3>1 DEF SpeaksSo
    <3>3. Tells(thread[t]) => a \in untold'
      BY <2>1, <2>4 DEF LosesNotice, SpeaksOf, Tells
    <3>4. ~Tells(thread[t]) => ~\E u \in Thread : SpeaksOf(thread[u], a) /\ Tells(thread[u])
      BY <2>4, <3>1 DEF SpeaksSo
    <3>5. a \in untold' \/ "user" \in erased' \/ LastTold(a)' = Shown(status'[a])
      BY <1>e, <2>1, <3>1, <3>3, <3>4 DEF SpeaksSo
    <3> QED
      BY <3>2, <3>5 DEF SpeaksSo, SpeaksOf, Speaks, Tells, Shown
  <2> QED
    BY <2>3, <2>4 DEF TellsInv
<1>12. ASSUME NEW t \in Thread, RatingStep(t) \/ MarkFlag(t)
       PROVE  TellsInv'
  <2> DEFINE Rating(k, score) == [op |-> "rating", of |-> k, score |-> score]
             Notify(a) == [op |-> "delivering", app |-> a, says |-> "rated"]
  <2>1. \A k, score, a : ~SpeaksOf(Rating(k, score), a)
    BY DEF SpeaksOf, Speaks, Tells
  <2>2. \A a, b : ~SpeaksOf(Notify(b), a)
    BY DEF SpeaksOf, Speaks, Tells, Status, Decision
  <2>3. thread[t].op \in {"rating", "hiding"} => \A a : ~SpeaksOf(thread[t], a)
    BY DEF SpeaksOf, Speaks, Tells
  <2>4. UNCHANGED <<status, inbox, overlapped, untold>>
    BY <1>12 DEF RatingStep, StartRating, CommitRating, LoseRating, MarkFlag
  <2>5. CASE \E k \in Key, score \in Given : StartRating(t, k, score)
    <3>1. thread[t] = Idle /\ \E k, score : Become(t, Rating(k, score))
      BY <2>5 DEF StartRating, Begin
    <3> HIDE DEF Rating
    <3> QED
      BY <1>1, <1>q, <2>1, <2>4, <3>1
  <2>6. CASE CommitRating(t) \/ LoseRating(t) \/ MarkFlag(t)
    <3>1. /\ thread[t].op \in {"rating", "hiding"}
          /\ Become(t, Idle) \/ \E b : Become(t, Notify(b))
      BY <2>6 DEF CommitRating, LoseRating, MarkFlag
    <3> HIDE DEF Notify
    <3> QED
      BY <1>1, <1>q, <2>2, <2>3, <2>4, <3>1
  <2> QED
    BY <1>12, <2>5, <2>6 DEF RatingStep
<1>13. CASE FlagStep
  <2> DEFINE Hiding(f) == [op |-> "hiding", flag |-> f]
  <2>1. \A f, a : ~SpeaksOf(Hiding(f), a)
    BY DEF SpeaksOf, Speaks, Tells
  <2>2. UNCHANGED <<status, inbox, overlapped, untold>>
    BY <1>13 DEF FlagStep, FileFlag, DismissFlag, HideRating, LoseHiding
  <2>3. \/ thread' = thread
        \/ \E t \in Thread : thread[t] = Idle /\ \E f : Become(t, Hiding(f))
    BY <1>13 DEF FlagStep, FileFlag, DismissFlag, HideRating, LoseHiding, Begin
  <2> HIDE DEF Hiding
  <2> QED
    BY <1>1, <1>q, <2>1, <2>2, <2>3
<1> QED
  BY <1>2, <1>4, <1>5, <1>7, <1>8, <1>9, <1>10, <1>11, <1>12, <1>13 DEF GigNext, Next, EmployerStep

LEMMA TellsInvAlways == HiringSpec => []TellsInv
<1>1. HiringInit => TellsInv
  <2>1. SUFFICES ASSUME HiringInit PROVE TellsInv
    OBVIOUS
  <2>2. \A t \in Thread, a \in App : ~SpeaksOf(thread[t], a)
    BY <2>1 DEF HiringInit, Init, Idle, SpeaksOf, Speaks, Tells
  <2>3. \A a \in App : LastTold(a) = None /\ Shown(status[a]) = None
    BY <2>1 DEF HiringInit, Init, LastTold, Shown
  <2> QED
    BY <2>2, <2>3 DEF TellsInv, SpeaksSo
<1>2. ASSUME HiringInv, TellsInv, [HiringNext]_hiringVars
      PROVE  TellsInv'
  <2>1. CASE GigNext
    BY <1>2, <2>1, TellsGig, InvIsTyped, HiringInvStep DEF HiringInv
  <2>2. CASE MessageNext
    BY <1>2, <2>2, TellsMessage, InvIsTyped
  <2>3. CASE UNCHANGED hiringVars
    <3>1. UNCHANGED <<status, inbox, thread, overlapped, untold, erased>>
      BY <2>3 DEF hiringVars, vars, rows, history, messageVars
    <3>2. \A a : LastTold(a)' = LastTold(a)
      BY <3>1 DEF LastTold
    <3> QED
      BY <1>2, <3>1, <3>2, SpeaksStay DEF TellsInv
  <2> QED
    BY <1>2, <2>1, <2>2, <2>3 DEF HiringNext
<1> QED
  BY <1>1, <1>2, HiringInvAlways, PTL DEF HiringSpec

-----------------------------------------------------------------------------
(* Sums *)

\* A set of naturals with 0 and every successor is all of them.
LEMMA Induction ==
  ASSUME NEW T \in SUBSET Nat, 0 \in T, \A n \in T : n + 1 \in T
  PROVE  T = Nat
<1> DEFINE R == {ss \in Nat \X Nat : ss[1] < ss[2]}
<1>1. IsWellFoundedOn(R, Nat)
  BY NatLessThanWellFounded DEF OpToRel
<1>2. \A k, m \in Nat : k < m => <<k, m>> \in R
  OBVIOUS
<1> HIDE DEF R
<1>3. SUFFICES ASSUME Nat \ T # {} PROVE FALSE
  OBVIOUS
<1>4. PICK m \in Nat \ T : \A k \in Nat \ T : ~ (<<k, m>> \in R)
  BY <1>1, <1>3, WFMin
<1>5. m # 0 /\ m - 1 \in Nat /\ m - 1 < m /\ m \in Nat
  BY <1>4
<1>6. m - 1 \in T
  BY <1>2, <1>4, <1>5, Zenon
<1>7. (m - 1) + 1 \in T
  BY <1>6
<1> QED
  BY <1>4, <1>5, <1>7

\* What holds of a set once it does of the set without any one element holds
\* of every finite set.
LEMMA SubsetInduction ==
  ASSUME NEW D, IsFiniteSet(D), NEW P \in SUBSET SUBSET D,
         \A T \in SUBSET D : (\A y \in T : T \ {y} \in P) => T \in P
  PROVE  P = SUBSET D
<1> DEFINE Sizes == {n \in Nat : \A T \in SUBSET D : Cardinality(T) = n => T \in P}
<1>1. \A T \in SUBSET D : IsFiniteSet(T) /\ Cardinality(T) \in Nat
  BY FS_Subset, FS_CardinalityType
<1>2. \A T \in SUBSET D : \A y \in T : Cardinality(T \ {y}) = Cardinality(T) - 1
  BY <1>1, FS_RemoveElement, Zenon
<1>3. 0 \in Sizes
  BY <1>1, FS_EmptySet
<1>4. ASSUME NEW n \in Sizes PROVE n + 1 \in Sizes
  BY <1>1, <1>2
<1>5. Sizes = Nat
  <2> HIDE DEF Sizes
  <2>1. Sizes \in SUBSET Nat
    BY DEF Sizes
  <2> QED
    BY <1>3, <1>4, <2>1, Induction
<1> QED
  BY <1>1, <1>5

Pick(s) == CHOOSE x \in s : TRUE

\* I is the sum of f over each subset of D, one chosen element after the other.
Adds(I, f, D) ==
  I = [s \in SUBSET D |-> IF s = {} THEN 0 ELSE f[Pick(s)] + I[s \ {Pick(s)}]]

\* What SumFunction returns, without the folds it is defined by.
LEMMA SumIsChosen ==
  ASSUME NEW f
  PROVE  SumFunction(f) = (CHOOSE I : Adds(I, f, DOMAIN f))[DOMAIN f]
BY DEF SumFunction, SumFunctionOnSet, FoldFunctionOnSet, MapThenFoldSet, Adds, Pick

LEMMA PickIn == \A s : s # {} => Pick(s) \in s
BY DEF Pick

LEMMA AddsUnfolds ==
  ASSUME NEW D, NEW f, NEW I, Adds(I, f, D)
  PROVE  \A s \in SUBSET D :
           I[s] = IF s = {} THEN 0 ELSE f[Pick(s)] + I[s \ {Pick(s)}]
BY DEF Adds

\* Every finite set has such an I.
LEMMA SumsExist ==
  ASSUME NEW D, IsFiniteSet(D), NEW f
  PROVE  \E I : Adds(I, f, D)
<1> DEFINE V(I, s) == IF s = {} THEN 0 ELSE f[Pick(s)] + I[s \ {Pick(s)}]
           Below(n) == {s \in SUBSET D : Cardinality(s) <= n}
           Rule(I, n) == I = [s \in Below(n) |-> V(I, s)]
           Built == {n \in Nat : \E I : Rule(I, n)}
<1>s. \A s \in SUBSET D : IsFiniteSet(s) /\ Cardinality(s) \in Nat /\ Cardinality(s) <= Cardinality(D)
  BY FS_Subset, FS_CardinalityType
<1>r. \A s \in SUBSET D : s # {} => /\ s \ {Pick(s)} \in SUBSET D
                                    /\ Cardinality(s \ {Pick(s)}) = Cardinality(s) - 1
  BY <1>s, PickIn, FS_RemoveElement
<1>1. 0 \in Built
  <2>1. \A s \in Below(0) : s = {}
    BY <1>s, FS_EmptySet
  <2> DEFINE Z == [s \in Below(0) |-> 0]
  <2>2. Rule(Z, 0)
    BY <2>1
  <2> QED
    BY <2>2
<1>2. ASSUME NEW n \in Built PROVE n + 1 \in Built
  <2>1. PICK I : Rule(I, n)
    OBVIOUS
  <2> DEFINE J == [s \in Below(n + 1) |-> V(I, s)]
  <2>2. ASSUME NEW s \in Below(n + 1) PROVE V(I, s) = V(J, s)
    <3>1. CASE s = {}
      BY <3>1
    <3>2. CASE s # {}
      <4> DEFINE t == s \ {Pick(s)}
      <4>1. t \in Below(n) /\ t \in Below(n + 1)
        BY <1>r, <1>s, <3>2
      <4>2. I[t] = V(I, t)
        <5> HIDE DEF V, Below, t
        <5> QED
          BY <2>1, <4>1
      <4>3. J[t] = V(I, t)
        <5> HIDE DEF V, Below, t
        <5> QED
          BY <4>1
      <4>4. I[t] = J[t]
        BY <4>2, <4>3
      <4> HIDE DEF J
      <4> QED
        BY <3>2, <4>4
    <3> QED
      BY <3>1, <3>2
  <2>3. Rule(J, n + 1)
    <3> HIDE DEF V, Below
    <3> QED
      BY <2>2
  <2> HIDE DEF Rule, J
  <2> QED
    BY <2>3
<1>3. Built = Nat
  <2>1. Built \in SUBSET Nat
    OBVIOUS
  <2> HIDE DEF Built
  <2> QED
    BY <1>1, <1>2, <2>1, Induction
<1>4. PICK I : Rule(I, Cardinality(D))
  <2>1. Cardinality(D) \in Nat
    BY FS_CardinalityType
  <2> HIDE DEF Rule
  <2> QED
    BY <1>3, <2>1
<1>5. Below(Cardinality(D)) = SUBSET D
  BY <1>s
<1>6. Adds(I, f, D)
  <2> HIDE DEF Below
  <2> QED
    BY <1>4, <1>5 DEF Adds
<1> QED
  BY <1>6

\* Over the subsets of T, the two chosen sums of f and of what it is on T agree.
LEMMA SumsAgree ==
  ASSUME NEW D, NEW T \in SUBSET D, IsFiniteSet(T), NEW f, NEW g, NEW I, NEW J,
         Adds(I, f, D), Adds(J, g, T), \A x \in T : f[x] = g[x]
  PROVE  I[T] = J[T]
<1> DEFINE P == {s \in SUBSET T : I[s] = J[s]}
<1>a. \A s \in SUBSET D : I[s] = IF s = {} THEN 0 ELSE f[Pick(s)] + I[s \ {Pick(s)}]
  BY DEF Adds
<1>b. \A s \in SUBSET T : J[s] = IF s = {} THEN 0 ELSE g[Pick(s)] + J[s \ {Pick(s)}]
  BY DEF Adds
<1>1. ASSUME NEW s \in SUBSET T, \A y \in s : s \ {y} \in P
      PROVE  s \in P
  <2>1. CASE s = {}
    BY <1>a, <1>b, <2>1
  <2>2. CASE s # {}
    <3>1. /\ Pick(s) \in s /\ I[s \ {Pick(s)}] = J[s \ {Pick(s)}]
      BY <1>1, <2>2, PickIn
    <3>2. I[s] = f[Pick(s)] + I[s \ {Pick(s)}] /\ J[s] = g[Pick(s)] + J[s \ {Pick(s)}]
      <4>1. s \in SUBSET D
        OBVIOUS
      <4> QED
        BY <1>a, <1>b, <2>2, <4>1
    <3>3. f[Pick(s)] = g[Pick(s)]
      BY <3>1
    <3> QED
      BY <3>1, <3>2, <3>3
  <2> QED
    BY <2>1, <2>2
<1>2. P = SUBSET T
  <2>1. P \in SUBSET SUBSET T
    OBVIOUS
  <2> HIDE DEF P
  <2> QED
    BY <1>1, <2>1, SubsetInduction
<1> QED
  BY <1>2

\* Sums of naturals are naturals.
LEMMA SumsAreNatural ==
  ASSUME NEW D, IsFiniteSet(D), NEW f \in [D -> Nat], NEW I, Adds(I, f, D)
  PROVE  \A s \in SUBSET D : I[s] \in Nat
<1> DEFINE P == {s \in SUBSET D : I[s] \in Nat}
<1>a. \A s \in SUBSET D : I[s] = IF s = {} THEN 0 ELSE f[Pick(s)] + I[s \ {Pick(s)}]
  BY AddsUnfolds
<1>1. ASSUME NEW s \in SUBSET D, \A y \in s : s \ {y} \in P
      PROVE  s \in P
  <2>1. CASE s = {}
    <3>1. I[s] = 0
      BY <1>a, <2>1
    <3> QED
      BY <3>1
  <2>2. CASE s # {}
    <3>1. Pick(s) \in s /\ I[s \ {Pick(s)}] \in Nat /\ f[Pick(s)] \in Nat
      BY <1>1, <2>2, PickIn
    <3>2. I[s] = f[Pick(s)] + I[s \ {Pick(s)}]
      BY <1>a, <2>2
    <3> QED
      BY <3>1, <3>2
  <2> QED
    BY <2>1, <2>2
<1>2. P = SUBSET D
  <2>1. P \in SUBSET SUBSET D
    OBVIOUS
  <2> HIDE DEF P
  <2> QED
    BY <1>1, <2>1, SubsetInduction
<1> QED
  BY <1>2

\* It does not matter which element is taken first.
LEMMA AnyElement ==
  ASSUME NEW D, IsFiniteSet(D), NEW f \in [D -> Nat], NEW I, Adds(I, f, D)
  PROVE  \A x \in D : I[D] = f[x] + I[D \ {x}]
<1> DEFINE P == {s \in SUBSET D : \A x \in s : I[s] = f[x] + I[s \ {x}]}
<1>a. \A s \in SUBSET D : I[s] = IF s = {} THEN 0 ELSE f[Pick(s)] + I[s \ {Pick(s)}]
  BY AddsUnfolds
<1>n. \A s \in SUBSET D : I[s] \in Nat
  BY SumsAreNatural
<1>1. ASSUME NEW s \in SUBSET D, \A y \in s : s \ {y} \in P
      PROVE  s \in P
  <2>2. SUFFICES ASSUME NEW x \in s PROVE I[s] = f[x] + I[s \ {x}]
    OBVIOUS
  <2> DEFINE p == Pick(s)
  <2>3. p \in s /\ I[s] = f[p] + I[s \ {p}]
    BY <1>a, <2>2, PickIn
  <2>4. CASE x = p
    BY <2>3, <2>4
  <2>5. CASE x # p
    <3>1. s \ {p} \in P /\ x \in s \ {p} /\ s \ {x} \in P /\ p \in s \ {x}
      BY <1>1, <2>2, <2>3, <2>5
    <3> DEFINE rest == (s \ {p}) \ {x}
    <3>2. rest = (s \ {x}) \ {p} /\ rest \in SUBSET D
      OBVIOUS
    <3>3. I[s \ {p}] = f[x] + I[rest] /\ I[s \ {x}] = f[p] + I[(s \ {x}) \ {p}]
      BY <3>1
    <3>4. f[x] \in Nat /\ f[p] \in Nat /\ I[rest] \in Nat
      BY <1>n, <2>3, <3>2
    <3> HIDE DEF rest, p
    <3> QED
      BY <2>3, <3>2, <3>3, <3>4
  <2> QED
    BY <2>4, <2>5
<1>2. P = SUBSET D
  <2>1. P \in SUBSET SUBSET D
    OBVIOUS
  <2> HIDE DEF P
  <2> QED
    BY <1>1, <2>1, SubsetInduction
<1> QED
  BY <1>2

\* What SumFunction computes: nothing of nothing, and one summand and the rest.
LEMMA SumSplits ==
  ASSUME NEW D, IsFiniteSet(D), NEW f \in [D -> Nat]
  PROVE  SumFunction(f) \in Nat /\ (D = {} => SumFunction(f) = 0)
<1> DEFINE I == CHOOSE i : Adds(i, f, D)
<1>1. Adds(I, f, D)
  BY SumsExist, Zenon
<1>2. SumFunction(f) = I[D]
  BY SumIsChosen
<1> HIDE DEF I
<1>3. I[D] \in Nat
  <2>1. \A s \in SUBSET D : I[s] \in Nat
    BY <1>1, SumsAreNatural
  <2> QED
    BY <2>1
<1>4. D = {} => I[D] = 0
  <2>1. \A s \in SUBSET D : I[s] = IF s = {} THEN 0 ELSE f[Pick(s)] + I[s \ {Pick(s)}]
    BY <1>1, AddsUnfolds
  <2> QED
    BY <2>1
<1> QED
  BY <1>2, <1>3, <1>4

\* A sum over one element more has one summand more.
LEMMA OneSummand ==
  ASSUME NEW T, IsFiniteSet(T), NEW x, x \notin T, NEW f \in [T \cup {x} -> Nat],
         NEW g \in [T -> Nat], \A y \in T : g[y] = f[y]
  PROVE  SumFunction(f) = f[x] + SumFunction(g)
<1> DEFINE D == T \cup {x}
           I == CHOOSE i : Adds(i, f, D)
           J == CHOOSE i : Adds(i, g, T)
<1>1. IsFiniteSet(D) /\ T \in SUBSET D /\ D \ {x} = T /\ x \in D
  BY FS_AddElement
<1>2. Adds(I, f, D) /\ Adds(J, g, T)
  BY <1>1, SumsExist, Zenon
<1>3. SumFunction(f) = I[D] /\ SumFunction(g) = J[T]
  BY SumIsChosen
<1> HIDE DEF I, J, D
<1>4. f \in [D -> Nat]
  BY DEF D
<1>5. I[D] = f[x] + I[D \ {x}]
  BY <1>1, <1>2, <1>4, AnyElement
<1>6. I[T] = J[T]
  BY <1>1, <1>2, SumsAgree
<1> QED
  BY <1>1, <1>3, <1>5, <1>6

\* Sums keep the bounds that every summand keeps.
LEMMA SumBounds ==
  ASSUME NEW D, IsFiniteSet(D), NEW f \in [D -> Nat], NEW g \in [D -> Nat],
         \A x \in D : f[x] <= g[x] /\ g[x] <= 5 * f[x]
  PROVE  SumFunction(f) <= SumFunction(g) /\ SumFunction(g) <= 5 * SumFunction(f)
<1> DEFINE I == CHOOSE i : Adds(i, f, D)
           J == CHOOSE i : Adds(i, g, D)
<1>1. Adds(I, f, D) /\ Adds(J, g, D)
  BY SumsExist, Zenon
<1>2. SumFunction(f) = I[D] /\ SumFunction(g) = J[D]
  BY SumIsChosen
<1> HIDE DEF I, J
<1>a. \A s \in SUBSET D : I[s] = IF s = {} THEN 0 ELSE f[Pick(s)] + I[s \ {Pick(s)}]
  BY <1>1, AddsUnfolds
<1>b. \A s \in SUBSET D : J[s] = IF s = {} THEN 0 ELSE g[Pick(s)] + J[s \ {Pick(s)}]
  BY <1>1, AddsUnfolds
<1>n. \A s \in SUBSET D : I[s] \in Nat
  BY <1>1, SumsAreNatural
<1>m. \A s \in SUBSET D : J[s] \in Nat
  BY <1>1, SumsAreNatural
<1> DEFINE P == {s \in SUBSET D : I[s] <= J[s] /\ J[s] <= 5 * I[s]}
<1>3. ASSUME NEW s \in SUBSET D, \A y \in s : s \ {y} \in P
      PROVE  s \in P
  <2>1. CASE s = {}
    <3>1. I[s] = 0 /\ J[s] = 0
      BY <1>a, <1>b, <2>1
    <3> QED
      BY <3>1
  <2>2. CASE s # {}
    <3> DEFINE x == Pick(s)
               i == I[s \ {x}]
               j == J[s \ {x}]
    <3>1. x \in s
      BY <2>2, PickIn
    <3>2. I[s] = f[x] + i /\ J[s] = g[x] + j
      BY <1>a, <1>b, <2>2
    <3>3. i \in Nat /\ j \in Nat
      <4>1. s \ {x} \in SUBSET D
        OBVIOUS
      <4> QED
        BY <1>n, <1>m, <4>1
    <3>4. f[x] \in Nat /\ g[x] \in Nat /\ f[x] <= g[x] /\ g[x] <= 5 * f[x]
      BY <3>1
    <3>5. i <= j /\ j <= 5 * i
      BY <1>3, <3>1
    <3> HIDE DEF i, j, x
    <3> QED
      BY <3>2, <3>3, <3>4, <3>5
  <2> QED
    BY <2>1, <2>2
<1>4. P = SUBSET D
  <2>1. P \in SUBSET SUBSET D
    OBVIOUS
  <2> HIDE DEF P
  <2> QED
    BY <1>3, <2>1, SubsetInduction
<1>5. D \in P
  BY <1>4
<1> QED
  BY <1>2, <1>5

\* Rounding is monotone in the quotient, whatever the denominators are.
LEMMA RoundedRises ==
  ASSUME NEW n \in Nat, NEW d \in Nat \ {0}, NEW m \in Nat, NEW e \in Nat \ {0}, n * e <= m * d
  PROVE  Rounded(n, d) <= Rounded(m, e)
<1> DEFINE p == n \div d
           r == n % d
           q == m \div e
           s == m % e
<1>1. /\ p \in Nat /\ r \in Nat /\ r < d /\ n = d * p + r
      /\ q \in Nat /\ s \in Nat /\ s < e /\ m = e * q + s
  OBVIOUS
<1>2. /\ Rounded(n, d) = IF 2 * r > d \/ (2 * r = d /\ p % 2 = 1) THEN p + 1 ELSE p
      /\ Rounded(m, e) = IF 2 * s > e \/ (2 * s = e /\ q % 2 = 1) THEN q + 1 ELSE q
  BY DEF Rounded
<1> HIDE DEF p, q, r, s
<1>3. (d * p + r) * e <= (e * q + s) * d
  BY <1>1
<1>4. (d * e) * p + r * e <= (d * e) * q + s * d
  <2>1. (d * p + r) * e = (d * e) * p + r * e
    BY <1>1
  <2>2. (e * q + s) * d = (d * e) * q + s * d
    BY <1>1
  <2> QED
    BY <1>3, <2>1, <2>2
<1>5. s * d < e * d /\ r * e >= 0 /\ d * e = e * d /\ d * e > 0
  BY <1>1
<1>6. p <= q
  <2>1. SUFFICES ASSUME q + 1 <= p PROVE FALSE
    BY <1>1
  <2>2. (d * e) * (q + 1) <= (d * e) * p
    BY <1>1, <1>5, <2>1
  <2>3. (d * e) * (q + 1) = (d * e) * q + d * e
    BY <1>1, <1>5
  <2> QED
    BY <1>1, <1>4, <1>5, <2>2, <2>3
<1>7. CASE p < q
  BY <1>1, <1>2, <1>7
<1>8. CASE p = q
  <2>1. r * e <= s * d
    BY <1>1, <1>4, <1>8
  <2>2. 2 * r >= d => 2 * s >= e
    <3>1. SUFFICES ASSUME 2 * r >= d, 2 * s < e PROVE FALSE
      BY <1>1
    <3>2. (2 * r) * e >= d * e
      BY <1>1, <3>1
    <3>3. (2 * s) * d < e * d
      BY <1>1, <3>1
    <3> QED
      BY <1>1, <2>1, <3>2, <3>3
  <2>3. 2 * r > d => 2 * s > e
    <3>1. SUFFICES ASSUME 2 * r > d, 2 * s <= e PROVE FALSE
      BY <1>1
    <3>2. (2 * r) * e > d * e
      BY <1>1, <3>1
    <3>3. (2 * s) * d <= e * d
      BY <1>1, <3>1
    <3> QED
      BY <1>1, <2>1, <3>2, <3>3
  <2> QED
    BY <1>1, <1>2, <1>8, <2>2, <2>3
<1> QED
  BY <1>1, <1>6, <1>7, <1>8

LEMMA TwoOf ==
  ASSUME NEW a \in Int, NEW b \in Int
  PROVE  /\ Min({a, b}) = IF a <= b THEN a ELSE b
         /\ Max({a, b}) = IF a >= b THEN a ELSE b
<1>1. \E x \in {a, b} : \A y \in {a, b} : x <= y
  OBVIOUS
<1>2. \E x \in {a, b} : \A y \in {a, b} : x >= y
  OBVIOUS
<1>3. Min({a, b}) \in {a, b} /\ \A y \in {a, b} : Min({a, b}) <= y
  BY <1>1 DEF Min
<1>4. Max({a, b}) \in {a, b} /\ \A y \in {a, b} : Max({a, b}) >= y
  BY <1>2 DEF Max
<1>5. Min({a, b}) = IF a <= b THEN a ELSE b
  BY <1>3
<1>6. Max({a, b}) = IF a >= b THEN a ELSE b
  BY <1>4
<1> QED
  BY <1>5, <1>6

LEMMA AtLeastZero ==
  ASSUME NEW b \in Int
  PROVE  Max({0, b}) = IF 0 >= b THEN 0 ELSE b
<1>1. \E x \in {0, b} : \A y \in {0, b} : x >= y
  OBVIOUS
<1>2. Max({0, b}) \in {0, b} /\ \A y \in {0, b} : Max({0, b}) >= y
  BY <1>1 DEF Max
<1> QED
  BY <1>2

Earlier == [score : 1 .. 5, age : 0 .. MaxAge]

\* The earlier ratings of a context are finitely many.
LEMMA ContextIsFinite ==
  ASSUME NEW c \in Context
  PROVE  /\ c.earlier \in SUBSET Earlier /\ IsFiniteSet(c.earlier)
         /\ c.others \in Nat /\ c.answered \in Nat /\ c.reports \in Nat
<1>1. /\ c.earlier \in SUBSET Earlier
      /\ c.others \in Nat /\ c.answered \in Nat /\ c.reports \in Nat
  BY ContextAssumption DEF Earlier
<1> DEFINE Pairs == (1 .. 5) \X (0 .. MaxAge)
           f == [r \in Earlier |-> <<r.score, r.age>>]
<1>2. IsFiniteSet(Pairs)
  <2>1. MaxAge \in Int
    BY GigsAssumption
  <2>2. IsFiniteSet(1 .. 5)
    <3> DEFINE five == 5
    <3>1. five \in Int
      OBVIOUS
    <3> HIDE DEF five
    <3>2. IsFiniteSet(1 .. five)
      BY <3>1, FS_Interval
    <3> QED
      BY <3>2 DEF five
  <2>3. IsFiniteSet(0 .. MaxAge)
    BY <2>1, FS_Interval
  <2> QED
    BY <2>2, <2>3, FS_Product
<1>3. f \in Injection(Earlier, Pairs)
  BY DEF Earlier, Injection, IsInjective
<1>4. IsFiniteSet(Earlier)
  <2> HIDE DEF f, Pairs
  <2> QED
    BY <1>2, <1>3, FS_Injection
<1> QED
  BY <1>1, <1>4, FS_Subset

\* A weight is a power of 2, how many subsets a set has.
LEMMA WeightIsPositive ==
  ASSUME NEW h \in 0 .. MaxAge
  PROVE  Weight(h) \in Nat \ {0}
<1> DEFINE n == MaxAge - h
           S == 1 .. n
<1>1. n \in Nat
  BY GigsAssumption
<1> HIDE DEF n
<1>2. IsFiniteSet(S) /\ Cardinality(S) = n
  BY <1>1, FS_Interval
<1> HIDE DEF S
<1>3. IsFiniteSet(SUBSET S) /\ Cardinality(SUBSET S) = 2 ^ n
  BY <1>2, FS_SUBSET
<1>4. Cardinality(SUBSET S) \in Nat /\ Cardinality(SUBSET S) # 0
  <2>1. SUBSET S # {}
    OBVIOUS
  <2> QED
    BY <1>3, <2>1, FS_CardinalityType, FS_EmptySet
<1> QED
  BY <1>3, <1>4 DEF Weight, n

\* The weighted average of scores is one.
LEMMA Weighing ==
  ASSUME NEW D, IsFiniteSet(D), NEW age \in [D -> 0 .. MaxAge], NEW score \in [D -> 1 .. 5],
         NEW E \in SUBSET Earlier, IsFiniteSet(E)
  PROVE  /\ Weights(age, E) \in Nat \ {0} /\ Weighted(score, age, E) \in Nat
         /\ Weights(age, E) <= Weighted(score, age, E)
         /\ Weighted(score, age, E) <= 5 * Weights(age, E)
<1> DEFINE f == [k \in DOMAIN age |-> Weight(age[k])]
           g == [k \in DOMAIN age |-> score[k] * Weight(age[k])]
           u == [r \in E |-> Weight(r.age)]
           v == [r \in E |-> r.score * Weight(r.age)]
           z == Weight(0)
<1>d. DOMAIN age = D
  OBVIOUS
<1>s. \A s \in 1 .. 5 : \A w \in Nat : s * w \in Nat /\ w <= s * w /\ s * w <= 5 * w
  OBVIOUS
<1>1. \A k \in D : Weight(age[k]) \in Nat /\ score[k] \in 1 .. 5
  BY WeightIsPositive
<1>2. \A r \in E : Weight(r.age) \in Nat /\ r.score \in 1 .. 5
  BY WeightIsPositive DEF Earlier
<1>3. /\ f \in [D -> Nat] /\ g \in [D -> Nat]
      /\ \A k \in D : f[k] <= g[k] /\ g[k] <= 5 * f[k]
  BY <1>d, <1>s, <1>1
<1>4. /\ u \in [E -> Nat] /\ v \in [E -> Nat]
      /\ \A r \in E : u[r] <= v[r] /\ v[r] <= 5 * u[r]
  BY <1>s, <1>2
<1>5. z \in Nat \ {0}
  BY GigsAssumption, WeightIsPositive
<1>6. /\ Weights(age, E) = SumFunction(f) + SumFunction(u) + 3 * z
      /\ Weighted(score, age, E) = SumFunction(g) + SumFunction(v) + 9 * z
  BY DEF Weights, Weighted
<1> HIDE DEF f, g, u, v, z
<1>7. /\ SumFunction(f) \in Nat /\ SumFunction(g) \in Nat
      /\ SumFunction(u) \in Nat /\ SumFunction(v) \in Nat
  BY <1>3, <1>4, SumSplits
<1>8. /\ SumFunction(f) <= SumFunction(g) /\ SumFunction(g) <= 5 * SumFunction(f)
      /\ SumFunction(u) <= SumFunction(v) /\ SumFunction(v) <= 5 * SumFunction(u)
  BY <1>3, <1>4, SumBounds
<1> QED
  BY <1>5, <1>6, <1>7, <1>8

\* One rating more is one weight and one weighted score more.
Joined(D, k, age, score, age0, score0) ==
  /\ IsFiniteSet(D) /\ k \notin D
  /\ age \in [D \cup {k} -> 0 .. MaxAge] /\ score \in [D \cup {k} -> 1 .. 5]
  /\ age0 \in [D -> 0 .. MaxAge] /\ score0 \in [D -> 1 .. 5]
  /\ \A j \in D : age0[j] = age[j] /\ score0[j] = score[j]

\* One rating more adds its weight, and its score times its weight.
LEMMA OneRatingMore ==
  ASSUME NEW E \in SUBSET Earlier, IsFiniteSet(E), NEW D, NEW k, NEW age, NEW score,
         NEW age0, NEW score0, Joined(D, k, age, score, age0, score0)
  PROVE  /\ Weights(age, E) = Weights(age0, E) + Weight(age[k])
         /\ Weighted(score, age, E) = Weighted(score0, age0, E) + score[k] * Weight(age[k])
<1> USE DEF Joined
<1> DEFINE More == D \cup {k}
           f == [j \in DOMAIN age |-> Weight(age[j])]
           g == [j \in DOMAIN age |-> score[j] * Weight(age[j])]
           f0 == [j \in DOMAIN age0 |-> Weight(age0[j])]
           g0 == [j \in DOMAIN age0 |-> score0[j] * Weight(age0[j])]
           u == SumFunction([r \in E |-> Weight(r.age)])
           v == SumFunction([r \in E |-> r.score * Weight(r.age)])
           z == Weight(0)
<1>d. DOMAIN age = More /\ DOMAIN age0 = D
  OBVIOUS
<1>s. \A s \in 1 .. 5 : \A w \in Nat : s * w \in Nat
  OBVIOUS
<1>1. \A j \in More : Weight(age[j]) \in Nat /\ score[j] \in 1 .. 5
  BY WeightIsPositive
<1>2. f \in [More -> Nat] /\ g \in [More -> Nat] /\ IsFiniteSet(More) /\ k \in More
  BY <1>d, <1>s, <1>1, FS_AddElement
<1>3. /\ \A j \in D : f0[j] = f[j] /\ g0[j] = g[j]
      /\ f0 \in [D -> Nat] /\ g0 \in [D -> Nat]
      /\ f[k] = Weight(age[k]) /\ g[k] = score[k] * Weight(age[k])
  <2>1. \A j \in D : f0[j] = f[j] /\ g0[j] = g[j]
    BY <1>d
  <2>2. /\ DOMAIN f0 = D /\ f0 = [j \in D |-> f0[j]] /\ DOMAIN g0 = D /\ g0 = [j \in D |-> g0[j]]
        /\ f[k] = Weight(age[k]) /\ g[k] = score[k] * Weight(age[k])
    BY <1>d
  <2> HIDE DEF f, g, f0, g0
  <2> QED
    BY <1>2, <2>1, <2>2
<1>4. /\ Weights(age, E) = SumFunction(f) + u + 3 * z
      /\ Weights(age0, E) = SumFunction(f0) + u + 3 * z
      /\ Weighted(score, age, E) = SumFunction(g) + v + 9 * z
      /\ Weighted(score0, age0, E) = SumFunction(g0) + v + 9 * z
  BY DEF Weights, Weighted
<1>5. u \in Nat /\ v \in Nat /\ z \in Nat
  <2>1. \A r \in E : Weight(r.age) \in Nat /\ r.score \in 1 .. 5
    BY WeightIsPositive DEF Earlier
  <2>2. /\ [r \in E |-> Weight(r.age)] \in [E -> Nat]
        /\ [r \in E |-> r.score * Weight(r.age)] \in [E -> Nat]
    BY <1>s, <2>1
  <2>3. z \in Nat
    BY GigsAssumption, WeightIsPositive
  <2> QED
    BY <2>2, <2>3, SumSplits
<1> HIDE DEF f, g, f0, g0, u, v, z
<1>7. SumFunction(f0) \in Nat /\ SumFunction(g0) \in Nat
  BY <1>3, SumSplits
<1>8. SumFunction(f) = f[k] + SumFunction(f0) /\ f[k] \in Nat
  <2>1. f \in [D \cup {k} -> Nat] /\ f0 \in [D -> Nat] /\ \A j \in D : f0[j] = f[j]
    BY <1>2, <1>3
  <2>2. SumFunction(f) = f[k] + SumFunction(f0)
    BY <2>1, OneSummand, SMTT(30)
  <2> QED
    BY <2>1, <2>2
<1>9. SumFunction(g) = g[k] + SumFunction(g0) /\ g[k] \in Nat
  <2>1. g \in [D \cup {k} -> Nat] /\ g0 \in [D -> Nat] /\ \A j \in D : g0[j] = g[j]
    BY <1>2, <1>3
  <2>2. SumFunction(g) = g[k] + SumFunction(g0)
    BY <2>1, OneSummand, SMTT(30)
  <2> QED
    BY <2>1, <2>2
<1> QED
  BY <1>3, <1>4, <1>5, <1>7, <1>8, <1>9

Numerator(w, t, n, o, f) == 8 * w * n + (20 * o + f * n) * t

\* A better average, or more responses of as many applications: a better score.
LEMMA ScoreRises ==
  ASSUME NEW w \in Nat, NEW t \in Nat \ {0}, NEW w2 \in Nat, NEW t2 \in Nat \ {0},
         NEW n \in Nat \ {0}, NEW o \in Nat, NEW o2 \in Nat, NEW f \in Nat,
         w * t2 <= w2 * t, o <= o2
  PROVE  Rounded(Numerator(w, t, n, o, f), t * n)
           <= Rounded(Numerator(w2, t2, n, o2, f), t2 * n)
<1> DEFINE a == 20 * o + f * n
           b == 20 * o2 + f * n
           num == 8 * w * n + a * t
           num2 == 8 * w2 * n + b * t2
<1>1. a \in Nat /\ b \in Nat /\ a <= b /\ n * n \in Nat /\ t * t2 \in Nat
  OBVIOUS
<1> HIDE DEF a, b
<1>2. /\ 8 * w * n \in Nat /\ 8 * w2 * n \in Nat /\ a * t \in Nat /\ b * t2 \in Nat
      /\ t * n \in Nat \ {0} /\ t2 * n \in Nat \ {0}
  BY <1>1
<1>3. num \in Nat /\ num2 \in Nat
  BY <1>2
<1>4. /\ num * (t2 * n) = 8 * ((n * n) * (w * t2)) + (n * a) * (t * t2)
      /\ num2 * (t * n) = 8 * ((n * n) * (w2 * t)) + (n * b) * (t * t2)
  BY <1>1
<1>5. (n * n) * (w * t2) <= (n * n) * (w2 * t)
  BY <1>1
<1>6. (n * a) * (t * t2) <= (n * b) * (t * t2)
  <2>1. n * a <= n * b /\ n * a \in Nat /\ n * b \in Nat
    BY <1>1
  <2> QED
    BY <1>1, <2>1
<1>7. num * (t2 * n) <= num2 * (t * n)
  <2>1. /\ (n * n) * (w * t2) \in Int /\ (n * n) * (w2 * t) \in Int
        /\ (n * a) * (t * t2) \in Int /\ (n * b) * (t * t2) \in Int
    BY <1>1
  <2> QED
    BY <1>4, <1>5, <1>6, <2>1
<1> HIDE DEF num, num2
<1>8. Rounded(num, t * n) <= Rounded(num2, t2 * n)
  BY <1>2, <1>3, <1>7, RoundedRises
<1> QED
  BY <1>8 DEF Numerator, num, num2, a, b

LEMMA RoundedIsInt ==
  ASSUME NEW n \in Nat, NEW d \in Nat \ {0}
  PROVE  Rounded(n, d) \in Int
BY DEF Rounded

\* The same, of the trust scores before and after a step.
LEMMA TrustRises ==
  ASSUME IsFiniteSet(App), NEW c \in Context, NEW age, NEW more,
         Received' = Received, Responded \subseteq Responded',
         NEW w \in Nat, w = Weighted([k \in DOMAIN age |-> rating[k].score], age, c.earlier),
         NEW t \in Nat \ {0}, t = Weights(age, c.earlier),
         NEW w2 \in Nat, w2 = Weighted([k \in DOMAIN more |-> rating'[k].score], more, c.earlier),
         NEW t2 \in Nat \ {0}, t2 = Weights(more, c.earlier),
         w * t2 <= w2 * t
  PROVE  TrustScore(more, c)' >= TrustScore(age, c)
<1> DEFINE fixed == Component(c.badge) + Max({0, 20 - 4 * c.reports})
           received == Cardinality(Received) + c.others
           m == Min({c.others, c.answered})
           n == IF received >= 3 THEN received ELSE 2
           o == IF received >= 3 THEN Cardinality(Responded) + m ELSE 1
           o2 == IF received >= 3 THEN Cardinality(Responded') + m ELSE 1
           r == Rounded(Numerator(w, t, n, o, fixed), t * n)
           r2 == Rounded(Numerator(w2, t2, n, o2, fixed), t2 * n)
<1>1. c.others \in Nat /\ c.answered \in Nat /\ c.reports \in Nat
  BY ContextIsFinite
<1>2. fixed \in Nat
  <2>1. Component(c.badge) \in Nat
    BY DEF Component
  <2>2. 20 - 4 * c.reports \in Int
    BY <1>1
  <2>3. Max({0, 20 - 4 * c.reports}) \in Nat
    <3> DEFINE x == 20 - 4 * c.reports
    <3>1. Max({0, x}) = IF 0 >= x THEN 0 ELSE x
      BY <2>2, AtLeastZero
    <3> QED
      BY <2>2, <3>1
  <2> QED
    BY <2>1, <2>3
<1>3. m \in Nat
  BY <1>1, TwoOf
<1>4. /\ Cardinality(Received) \in Nat /\ Cardinality(Responded) \in Nat
      /\ Cardinality(Responded') \in Nat /\ Cardinality(Responded) <= Cardinality(Responded')
  <2>1. Received \in SUBSET App /\ Responded' \in SUBSET App
    BY DEF Received, Responded
  <2>2. IsFiniteSet(Received) /\ IsFiniteSet(Responded')
    BY <2>1, FS_Subset
  <2>3. /\ Responded \in SUBSET Responded' /\ IsFiniteSet(Responded)
        /\ Cardinality(Responded) <= Cardinality(Responded')
    BY <2>2, FS_Subset
  <2> QED
    BY <2>2, <2>3, FS_CardinalityType
<1> DEFINE S == Responded'
<1>5. /\ TrustScore(age, c) = Max({0, Min({100, r})})
      /\ TrustScore(more, c)' = Max({0, Min({100, r2})})
  BY DEF TrustScore, Numerator
<1> HIDE DEF fixed, m
<1>6. n \in Nat \ {0} /\ o \in Nat /\ o2 \in Nat /\ o <= o2
  BY <1>1, <1>3, <1>4
<1> HIDE DEF n, o, o2
<1>7. r <= r2
  BY <1>2, <1>6, ScoreRises
<1>8. r \in Int /\ r2 \in Int
  <2>1. /\ Numerator(w, t, n, o, fixed) \in Nat /\ t * n \in Nat \ {0}
        /\ Numerator(w2, t2, n, o2, fixed) \in Nat /\ t2 * n \in Nat \ {0}
    BY <1>2, <1>6 DEF Numerator
  <2> QED
    BY <2>1, RoundedIsInt
<1> HIDE DEF r, r2
<1>9. /\ Min({100, r}) = IF 100 <= r THEN 100 ELSE r
      /\ Min({100, r2}) = IF 100 <= r2 THEN 100 ELSE r2
  BY <1>8, TwoOf
<1>10. Min({100, r}) \in Int /\ Min({100, r2}) \in Int /\ Min({100, r}) <= Min({100, r2})
  BY <1>7, <1>8, <1>9
<1> DEFINE p == Min({100, r})
           q == Min({100, r2})
<1> HIDE DEF p, q
<1>11. p \in Int /\ q \in Int /\ p <= q
  BY <1>10 DEF p, q
<1>12. /\ Max({0, p}) = IF 0 >= p THEN 0 ELSE p
       /\ Max({0, q}) = IF 0 >= q THEN 0 ELSE q
  BY <1>11, AtLeastZero
<1> QED
  BY <1>5, <1>11, <1>12 DEF p, q

\* What a step without a reason to fall does to the rows the score is made of.
FairStep ==
  /\ Received' = Received /\ Responded \subseteq Responded'
  /\ \/ rating' = rating
     \/ \E k \in Key, score \in Given :
          /\ ~Rated(k) /\ score >= 5
          /\ rating' = [rating EXCEPT ![k] = NewRating(score)]
     \/ \E k \in Key :
          /\ Rated(k) /\ (rating[k].hidden \/ rating[k].score <= 1)
          /\ rating' = [rating EXCEPT ![k].hidden = TRUE]

\* A step without a reason to fall is a FairStep.
LEMMA StepIsFair ==
  ASSUME Typed, Typed', GigNext, ~FallsFor
  PROVE  FairStep
<1>f. /\ status \in [App -> Status] /\ rating \in [Key -> RatingRow \cup {None}]
      /\ thread \in [Thread -> AnyRequest]
  BY DEF Typed, HiringTypeOK, TypeRows, AnyRequest
<1>g. \A s \in Given : s \in Int
  BY GigsAssumption
<1>t. status' \in [App -> Status] /\ rating' \in [Key -> RatingRow \cup {None}]
  BY DEF Typed, HiringTypeOK, TypeRows
<1>1. CASE UNCHANGED <<status, rating>>
  BY <1>1 DEF FairStep, Received, Responded
\* The status of one application changes, and never back.
<1>2. ASSUME NEW a \in App, NEW s, status' = [status EXCEPT ![a] = s], rating' = rating,
             s = status[a] \/ s \in {"Completed"} \cup Decision \/ status[a] = "absent"
      PROVE  FairStep
  <2>1. \A b \in App : status'[b] = IF b = a THEN s ELSE status[b]
    BY <1>2, <1>f
  <2>2. \A b \in App : status[b] = "absent" => status'[b] = "absent"
    BY DEF FallsFor
  <2>3. s = status[a] \/ s \in {"Completed"} \cup Decision
    BY <1>2, <2>1, <2>2
  <2>4. \A b \in App : status'[b] = "absent" => status[b] = "absent"
    BY <2>1, <2>3 DEF Decision
  <2>5. \A b \in App : status[b] \notin {"absent", "Pending"} => status'[b] \notin {"absent", "Pending"}
    BY <2>1, <2>3 DEF Decision
  <2>6. Received' = Received /\ Responded \subseteq Responded'
    BY <2>2, <2>4, <2>5 DEF Received, Responded
  <2> QED
    BY <1>2, <2>6 DEF FairStep
<1>3. ASSUME NEW a \in App, Apply(a) PROVE FairStep
  BY <1>2, <1>3 DEF Apply
<1>4. ASSUME NEW t \in Thread, CommitDecision(t) PROVE FairStep
  <2>1. thread[t].app \in App /\ thread[t].to \in Decision
    BY <1>4, <1>f, GigRequestFields DEF CommitDecision
  <2> DEFINE a == thread[t].app
  <2>2. Written(t) = status[a] \/ Written(t) \in Decision
    BY <2>1 DEF Written
  <2>3. status' = [status EXCEPT ![a] = Written(t)] /\ rating' = rating
    BY <1>4 DEF CommitDecision
  <2> QED
    BY <1>2, <2>1, <2>2, <2>3
<1>5. ASSUME NEW t \in Thread, CommitCompletion(t) PROVE FairStep
  <2>1. thread[t].app \in App
    BY <1>5, <1>f, GigRequestFields DEF CommitCompletion
  <2>2. status' = [status EXCEPT ![thread[t].app] = "Completed"] /\ rating' = rating
    BY <1>5 DEF CommitCompletion
  <2> QED
    BY <1>2, <2>1, <2>2
<1>6. ASSUME NEW t \in Thread, CommitRating(t) PROVE FairStep
  <2> DEFINE k == thread[t].of
  <2>1. k \in Key /\ thread[t].score \in Given
    BY <1>6, <1>f, GigRequestFields DEF CommitRating
  <2>2. /\ ~Rated(k) /\ rating' = [rating EXCEPT ![k] = NewRating(thread[t].score)]
        /\ status' = status
    BY <1>6 DEF CommitRating, Fits
  <2> DEFINE s == thread[t].score
  <2>s. s \in Int
    BY <1>g, <2>1
  <2>3. rating'[k] = NewRating(s) /\ rating'[k] # None /\ rating'[k].score = s
    <3>1. NewRating(s) \in RatingRow /\ NewRating(s).score = s
      BY <2>1 DEF NewRating, RatingRow
    <3>2. rating'[k] = NewRating(s)
      BY <1>f, <2>1, <2>2
    <3> QED
      BY <3>1, <3>2, NoneAssumption
  <2>4. thread[t].score >= 5
    <3>1. ~(rating'[k].score < 5)
      BY <2>1, <2>2, <2>3 DEF FallsFor
    <3> QED
      BY <2>s, <2>3, <3>1
  <2> QED
    BY <2>1, <2>2, <2>4 DEF FairStep, Received, Responded
<1>7. ASSUME NEW t \in Thread, NEW f \in Flag, HideRating(t, f) PROVE FairStep
  <2> DEFINE k == flag[f].of
  <2>1. Rated(k) /\ k \in Key
    BY <1>7 DEF HideRating, Typed, FlagsOfRatings, HiringTypeOK, TypeRows, FlagRow
  <2>2. rating' = [rating EXCEPT ![k].hidden = TRUE] /\ status' = status
    BY <1>7 DEF HideRating
  <2>3. rating[k] \in RatingRow
    BY <1>f, <2>1 DEF Rated
  <2>4. rating'[k].hidden
    BY <1>f, <2>1, <2>2, <2>3 DEF RatingRow
  <2>5. rating[k].hidden \/ rating[k].score <= 1
    <3>1. rating[k].hidden \/ ~(rating[k].score > 1)
      BY <2>1, <2>4 DEF FallsFor
    <3>2. rating[k].score \in Int
      BY <1>g, <2>3 DEF RatingRow
    <3> QED
      BY <3>1, <3>2
  <2> QED
    BY <2>1, <2>2, <2>5 DEF FairStep, Received, Responded
<1>8. CASE \E t \in Thread : \/ EmployerStep(t) \/ RatingStep(t) \/ MarkFlag(t) \/ Crash(t)
  BY <1>1, <1>4, <1>5, <1>6, <1>8
     DEF EmployerStep, RatingStep, StartCompletion, StartDecision, ComposeNotice, Deliver,
         StartRating, LoseRating, MarkFlag, Crash, rows
<1>9. CASE FlagStep
  BY <1>1, <1>7, <1>9 DEF FlagStep, FileFlag, DismissFlag, LoseHiding, rows
<1> QED
  BY <1>3, <1>8, <1>9 DEF GigNext, Next

\* The average of the visible scores does not fall at such a step.
LEMMA AverageRises ==
  ASSUME IsFiniteSet(App), Typed, Typed', FairStep, NEW c \in Context,
         NEW age \in Ages, NEW more, more \in Ages',
         \A k \in DOMAIN age \cap DOMAIN more : more[k] = age[k],
         NEW score, score = [k \in DOMAIN age |-> rating[k].score],
         NEW score2, score2 = [k \in DOMAIN more |-> rating'[k].score]
  PROVE  LET w  == Weighted(score, age, c.earlier)
             t  == Weights(age, c.earlier)
             w2 == Weighted(score2, more, c.earlier)
             t2 == Weights(more, c.earlier)
         IN  /\ w \in Nat /\ t \in Nat \ {0} /\ w2 \in Nat /\ t2 \in Nat \ {0}
             /\ w * t2 <= w2 * t
<1> DEFINE V == Visible("worker_to_employer")
           U == Visible("worker_to_employer")'
           E == c.earlier
           w  == Weighted(score, age, E)
           t  == Weights(age, E)
           w2 == Weighted(score2, more, E)
           t2 == Weights(more, E)
<1>f. /\ rating \in [Key -> RatingRow \cup {None}] /\ rating' \in [Key -> RatingRow \cup {None}]
      /\ \A r \in RatingRow : r # None /\ r.score \in 1 .. 5 /\ r.hidden \in BOOLEAN
  BY GigsAssumption, NoneAssumption DEF Typed, HiringTypeOK, TypeRows, RatingRow
<1>k. IsFiniteSet(Key)
  <2>1. IsFiniteSet(Direction)
    <3>1. Direction = {"worker_to_employer"} \cup {"employer_to_worker"}
      BY DEF Direction
    <3> QED
      BY <3>1, FS_Singleton, FS_AddElement
  <2> QED
    BY <2>1, FS_Product DEF Key
<1>v. /\ V = {k \in Key : k[2] = "worker_to_employer" /\ rating[k] # None /\ ~rating[k].hidden}
      /\ U = {k \in Key : k[2] = "worker_to_employer" /\ rating'[k] # None /\ ~rating'[k].hidden}
  BY DEF Visible, Rated
<1>1. /\ V \in SUBSET Key /\ IsFiniteSet(V) /\ age \in [V -> 0 .. MaxAge]
      /\ \A k \in V : rating[k] \in RatingRow
  <2>1. V \in SUBSET Key /\ \A k \in V : rating[k] \in RatingRow
    BY <1>f, <1>v
  <2>2. age \in [V -> 0 .. MaxAge]
    BY DEF Ages
  <2> HIDE DEF V
  <2> QED
    BY <1>k, <2>1, <2>2, FS_Subset
<1>2. /\ U \in SUBSET Key /\ IsFiniteSet(U) /\ more \in [U -> 0 .. MaxAge]
      /\ \A k \in U : rating'[k] \in RatingRow
  <2>1. U \in SUBSET Key /\ \A k \in U : rating'[k] \in RatingRow
    BY <1>f, <1>v
  <2>2. more \in [U -> 0 .. MaxAge]
    BY DEF Ages
  <2> HIDE DEF U
  <2> QED
    BY <1>k, <2>1, <2>2, FS_Subset
<1>e. E \in SUBSET Earlier /\ IsFiniteSet(E)
  BY ContextIsFinite
<1> HIDE DEF U, V, E
<1>3. score \in [V -> 1 .. 5] /\ score2 \in [U -> 1 .. 5]
  BY <1>f, <1>1, <1>2
<1>4. /\ w \in Nat /\ t \in Nat \ {0} /\ t <= w /\ w <= 5 * t
      /\ w2 \in Nat /\ t2 \in Nat \ {0} /\ t2 <= w2 /\ w2 <= 5 * t2
  BY <1>1, <1>2, <1>3, <1>e, Weighing
\* The visible scores are as they were.
<1>5. ASSUME U = V, \A k \in V : rating'[k].score = rating[k].score
      PROVE  w * t2 <= w2 * t
  <2>1. more = age
    BY <1>1, <1>2, <1>5
  <2>2. score2 = score
    BY <1>5, <2>1, <1>1
  <2>3. w2 = w /\ t2 = t
    BY <2>1, <2>2
  <2> HIDE DEF w, w2, t, t2
  <2> QED
    BY <1>4, <2>3
\* One best score more.
<1>6. ASSUME NEW k, k \notin V, U = V \cup {k}, score2[k] = 5,
             \A j \in V : rating'[j].score = rating[j].score
      PROVE  w * t2 <= w2 * t
  <2>1. \A j \in V : age[j] = more[j] /\ score[j] = score2[j]
    BY <1>1, <1>2, <1>6
  <2> DEFINE x == Weight(more[k])
  <2>2. x \in Nat
    BY <1>2, <1>6, WeightIsPositive
  <2>3. Joined(V, k, more, score2, age, score)
    BY <1>1, <1>2, <1>3, <1>6, <2>1 DEF Joined
  <2>4. t2 = t + x /\ w2 = w + score2[k] * x
    BY <1>e, <2>3, OneRatingMore
  <2> HIDE DEF w, w2, t, t2, x
  <2>5. w2 = w + 5 * x
    BY <1>6, <2>4
  <2>6. w * t2 = w * t + w * x /\ w2 * t = w * t + (5 * t) * x
    BY <1>4, <2>2, <2>4, <2>5
  <2>7. w * x <= (5 * t) * x
    BY <1>4, <2>2
  <2>8. w * t \in Int /\ w * x \in Int /\ (5 * t) * x \in Int
    BY <1>4, <2>2
  <2> QED
    BY <2>6, <2>7, <2>8
\* One worst score less.
<1>7. ASSUME NEW k, k \notin U, V = U \cup {k}, score[k] = 1,
             \A j \in U : rating'[j].score = rating[j].score
      PROVE  w * t2 <= w2 * t
  <2>1. \A j \in U : more[j] = age[j] /\ score2[j] = score[j]
    BY <1>1, <1>2, <1>7
  <2> DEFINE x == Weight(age[k])
  <2>2. x \in Nat
    BY <1>1, <1>7, WeightIsPositive
  <2>3. Joined(U, k, age, score, more, score2)
    BY <1>1, <1>2, <1>3, <1>7, <2>1 DEF Joined
  <2>4. t = t2 + x /\ w = w2 + score[k] * x
    BY <1>e, <2>3, OneRatingMore
  <2> HIDE DEF w, w2, t, t2, x
  <2>5. w = w2 + x
    BY <1>7, <2>2, <2>4
  <2>6. w * t2 = w2 * t2 + t2 * x /\ w2 * t = w2 * t2 + w2 * x
    BY <1>4, <2>2, <2>4, <2>5
  <2>7. t2 * x <= w2 * x
    BY <1>4, <2>2
  <2>8. w2 * t2 \in Int /\ t2 * x \in Int /\ w2 * x \in Int
    BY <1>4, <2>2
  <2> QED
    BY <2>6, <2>7, <2>8
<1>8. ASSUME rating' = rating
      PROVE  w * t2 <= w2 * t
  <2>1. U = V
    BY <1>8, <1>v
  <2> QED
    BY <1>5, <1>8, <2>1
<1>9. ASSUME NEW k \in Key, NEW s \in Given, ~Rated(k), s >= 5,
             rating' = [rating EXCEPT ![k] = NewRating(s)]
      PROVE  w * t2 <= w2 * t
  <2>1. rating[k] = None /\ rating'[k] = NewRating(s) /\ \A j \in Key \ {k} : rating'[j] = rating[j]
    BY <1>f, <1>9 DEF Rated
  <2>2. NewRating(s) # None /\ NewRating(s).score = s /\ ~NewRating(s).hidden /\ s = 5
    <3>1. s = 5
      BY <1>9, GigsAssumption
    <3>2. NewRating(s) \in RatingRow
      BY DEF NewRating, RatingRow
    <3> QED
      BY <1>f, <3>1, <3>2 DEF NewRating
  <2>3. k \notin V /\ \A j \in V : j \in Key /\ rating'[j] = rating[j]
    BY <1>v, <2>1
  <2>4. CASE k[2] = "worker_to_employer"
    <3>1. U = V \cup {k}
      BY <1>v, <2>1, <2>2, <2>4
    <3>2. score2[k] = 5
      BY <1>2, <2>1, <2>2, <3>1
    <3> QED
      BY <1>6, <2>3, <3>1, <3>2
  <2>5. CASE k[2] # "worker_to_employer"
    <3>1. U = V
      BY <1>v, <2>1, <2>5
    <3> QED
      BY <1>5, <2>3, <3>1
  <2> QED
    BY <2>4, <2>5
<1>10. ASSUME NEW k \in Key, Rated(k), rating[k].hidden \/ rating[k].score <= 1,
              rating' = [rating EXCEPT ![k].hidden = TRUE]
       PROVE  w * t2 <= w2 * t
  <2>1. rating[k] \in RatingRow
    BY <1>f, <1>10 DEF Rated
  <2>2. /\ rating'[k].hidden /\ rating'[k].score = rating[k].score
        /\ \A j \in Key \ {k} : rating'[j] = rating[j]
    BY <1>f, <1>10, <2>1 DEF RatingRow
  <2>3. k \notin U /\ \A j \in U : rating'[j] = rating[j]
    BY <1>v, <2>2
  <2>4. CASE k \in V
    <3>1. V = U \cup {k}
      BY <1>v, <2>2, <2>4
    <3>2. ~rating[k].hidden
      BY <1>v, <2>4
    <3>3. rating[k].score = 1
      BY <1>f, <1>10, <2>1, <3>2
    <3>4. score[k] = 1
      BY <1>1, <2>4, <3>3
    <3> QED
      BY <1>7, <2>3, <3>1, <3>4
  <2>5. CASE k \notin V
    <3>1. U = V
      BY <1>v, <2>2, <2>5
    <3> QED
      BY <1>5, <2>3, <3>1
  <2> QED
    BY <2>4, <2>5
<1>11. w * t2 <= w2 * t
  BY <1>8, <1>9, <1>10 DEF FairStep
<1> QED
  BY <1>4, <1>11 DEF E

-----------------------------------------------------------------------------
(* What steps do *)

\* Ratings are only added, and only their hiding is ever written.
LEMMA StepKeepsRatings ==
  ASSUME HiringInv, HiringNext, NEW k \in Key, Rated(k)
  PROVE  /\ rating'[k] # None
         /\ rating'[k].score = rating[k].score
         /\ rating[k].hidden => rating'[k].hidden
<1> USE DEF rows, history, Rated
<1>f. rating \in [Key -> RatingRow \cup {None}] /\ rating[k] \in RatingRow
  BY DEF HiringInv, HiringTypeOK, TypeRows
<1>1. CASE rating' = rating
  BY <1>1
<1>2. ASSUME NEW t \in Thread, CommitRating(t)
      PROVE  rating'[k] = rating[k]
  BY <1>2, <1>f DEF CommitRating, Fits
<1>3. ASSUME NEW t \in Thread, NEW f \in Flag, HideRating(t, f)
      PROVE  rating'[k] = rating[k] \/ rating'[k] = [rating[k] EXCEPT !.hidden = TRUE]
  BY <1>3, <1>f DEF HideRating
<1>4. rating' = rating \/ (\E t \in Thread : CommitRating(t))
        \/ \E t \in Thread, f \in Flag : HideRating(t, f)
  <2>1. CASE GigNext
    BY <2>1 DEF GigNext, Next, Apply, EmployerStep, StartCompletion, StartDecision,
       CommitDecision, CommitCompletion, ComposeNotice, Deliver, RatingStep, StartRating,
       LoseRating, MarkFlag, Crash, FlagStep, FileFlag, DismissFlag, LoseHiding
  <2>2. CASE MessageNext
    BY <2>2 DEF MessageNext, gigVars
  <2> QED
    BY <2>1, <2>2 DEF HiringNext
<1>5. CASE \E t \in Thread, f \in Flag : HideRating(t, f)
  <2>1. /\ [rating[k] EXCEPT !.hidden = TRUE] \in RatingRow
        /\ [rating[k] EXCEPT !.hidden = TRUE].score = rating[k].score
        /\ [rating[k] EXCEPT !.hidden = TRUE].hidden
    BY <1>f DEF RatingRow
  <2> QED
    BY <1>3, <1>5, <2>1, NoneAssumption
<1> QED
  BY <1>1, <1>2, <1>4, <1>5

\* Only a completion makes an application Completed that is not.
LEMMA StepCompletes ==
  ASSUME HiringInv, HiringNext, NEW a \in App, status[a] # "Completed", status'[a] = "Completed"
  PROVE  status[a] = "Accepted" \/ a \in overlapped
<1> USE DEF rows, history
<1>f. /\ status \in [App -> Status] /\ thread \in [Thread -> AnyRequest]
  BY DEF HiringInv, HiringTypeOK, TypeRows, AnyRequest
<1>1. ASSUME NEW b \in App, Apply(b) PROVE FALSE
  BY <1>1, <1>f DEF Apply
<1>2. ASSUME NEW t \in Thread, CommitDecision(t) PROVE FALSE
  <2>1. thread[t].app \in App /\ thread[t].to \in Decision
    BY <1>2, <1>f, GigRequestFields DEF CommitDecision
  <2>2. status' = [status EXCEPT ![thread[t].app] = Written(t)]
    BY <1>2 DEF CommitDecision
  <2>3. Written(t) = "Completed" => status[thread[t].app] = "Completed"
    BY <2>1 DEF Written, Decision
  <2> QED
    BY <1>f, <2>1, <2>2, <2>3
<1>3. ASSUME NEW t \in Thread, CommitCompletion(t)
      PROVE  status[a] = "Accepted" \/ a \in overlapped
  <2>1. /\ thread[t].op = "completing" /\ thread[t].app \in App
        /\ status' = [status EXCEPT ![thread[t].app] = "Completed"]
    BY <1>3, <1>f, GigRequestFields DEF CommitCompletion
  <2>2. thread[t].app = a
    BY <1>f, <2>1
  <2> QED
    BY <2>1, <2>2 DEF HiringInv, GigInv, CompletesAccepted
<1>4. \/ status' = status
      \/ \E b \in App : Apply(b)
      \/ \E t \in Thread : CommitDecision(t) \/ CommitCompletion(t)
  <2>1. CASE GigNext
    BY <2>1 DEF GigNext, Next, EmployerStep, StartCompletion, StartDecision,
       ComposeNotice, Deliver, RatingStep, StartRating, CommitRating,
       LoseRating, MarkFlag, Crash, FlagStep, FileFlag, DismissFlag, HideRating, LoseHiding
  <2>2. CASE MessageNext
    BY <2>2 DEF MessageNext, gigVars
  <2> QED
    BY <2>1, <2>2 DEF HiringNext
<1> QED
  BY <1>1, <1>2, <1>3, <1>4

-----------------------------------------------------------------------------
(* Theorems *)

\* Rows, requests and notices keep their types (the columns of Application,
\* GigRating, RatingFlag, Message and Notification).
THEOREM HiringTypes == HiringSpec => []HiringTypeOK
<1>1. HiringInv => HiringTypeOK
  BY DEF HiringInv
<1> QED
  BY <1>1, HiringInvAlways, PTL

\* Whoever is rated was accepted for a gig that was completed, however
\* decisions, completions and ratings interleave and die (MayRate,
\* MayComplete and the unique constraint).
THEOREM RatingsAreEarned == HiringSpec => []RatedWasHired
<1>1. HiringInv => RatedWasHired
  BY DEF HiringInv, GigInv
<1> QED
  BY <1>1, HiringInvAlways, PTL

\* A rating is never changed or removed, and never shown again once hidden.
THEOREM RatingsAreImmutable == HiringSpec => RatingsStand
<1>1. ASSUME HiringInv, [HiringNext]_hiringVars
      PROVE  [\A k \in Key :
                Rated(k) => /\ rating'[k] # None
                            /\ rating'[k].score = rating[k].score
                            /\ rating[k].hidden => rating'[k].hidden]_vars
  BY <1>1, StepKeepsRatings DEF hiringVars
<1> QED
  BY <1>1, HiringInvAlways, PTL DEF HiringSpec, RatingsStand

\* Only an accepted application is completed, unless requests overlapped.
THEOREM CompletionsAreOfAccepted == HiringSpec => CompletedFromAccepted
<1>1. ASSUME HiringInv, [HiringNext]_hiringVars
      PROVE  [\A a \in App :
                status[a] # "Completed" /\ status'[a] = "Completed"
                  => status[a] = "Accepted" \/ a \in overlapped]_vars
  BY <1>1, StepCompletes DEF hiringVars
<1> QED
  BY <1>1, HiringInvAlways, PTL DEF HiringSpec, CompletedFromAccepted

\* A message marked read was sent to its reader, or the request that marked
\* it died (_mark_messages_read commits before the list is read).
THEOREM ReadMessagesWereServed == HiringSpec => []ReadWasServed
<1>1. HiringInv => ReadWasServed
  BY DEF HiringInv, MessageInv
<1> QED
  BY <1>1, HiringInvAlways, PTL

\* Attachments and message rows agree, but for what a crash, a refusal, a removal
\* that failed or an erasure under way accounts for.
THEOREM AttachmentsFollowRows == HiringSpec => []AttachmentsAgree
<1>1. HiringInv => AttachmentsAgree
  BY DEF HiringInv, MessageInv
<1> QED
  BY <1>1, HiringInvAlways, PTL

\* After an erasure no row holds the sender's text or names a file of it, but
\* for messages that were under way when the erasure read the rows.
THEOREM ErasedTextsAreGone == HiringSpec => []ErasedTextIsGone
<1>1. HiringInv => ErasedTextIsGone
  BY DEF HiringInv, MessageInv
<1> QED
  BY <1>1, HiringInvAlways, PTL

\* notify_user: an employer's message is told of once when its request is
\* over, unless the notice was lost; nothing else the worker is told is it.
THEOREM MessagesAreToldOnce == HiringSpec => []ToldOnce
<1>1. ASSUME ToldInv, NEW m \in Msg
      PROVE  \/ m \in unnoticed \/ "user" \in erased \/ Notifying(m)
             \/ Cardinality(Slots(m)) = IF OfEmployer(m) THEN 1 ELSE 0
  <2>1. Cardinality({}) = 0 /\ \A i \in Nat : Cardinality({i}) = 1
    BY FS_EmptySet, FS_Singleton
  <2> QED
    BY <1>1, <2>1 DEF ToldInv, NoticeOnce
<1>2. \A m \in Msg : M!Notices(m) = Cardinality(Slots(m))
  BY Zenon DEF M!Notices, Slots, Cardinality, M!Cardinality
<1>3. ToldInv => ToldOnce
  <2>1. SUFFICES ASSUME ToldInv PROVE ToldOnce
    OBVIOUS
  <2> QED
    BY <1>1, <1>2, <2>1 DEF ToldOnce, M!ToldOnce, Notifying, OfEmployer
<1> QED
  BY <1>3, ToldInvAlways, PTL

\* When nothing about an application is under way, the last notice its worker
\* got tells the status it has, unless two requests overlapped, a notice was
\* lost or the account is erased: a notice is made of the row as it is after
\* the commit (notify_user, log_event).
THEOREM LastNoticeIsSo == HiringSpec => []ToldIsSo
<1>1. TellsInv => ToldIsSo
  <2>1. ASSUME TellsInv, "user" \notin erased, NEW a \in App,
               a \notin overlapped \cup untold, ~\E t \in Thread : About(t, a)
        PROVE  LastTold(a) = Shown(status[a])
    <3>1. \A t \in Thread : ~SpeaksOf(thread[t], a)
      BY <2>1 DEF About, SpeaksOf, Speaks, Tells
    <3> QED
      BY <2>1, <3>1 DEF TellsInv, SpeaksSo
  <2> QED
    BY <2>1 DEF ToldIsSo, NoticeIsStatus, Shown
<1> QED
  BY <1>1, TellsInvAlways, PTL

\* Whatever an employer answers, to however many, and however old the ratings
\* are, answering does not lower the trust score, nor does the best rating, or
\* hiding the worst (_employer_trust_summary).
THEOREM TrustNeverFallsForAnswering ==
  ASSUME IsFiniteSet(App)
  PROVE  HiringSpec => TrustFallsForAReason
<1>1. ASSUME Typed, Typed', [HiringNext]_hiringVars, status' # status \/ rating' # rating, ~FallsFor,
             NEW c \in Context, NEW age \in Ages, NEW more \in Ages',
             \A k \in DOMAIN age \cap DOMAIN more : more[k] = age[k]
      PROVE  TrustScore(more, c)' >= TrustScore(age, c)
  <2>1. GigNext
    BY <1>1 DEF HiringNext, MessageNext, hiringVars, gigVars, vars, rows
  <2>2. FairStep
    BY <1>1, <2>1, StepIsFair
  <2> DEFINE score == [k \in DOMAIN age |-> rating[k].score]
             score2 == [k \in DOMAIN more |-> rating'[k].score]
             w  == Weighted(score, age, c.earlier)
             t  == Weights(age, c.earlier)
             w2 == Weighted(score2, more, c.earlier)
             t2 == Weights(more, c.earlier)
  <2>3. /\ w \in Nat /\ t \in Nat \ {0} /\ w2 \in Nat /\ t2 \in Nat \ {0}
        /\ w * t2 <= w2 * t
    BY <1>1, <2>2, AverageRises
  <2>4. Received' = Received /\ Responded \subseteq Responded'
    BY <2>2 DEF FairStep
  <2> QED
    BY <2>3, <2>4, TrustRises
<1>2. ASSUME HiringInv, HiringInv', [HiringNext]_hiringVars
      PROVE  [(status' # status \/ rating' # rating) /\ ~FallsFor =>
                \A context \in Context, age \in Ages :
                  \A newAge \in {g \in Ages' : \A k \in DOMAIN age \cap DOMAIN g : g[k] = age[k]} :
                    TrustScore(newAge, context)' >= TrustScore(age, context)]_vars
  <2>1. Typed /\ Typed'
    BY <1>2 DEF HiringInv, Typed, GigInv, MessageInv, Requests, Erasures, Deliveries
  <2> QED
    BY <1>1, <1>2, <2>1
<1> QED
  BY <1>2, HiringInvAlways, PTL DEF HiringSpec, TrustFallsForAReason
=============================================================================
