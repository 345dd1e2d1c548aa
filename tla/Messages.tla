------------------------------ MODULE Messages ------------------------------
(***************************************************************************)
(* Messages between the worker and the employer of an application          *)
(* (backend/app.py): sending, attachments, read receipts, notices, and     *)
(* what the erasure of either account does to them.                        *)
(*                                                                         *)
(* A request checks who is asking once, at its start.  An attachment is on *)
(* the disk before the row that names it is committed; opening a thread    *)
(* marks the other side's messages read before it lists them.              *)
(***************************************************************************)
EXTENDS Naturals, Sequences, FiniteSets

CONSTANTS
  App, Msg,    \* applications, rows of Message
  Thread, None,
  MaxRequests, \* bound: requests of one behaviour
  MaxFaults    \* bound: worker deaths, failures to notify and to remove a file

VARIABLES
  message,     \* the table of messages
  disk,        \* attachments in MESSAGE_ATTACHMENT_FOLDER, by their message
  erased,      \* sides whose account is erased
  inactive,    \* sides whose column active is FALSE
  inbox,       \* the worker's Notification rows, oldest first
  thread,      \* requests under way
  served,      \* history: messages that each side has been sent
  unseen,      \* history: messages marked read by a request that died
  leftover,    \* history: attachments refused with their message, of a request
               \* that died, or that an erasure failed to remove
  halted,      \* history: sides whose erasure died half way
  overtaken,   \* history: messages committed after their sender's erasure looked
  unnoticed,   \* history: messages whose notice was lost
  requests, faults

history == <<served, unseen, leftover, halted, overtaken, unnoticed>>
counters == <<requests, faults>>
accounts == <<erased, inactive>>
vars == <<message, disk, accounts, inbox, thread, history, counters>>

Side == {"user", "employer"}
Other(side) == IF side = "user" THEN "employer" ELSE "user"

\* The text is the sender's, or the tombstone that erasure writes.
MessageRow == [app : App, by : Side, text : {"own", "deleted"}, read : BOOLEAN, file : BOOLEAN]

Idle == [op |-> "idle"]
MessageOp == {"sending", "committing", "notifying", "serving", "erasing"}
MessageRequest ==
  [op : {"sending"}, msg : Msg, app : App, by : Side, long : BOOLEAN]
    \cup [op : {"committing"}, msg : Msg, app : App, by : Side, file : BOOLEAN]
    \cup [op : {"notifying"}, msg : Msg]
    \cup [op : {"serving"}, app : App, by : Side, marked : SUBSET Msg]
    \cup [op : {"erasing"}, by : Side, found : SUBSET Msg, was : BOOLEAN]

TypeRows ==
  /\ message \in [Msg -> MessageRow \cup {None}]
  /\ served \in [Side -> SUBSET Msg]
  /\ disk \cup unseen \cup leftover \cup overtaken \cup unnoticed \subseteq Msg
  /\ erased \cup inactive \cup halted \subseteq Side

InitRows ==
  /\ message = [m \in Msg |-> None]
  /\ served = [s \in Side |-> {}]
  /\ disk = {} /\ unseen = {} /\ leftover = {} /\ overtaken = {} /\ unnoticed = {}
  /\ erased = {} /\ inactive = {} /\ halted = {}

-----------------------------------------------------------------------------
Become(t, request) == thread' = [thread EXCEPT ![t] = request]
Counted == requests < MaxRequests /\ requests' = requests + 1
Sent(m) == message[m] # None
OfApp(a) == {m \in Msg : Sent(m) /\ message[m].app = a}

\* _current_user_id, _current_employer_id: an erased account that an admin has
\* reinstated may send with the token it has.
MayBegin(t, side) ==
  /\ Counted
  /\ side \notin inactive
  /\ thread[t] = Idle
  /\ UNCHANGED faults

Begin(t, side, request) == MayBegin(t, side) /\ Become(t, request)

\* The primary key of a new row, and the microsecond in its attachment's name.
Fresh(m) ==
  /\ ~Sent(m) /\ m \notin disk \cup leftover
  /\ \A t \in Thread :
       thread[t].op \in {"sending", "committing"} => thread[t].msg # m

\* Mutant: read receipts for both sides' messages.
Unread_All(a, side) == {m \in OfApp(a) : ~message[m].read}

\* _mark_messages_read: what the other side sent.
Unread(a, side) == {m \in OfApp(a) : message[m].by = Other(side) /\ ~message[m].read}

\* The marks are committed; what is sent is read afterwards.
Opened(t, a, side) ==
  LET marked == Unread(a, side) IN
  /\ Become(t, [op |-> "serving", app |-> a, by |-> side, marked |-> marked])
  /\ message' = [m \in Msg |-> IF m \in marked THEN [message[m] EXCEPT !.read = TRUE]
                                              ELSE message[m]]

\* A message is refused: the employer's page shows the thread all the same, the
\* route that answers in JSON does not.
Refused(t) ==
  LET r == thread[t] IN
  \/ r.by = "employer" /\ Opened(t, r.app, r.by)
  \/ Become(t, Idle) /\ UNCHANGED message

-----------------------------------------------------------------------------
(* Sending: api_application_messages, employer_messages_page *)

\* A message without an attachment: one that is too long is refused, which
\* amounts to nothing or, on the employer's page, to OpenMessages.
SendText(t, m, a, side) ==
  /\ Fresh(m)
  /\ Begin(t, side, [op |-> "committing", msg |-> m, app |-> a, by |-> side, file |-> FALSE])
  /\ UNCHANGED <<message, disk, accounts, inbox, history>>

\* A message with an attachment, which is checked and scanned for seconds.
SendFile(t, m, a, side, long) ==
  /\ Fresh(m)
  /\ Begin(t, side, [op |-> "sending", msg |-> m, app |-> a, by |-> side, long |-> long])
  /\ UNCHANGED <<message, disk, accounts, inbox, history>>

RefuseAttachment(t) ==
  /\ thread[t].op = "sending"
  /\ Refused(t)
  /\ UNCHANGED <<disk, accounts, inbox, history, counters>>

\* _create_message looks at the length of the text once the file is saved.
SaveAttachment(t) ==
  LET r == thread[t] IN
  /\ r.op = "sending"
  /\ disk' = disk \cup {r.msg}
  /\ leftover' = IF r.long THEN leftover \cup {r.msg} ELSE leftover
  /\ IF r.long
     THEN Refused(t)
     ELSE /\ Become(t, [op |-> "committing", msg |-> r.msg, app |-> r.app, by |-> r.by,
                         file |-> TRUE])
          /\ UNCHANGED message
  /\ UNCHANGED <<accounts, inbox, served, unseen, halted, overtaken, unnoticed, counters>>

\* Mutant: the worker's messages are notified, not the employer's.
Notifies_User(side) == side = "user"

\* Only what the employer sends becomes a notice.
Notifies(side) == side = "employer"

BeingErased(side) ==
  side \in erased \/ \E t \in Thread : thread[t].op = "erasing" /\ thread[t].by = side

CommitMessage(t) ==
  LET r == thread[t] IN
  /\ r.op = "committing"
  /\ message' = [message EXCEPT ![r.msg] =
       [app |-> r.app, by |-> r.by, text |-> "own", read |-> FALSE, file |-> r.file]]
  /\ overtaken' = IF BeingErased(r.by) THEN overtaken \cup {r.msg} ELSE overtaken
  /\ Become(t, IF Notifies(r.by) THEN [op |-> "notifying", msg |-> r.msg] ELSE Idle)
  /\ UNCHANGED <<disk, accounts, inbox, served, unseen, leftover, halted, unnoticed, counters>>

\* notify_user, also when the worker's account has been erased since.
Notify(t) ==
  LET m == thread[t].msg IN
  /\ thread[t].op = "notifying"
  /\ inbox' = Append(inbox, [app |-> message[m].app, says |-> m])
  /\ Become(t, Idle)
  /\ UNCHANGED <<message, disk, accounts, history, counters>>

-----------------------------------------------------------------------------
(* Reading a thread of messages *)

OpenMessages(t, a, side) ==
  /\ MayBegin(t, side)
  /\ Opened(t, a, side)
  /\ UNCHANGED <<disk, accounts, inbox, history>>

\* The list that is sent is read after the marks are committed.
ServeMessages(t) ==
  LET r == thread[t] IN
  /\ r.op = "serving"
  /\ served' = [served EXCEPT ![r.by] = @ \cup OfApp(r.app)]
  /\ Become(t, Idle)
  /\ UNCHANGED <<message, disk, accounts, inbox, unseen, leftover, halted, overtaken,
                 unnoticed, counters>>

-----------------------------------------------------------------------------
(* Erasure of an account, as far as messages go *)

\* Mutant: only messages with an attachment are redacted.
SentBy_Attached(side) == {m \in Msg : Sent(m) /\ message[m].by = side /\ message[m].file}

SentBy(side) == {m \in Msg : Sent(m) /\ message[m].by = side}

\* Mutant: the attachments of messages that nobody has read are overlooked.
Attached_Read(side) == {m \in SentBy(side) : message[m].file /\ message[m].read}

Attached(side) == {m \in SentBy(side) : message[m].file}

\* _erase_user_data, _erase_employer_data read the rows and remove the files; an
\* OSError is logged, and the file stays.  The owner's account is active, an
\* admin may erase any.
EraseAttachments(t, side) ==
  /\ Counted
  /\ thread[t] = Idle
  /\ Become(t, [op |-> "erasing", by |-> side, found |-> SentBy(side),
                was |-> side \notin inactive])
  /\ \E kept \in SUBSET (Attached(side) \cap disk) :
       /\ kept # {} => faults < MaxFaults
       /\ faults' = IF kept = {} THEN faults ELSE faults + 1
       /\ disk' = disk \ (Attached(side) \ kept)
       /\ leftover' = leftover \cup kept
  /\ UNCHANGED <<message, accounts, inbox, served, unseen, halted, overtaken, unnoticed>>

\* The tombstone.
Redacted(row) == [row EXCEPT !.text = "deleted", !.file = FALSE]

\* The commit; a worker's notices go with it, whatever they are about.  active is
\* written only if it was loaded set.
EraseMessages(t) ==
  LET r == thread[t] IN
  /\ r.op = "erasing"
  /\ message' = [m \in Msg |->
       IF m \in r.found THEN Redacted(message[m]) ELSE message[m]]
  /\ erased' = erased \cup {r.by}
  /\ inactive' = IF r.was THEN inactive \cup {r.by} ELSE inactive
  /\ inbox' = IF r.by = "user" THEN <<>> ELSE inbox
  /\ Become(t, Idle)
  /\ UNCHANGED <<disk, history, counters>>

\* admin_suspend_*, admin_reinstate_*: erased or not.
SetActive(side) ==
  /\ Counted
  /\ \/ side \in inactive /\ inactive' = inactive \ {side}
     \/ side \notin inactive /\ inactive' = inactive \cup {side}
  /\ UNCHANGED <<message, disk, erased, inbox, thread, history, faults>>

-----------------------------------------------------------------------------
\* A worker process dies, or notify_user cannot commit its row.
CrashMessage(t) ==
  LET r == thread[t]
      OfOp(op, set) == IF r.op = op THEN set ELSE {}
  IN
  /\ r.op \in MessageOp
  /\ faults < MaxFaults /\ faults' = faults + 1
  /\ unseen' = unseen \cup OfOp("serving", r.marked)
  /\ leftover' = leftover \cup OfOp("committing", disk \cap {r.msg})
  /\ unnoticed' = unnoticed \cup OfOp("notifying", {r.msg})
  /\ halted' = halted \cup OfOp("erasing", {r.by})
  /\ Become(t, Idle)
  /\ UNCHANGED <<message, disk, accounts, inbox, served, overtaken, requests>>

SendStep(t) ==
  \/ \E m \in Msg, a \in App, side \in Side :
       SendText(t, m, a, side) \/ \E long \in BOOLEAN : SendFile(t, m, a, side, long)
  \/ RefuseAttachment(t) \/ SaveAttachment(t) \/ CommitMessage(t) \/ Notify(t)

ReadStep(t) ==
  \/ \E a \in App, side \in Side : OpenMessages(t, a, side)
  \/ ServeMessages(t)

EraseStep(t) ==
  \/ \E side \in Side : EraseAttachments(t, side)
  \/ EraseMessages(t)

Next ==
  \/ \E t \in Thread : SendStep(t) \/ ReadStep(t) \/ EraseStep(t) \/ CrashMessage(t)
  \/ \E side \in Side : SetActive(side)

-----------------------------------------------------------------------------
(* Properties *)

\* A message marked read has been sent to the side it is for, or is about to
\* be, or the request that marked it died: a message that arrives while a
\* thread is being opened is not marked.
ReadWasServed ==
  \A m \in Msg :
    Sent(m) /\ message[m].read =>
      \/ m \in served[Other(message[m].by)] \cup unseen
      \/ \E t \in Thread : /\ thread[t].op = "serving"
                           /\ thread[t].by = Other(message[m].by)
                           /\ m \in thread[t].marked

\* Attachments and rows agree: a message's attachment is on the disk, except
\* while its sender is being erased or after an erasure that died; a file on
\* the disk belongs to a message, unless the message was refused, its request
\* died, or an erasure failed to remove it.
AttachmentsAgree ==
  /\ \A m \in Msg :
       Sent(m) /\ message[m].file =>
         \/ m \in disk
         \/ message[m].by \in halted
         \/ \E t \in Thread : thread[t].op = "erasing" /\ m \in thread[t].found
  /\ \A m \in disk \ leftover :
       \/ Sent(m) /\ message[m].file
       \/ \E t \in Thread : thread[t].op = "committing" /\ thread[t].msg = m

\* An employer's message is told of once, when its request is over; no other
\* is.
Notices(m) == Cardinality({i \in DOMAIN inbox : inbox[i].says = m})

ToldOnce ==
  \A m \in Msg :
    \/ m \in unnoticed \/ "user" \in erased
    \/ \E t \in Thread : thread[t].op = "notifying" /\ thread[t].msg = m
    \/ Notices(m) = IF Sent(m) /\ message[m].by = "employer" THEN 1 ELSE 0

\* After an erasure no message row holds the sender's text or names a file of
\* it, but for messages under way when the erasure read the rows, and those of
\* an account that was erased and then reinstated.
ErasedTextIsGone ==
  \A m \in Msg \ overtaken :
    Sent(m) /\ message[m].by \in erased => message[m].text = "deleted" /\ ~message[m].file
=============================================================================
