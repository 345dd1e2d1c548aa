------------------------------- MODULE Hiring -------------------------------
(***************************************************************************)
(* Gigs and Messages together: one set of request threads, one notices'    *)
(* table.  A decision, a message, the worker's erasure and a lost notice   *)
(* meet in the inbox.                                                      *)
(***************************************************************************)
EXTENDS Gigs

CONSTANT Msg

VARIABLES message, disk, erased, inactive, served, unseen, leftover, halted, overtaken,
          unnoticed

M == INSTANCE Messages

ASSUME MessageAssumption == None \notin M!MessageRow

\* A notice of a message says which; the others say a status, or "rated".
ASSUME NoticeAssumption == Msg \cap (Status \cup {"rated"}) = {}

messageVars == <<message, disk, erased, inactive, served, unseen, leftover, halted,
                 overtaken, unnoticed>>
gigVars == <<rows, history>>
hiringVars == <<vars, messageVars>>

HiringInit == Init /\ M!InitRows

\* The notice of a message stays with the inbox of the gigs' notices.
GigNext == Next /\ UNCHANGED messageVars
MessageNext == M!Next /\ UNCHANGED gigVars

HiringNext == GigNext \/ MessageNext
HiringSpec == HiringInit /\ [][HiringNext]_hiringVars

-----------------------------------------------------------------------------
(* Properties *)

\* Rows, notices and threads of both modules keep their types.
HiringTypeOK ==
  /\ TypeRows /\ M!TypeRows
  /\ inbox \in Seq(Notice \cup [app : App, says : Msg])
  /\ thread \in [Thread -> {Idle} \cup GigRequest \cup M!MessageRequest]

\* What the worker was told last is so (Gigs), as long as the account exists.
ToldIsSo == "user" \in erased \/ NoticeIsStatus

\* Messages (Messages), with decisions, ratings and erasures going on.
ReadWasServed == M!ReadWasServed
AttachmentsAgree == M!AttachmentsAgree
ToldOnce == M!ToldOnce
ErasedTextIsGone == M!ErasedTextIsGone
=============================================================================
