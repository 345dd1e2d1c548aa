------------------------ MODULE MCPendingApplications ------------------------
(* Two workers share a phone, one applies; the job asks for two documents. *)
EXTENDS PendingApplications, TLC

CONSTANTS ann, bob, post, r1, r2, sync, s1, file1, file2, none

Users == {ann, bob}
OneJob == {post}
Names == {file1, file2}
CvNames == [j \in Job |-> file1]
SupportingNames == [j \in Job |-> file2]
Requests == {r1, r2}
OneScreen == {sync, s1}
Ann == {ann}
Nobody == {}
Symmetric == Permutations(Request)
=============================================================================
