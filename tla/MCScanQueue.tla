---------------------------- MODULE MCScanQueue ----------------------------
(* One source with one or two listings on its board. *)
EXTENDS ScanQueue, TLC

CONSTANTS board, l1, l2, r1, r2, r3, j1, j2, j3, w1, w2, cli1, a1, a2, none

OneSource == {board}
OneListing == {l1}
TwoListings == {l1, l2}
OnBoard == [l \in Listing |-> board]
TwoRuns == {r1, r2}
ThreeRuns == {r1, r2, r3}
OneJob == {j1}
TwoJobs == {j1, j2}
ThreeJobs == {j1, j2, j3}
OneWorker == {w1}
TwoWorkers == {w1, w2}
OneCommand == {cli1}
OneAdmin == {a1}
TwoAdmins == {a1, a2}
Nobody == {}

Symmetric ==
  Permutations(Run) \cup Permutations(JobId) \cup Permutations(Poller)
    \cup Permutations(Admin) \cup Permutations(Listing)
=============================================================================
