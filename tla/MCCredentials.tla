---------------------------- MODULE MCCredentials ----------------------------
(* The platform's key both owns the registry and issues, as on a local       *)
(* network; two users may upload the same document. *)
EXTENDS Credentials, TLC

CONSTANTS ann, bob, doc, c1, c2, t1, t2, t3, p1, p2, a1, a2, v1,
          platform, safe, zero, nohash, none

OneUser == {ann}
Users == {ann, bob}
Documents == {doc}
OneRow == {c1}
TwoRows == {c1, c2}
TwoThreads == {t1, t2}
ThreeThreads == {t1, t2, t3}
OneWorker == {p1}
TwoWorkers == {p1, p2}
OneAdmin == {a1}
TwoAdmins == {a1, a2}
OneViewer == {v1}
Nobody == {}
Accounts == {platform, safe}
NoGovernance == {}
Accreditation == {"accredit"}
HandOver == {"transfer"}
AllGovernance == {"accredit", "transfer"}

Symmetric ==
  Permutations(User) \cup Permutations(Cred) \cup Permutations(Thread)
    \cup Permutations(Proc) \cup Permutations(Admin)
=============================================================================
