----------------------------- MODULE MCAccounts -----------------------------
(* Two workers who report, appeal and flag, one employer who is reported,    *)
(* appeals and submits documents.                                            *)
EXTENDS Accounts, TLC

CONSTANTS ama, isa, shop, k1, k2, r1, r2, nil

TwoWorkers == {ama, isa}
OneEmployer == {shop}
TwoCases == {k1, k2}
TwoThreads == {r1, r2}
Filings == {"report", "appeal", "listing", "flag", "duplicate"}

Interchangeable ==
  Permutations(Worker) \cup Permutations(Case) \cup Permutations(Thread)
=============================================================================
