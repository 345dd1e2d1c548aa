----------------------------- MODULE MCSessions -----------------------------
(* Two processes, two threads, two sign-ins and two codes. *)
EXTENDS Sessions, TLC

CONSTANTS s1, s2, d1, d2, q1, q2, w1, w2, red, nil

TwoSessions == {s1, s2}
TwoCodes == {d1, d2}
TwoThreads == {q1, q2}
TwoProcesses == {w1, w2}

Interchangeable ==
  Permutations(Session) \cup Permutations(Code) \cup Permutations(Thread)
    \cup Permutations(Proc)
=============================================================================
