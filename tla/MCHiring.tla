------------------------------ MODULE MCHiring ------------------------------
(* One application to a gig, two requests at a time. *)
EXTENDS Hiring, TLC

CONSTANTS a1, f1, m1, t1, t2, none

OneMessage == {m1}
OneApplication == {a1}
OneFlag == {f1}
TwoThreads == {t1, t2}
BestAndWorst == {1, 5}

\* A newcomer; an employer with two other applications, one unanswered, and
\* two ratings.
Contexts ==
  {[badge |-> "unverified", reports |-> 0, others |-> 0, answered |-> 0, earlier |-> {}],
   [badge |-> "rejected", reports |-> 6, others |-> 2, answered |-> 1,
    earlier |-> {[score |-> 1, age |-> 0], [score |-> 4, age |-> 1]}]}

Symmetric == Permutations(Thread)
=============================================================================
