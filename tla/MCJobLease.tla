----------------------------- MODULE MCJobLease -----------------------------
(* Instances of JobLease for TLC.                                          *)
EXTENDS JobLease, TLC

CONSTANTS n1, n2, w1, w2

TwoNodes == (w1 :> n1) @@ (w2 :> n2)

\* A bound, used as a state constraint where time and skew are to be explored: the
\* publications of one worker may end in errors, or one publication may be dropped.
\* TLC checks the states just beyond it, but not what follows them.
OneFailedPublisher == Cardinality(erred) + Cardinality(dropped) <= 1
=============================================================================
