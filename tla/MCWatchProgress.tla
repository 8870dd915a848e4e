---- MODULE MCWatchProgress ----
(* WatchProgress on small instances. *)
EXTENDS WatchProgress, TLC

CONSTANTS b1, b2, b3, n1, n2, p1

\* Beats that are not final are interchangeable, and so are the nodes.
PlainSymmetry == Permutations(Beat \ Final) \cup Permutations(Node)
====
