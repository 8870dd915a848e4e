--------------------------- MODULE MCSegmentWait ---------------------------
(* An instance of SegmentWait for TLC.                                     *)
EXTENDS SegmentWait, TLC

CONSTANTS r1, r2, v, s1, e1, e2

OneSegment == [r \in Request |-> s1]
OneViewer == [r \in Request |-> v]

\* The GETs ask for the same and are the same viewer's; a clock is its name.
Alike == Permutations(Request) \cup Permutations(Episode)
=============================================================================
