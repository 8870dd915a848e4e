-------------------------- MODULE MCScratchLedger --------------------------
(* Model values for ScratchLedger. *)
EXTENDS ScratchLedger, TLC
CONSTANTS k1, k2, o1, o2, w1, w2, pub, flow, r1
\* Objects, registrations and walkers are interchangeable; incarnations are
\* not, because only some of them start.
Symmetry ==
    Permutations({o1, o2}) \cup Permutations(Writer) \cup Permutations(Walker)
=============================================================================
