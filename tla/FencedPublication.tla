-------------------------- MODULE FencedPublication --------------------------
(***************************************************************************)
(* What a lease-fenced job promises to the catalogue it writes.  Fencing   *)
(* numbers are granted in increasing order, each to one worker; only the   *)
(* worker holding the latest number publishes; once that number is closed  *)
(* (the lease released, or its node removed) nobody publishes until the    *)
(* next grant.  JobLease implements this specification.                    *)
(***************************************************************************)
EXTENDS Naturals, Sequences

CONSTANTS Worker, NoWorker

VARIABLES
    fence,    \* the latest fencing number granted
    holder,   \* the worker that may publish under it, or NoWorker
    log       \* the publications, oldest first

vars == <<fence, holder, log>>

Publication == [by : Worker, fence : Nat]

Init ==
    /\ fence = 0
    /\ holder = NoWorker
    /\ log = <<>>

Grant(w) ==
    /\ fence' = fence + 1
    /\ holder' = w
    /\ UNCHANGED log

Close ==
    /\ holder' = NoWorker
    /\ UNCHANGED <<fence, log>>

Publish(w) ==
    /\ holder = w
    /\ log' = Append(log, [by |-> w, fence |-> fence])
    /\ UNCHANGED <<fence, holder>>

Next ==
    \/ \E w \in Worker : Grant(w) \/ Publish(w)
    \/ Close

Spec == Init /\ [][Next]_vars

-----------------------------------------------------------------------------

TypeOK ==
    /\ fence \in Nat
    /\ holder \in Worker \cup {NoWorker}
    /\ log \in Seq(Publication)

\* Publications follow the order of the fencing numbers and no two workers
\* publish under the same number: a superseded job never writes over its
\* successor, and never interleaves with it.
PublicationsInOrder ==
    \A i, j \in DOMAIN log :
        i < j => \/ log[i].fence < log[j].fence
                 \/ log[i].fence = log[j].fence /\ log[i].by = log[j].by

\* What makes PublicationsInOrder inductive: nothing is published under a
\* number not yet granted, and the holder alone has used the latest number.
LogBehindFence ==
    \A i \in DOMAIN log :
        /\ log[i].fence <= fence
        /\ log[i].fence = fence /\ holder # NoWorker => log[i].by = holder
==============================================================================
