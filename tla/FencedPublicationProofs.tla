----------------------- MODULE FencedPublicationProofs -----------------------
(* Fenced publication keeps the catalogue's writes in fence order.         *)
EXTENDS FencedPublication, TLAPS

\* The inductive invariant: the types, the order itself, and the relation of the
\* log to the current grant that each new publication needs.
Inv == TypeOK /\ LogBehindFence /\ PublicationsInOrder

\* Every behaviour that grants, closes and publishes as specified keeps Inv.
THEOREM Invariance ==
    ASSUME NoWorker \notin Worker
    PROVE  Spec => []Inv
<1>1. Init => Inv
  BY DEF Init, Inv, TypeOK, LogBehindFence, PublicationsInOrder
<1>2. Inv /\ [Next]_vars => Inv'
  <2> SUFFICES ASSUME Inv, [Next]_vars PROVE Inv'
    OBVIOUS
  <2> USE DEF Inv, TypeOK, LogBehindFence, PublicationsInOrder
  <2>0. \A i \in DOMAIN log : log[i] \in Publication /\ log[i].fence \in Nat
    <3>1. log \in Seq(Publication)
      OBVIOUS
    <3>2. \A i \in DOMAIN log : log[i] \in Publication
      BY <3>1
    <3>3. \A p \in Publication : p.fence \in Nat
      BY DEF Publication
    <3> QED BY <3>2, <3>3
  <2>1. ASSUME NEW w \in Worker, Grant(w) PROVE Inv'
    <3>1. fence' = fence + 1 /\ holder' = w /\ log' = log
      BY <2>1 DEF Grant
    <3>2. LogBehindFence'
      BY <2>0, <3>1
    <3> QED BY <3>1, <3>2
  <2>2. CASE Close
    BY <2>2 DEF Close
  <2>3. ASSUME NEW w \in Worker, Publish(w) PROVE Inv'
    <3> DEFINE e == [by |-> w, fence |-> fence]
    <3>1. /\ e \in Publication
          /\ log' = Append(log, e)
          /\ fence' = fence /\ holder' = holder /\ holder = w
      BY <2>3 DEF Publish, Publication
    <3>2. log' \in Seq(Publication)
      BY <3>1
    <3>3. \A i \in DOMAIN log' : log'[i] = IF i <= Len(log) THEN log[i] ELSE e
      BY <3>1
    <3>4. DOMAIN log' = 1 .. Len(log) + 1 /\ DOMAIN log = 1 .. Len(log) /\ Len(log) \in Nat
      BY <3>1
    <3>5. LogBehindFence'
      BY <3>1, <3>3, <3>4
    <3>6. PublicationsInOrder'
      <4> SUFFICES ASSUME NEW i \in DOMAIN log', NEW j \in DOMAIN log', i < j
                   PROVE \/ log'[i].fence < log'[j].fence
                         \/ log'[i].fence = log'[j].fence /\ log'[i].by = log'[j].by
        OBVIOUS
      <4>1. i <= Len(log) /\ i \in DOMAIN log
        BY <3>4
      <4>2. CASE j <= Len(log)
        BY <4>1, <4>2, <3>3, <3>4
      <4>3. CASE j = Len(log) + 1
        <5>1. log'[i] = log[i] /\ log'[j] = e
          BY <4>1, <4>3, <3>3, <3>4
        <5>2. log[i] \in Publication
          BY <4>1
        <5>3. log[i].fence <= fence
          BY <4>1
        <5>4. holder # NoWorker
          BY <3>1
        <5> QED BY <5>1, <5>2, <5>3, <5>4, <4>1, <3>1 DEF Publication
      <4> QED BY <4>2, <4>3, <3>4
    <3> QED BY <3>1, <3>2, <3>5, <3>6
  <2>4. CASE UNCHANGED vars
    BY <2>4 DEF vars
  <2> QED BY <2>1, <2>2, <2>3, <2>4 DEF Next
<1> QED BY <1>1, <1>2, PTL DEF Spec

\* Publications follow the order of the fencing numbers, one worker to a number.
THEOREM InOrder ==
    ASSUME NoWorker \notin Worker
    PROVE  Spec => []PublicationsInOrder
BY Invariance, PTL DEF Inv
==============================================================================
