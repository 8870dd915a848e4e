---------------------------- MODULE JobLeaseProofs ----------------------------
(***************************************************************************)
(* JobLease keeps its types, keeps every token behind the row, and         *)
(* implements FencedPublication, for any number of nodes and workers and   *)
(* any values of the time, skew, retry and counter constants.              *)
(***************************************************************************)
EXTENDS JobLease, TLAPS

-----------------------------------------------------------------------------
(* Facts about the operators.                                              *)

\* A store call is in one of four forms, and what it carries has its type.
LEMMA CallForms ==
    ASSUME NEW c \in Call
    PROVE  /\ c.st \in {"none", "sent", "accepted", "refused"}
           /\ c.st = "none" <=> c = NoCall
           /\ c.st = "sent" => c.req \in Request
           /\ c.st = "accepted" => c.tok \in Lease
BY DEF Call, NoCall, Refused

LEMMA CallMakers ==
    /\ NoCall \in Call /\ NoCall.st = "none"
    /\ Refused \in Call /\ Refused.st = "refused"
    /\ \A r \in Request : Sent(r) \in Call /\ Sent(r).st = "sent" /\ Sent(r).req = r
    /\ \A tok \in Lease : /\ Accepted(tok) \in Call
                          /\ Accepted(tok).st = "accepted"
                          /\ Accepted(tok).tok = tok
BY DEF Call, NoCall, Refused, Sent, Accepted

LEMMA LeaseFields ==
    /\ NoLease \in Lease
    /\ \A tok \in Lease : /\ tok.owner \in Node \cup {NoOwner}
                          /\ tok.fence \in Nat /\ tok.fence <= CounterMax
                          /\ tok.rev \in Nat /\ tok.rev <= CounterMax
                          /\ tok.exp \in Nat
BY ConstantAssumption DEF Lease, NoLease, Counter

LEMMA RequestFields ==
    \A r \in Request : /\ r.op \in Op /\ r.by \in Worker /\ r.tok \in Lease
                       /\ r.at \in Nat /\ r.exp \in Nat
BY DEF Request

\* The statements, one by one.
LEMMA Statements ==
    ASSUME NEW r
    PROVE  /\ r.op = "acquire" =>
                /\ Accepts(r) <=> /\ NodeOf[r.by] \notin removed
                                  /\ row.exp <= r.at
                                  /\ row.fence < CounterMax
                                  /\ row.rev < CounterMax
                /\ Written(r) = [owner |-> NodeOf[r.by], fence |-> row.fence + 1,
                                 rev |-> row.rev + 1, exp |-> r.exp]
           /\ r.op = "renew" =>
                /\ Accepts(r) <=> /\ NodeOf[r.by] \notin removed
                                  /\ row = r.tok
                                  /\ row.exp > r.at
                                  /\ row.rev < CounterMax
                /\ Written(r) = Advanced(r.exp)
           /\ r.op = "publish" =>
                /\ Accepts(r) <=> row = r.tok /\ row.exp > r.at
                /\ Written(r) = Advanced(r.exp)
           /\ r.op = "release" =>
                /\ Accepts(r) <=> row = r.tok /\ row.rev < CounterMax
                /\ Written(r) = Advanced(Sooner(row.exp, r.at))
BY DEF Accepts, Written

\* A statement that executes writes a row of the table's type: no counter passes
\* its limit.
LEMMA WrittenType ==
    ASSUME TypeOK, NEW r \in Request, Accepts(r), RequestSound(r)
    PROVE  Written(r) \in Lease /\ Returned(r) \in Lease
<1> USE ConstantAssumption, LeaseFields, RequestFields
<1>0. row \in Lease /\ NodeOf[r.by] \in Node
  BY DEF TypeOK
<1>1. CASE r.op = "acquire"
  BY <1>0, <1>1, Statements DEF Returned, Lease, Counter
<1>2. CASE r.op = "renew"
  BY <1>0, <1>2, Statements DEF Advanced, Returned, Lease, Counter
<1>3. CASE r.op = "publish"
  BY <1>0, <1>3, Statements DEF Advanced, Returned, Lease, Counter, RequestSound
<1>4. CASE r.op = "release"
  BY <1>0, <1>4, Statements DEF Advanced, Returned, Lease, Counter, Sooner
<1> QED BY <1>1, <1>2, <1>3, <1>4 DEF Op

\* Asking the store puts one typed request in the task's slot.
LEMMA AskType ==
    ASSUME TypeOK, NEW w \in Worker, NEW t \in Task, NEW op \in Op,
           NEW tok \in Lease, NEW exp \in Nat, Ask(w, t, op, tok, exp)
    PROVE  call' \in [Worker -> [Task -> Call]]
<1> DEFINE r == [op |-> op, by |-> w, tok |-> tok, at |-> Clock(NodeOf[w]), exp |-> exp]
<1>1. Clock(NodeOf[w]) \in Nat
  BY ConstantAssumption DEF TypeOK, Clock
<1>2. r \in Request
  BY <1>1 DEF Request
<1>3. Sent(r) \in Call
  BY <1>2, CallMakers
<1>4. call' = [call EXCEPT ![w][t] = Sent(r)]
  BY DEF Ask
<1> HIDE DEF r
<1> QED BY <1>3, <1>4 DEF TypeOK

-----------------------------------------------------------------------------
(* What happens to the row.                                                *)

\* A statement that executes leaves every token behind the row, and returns one
\* that is behind it too.
LEMMA ExecuteKeepsBehind ==
    ASSUME TypeOK, NEW r \in Request, RequestSound(r), Accepts(r), Execute(r, TRUE)
    PROVE  /\ row' \in Lease
           /\ grantee' \in Worker \cup {NoWorker}
           /\ log' \in Seq(Publication)
           /\ \A w \in Worker, tok \in Lease :
                BehindRow(w, tok, row, grantee) => BehindRow(w, tok, row', grantee')
           /\ r.op # "release" => BehindRow(r.by, Returned(r), row', grantee')
<1> USE ConstantAssumption
<1>0. /\ row \in Lease
      /\ r.op \in Op /\ r.by \in Worker /\ r.tok \in Lease /\ r.at \in Nat /\ r.exp \in Nat
      /\ grantee \in Worker \cup {NoWorker}
      /\ row' = Written(r)
      /\ row' \in Lease
  <2>1. row \in Lease /\ grantee \in Worker \cup {NoWorker}
    BY DEF TypeOK
  <2>2. row' = Written(r)
    BY DEF Execute
  <2> QED BY <2>1, <2>2, RequestFields, WrittenType
<1>f. /\ row.owner \in Node \cup {NoOwner} /\ row.fence \in Nat /\ row.rev \in Nat
      /\ \A tok \in Lease : tok.fence \in Nat /\ tok.rev \in Nat
  BY <1>0, LeaseFields
<1>g. /\ grantee' = CASE r.op = "acquire" -> r.by [] r.op = "release" -> NoWorker [] OTHER -> grantee
      /\ log' = IF r.op = "publish" THEN Append(log, [by |-> r.by, fence |-> row.fence]) ELSE log
  BY DEF Execute
<1>h. log' \in Seq(Publication)
  <2> DEFINE e == [by |-> r.by, fence |-> row.fence]
  <2>1. log \in Seq(Publication)
    BY DEF TypeOK
  <2>2. e \in Publication
    BY <1>0, <1>f DEF Publication
  <2>3. log' = IF r.op = "publish" THEN Append(log, e) ELSE log
    BY <1>g
  <2> HIDE DEF e
  <2> QED BY <2>1, <2>2, <2>3
<1>1. CASE r.op = "acquire"
  <2>1. /\ row'.owner = NodeOf[r.by] /\ row'.fence = row.fence + 1 /\ row'.rev = row.rev + 1
        /\ grantee' = r.by /\ Returned(r) = row'
    BY <1>0, <1>1, <1>g, Statements DEF Returned
  <2> QED BY <2>1, <1>0, <1>f, <1>1, <1>h DEF BehindRow
<1>2. CASE r.op \in {"renew", "publish"}
  <2>1. /\ row'.owner = row.owner /\ row'.fence = row.fence /\ row'.rev = row.rev + 1
        /\ grantee' = grantee /\ Returned(r) = row' /\ row = r.tok
    BY <1>0, <1>2, <1>g, Statements DEF Returned, Advanced
  <2>2. BehindRow(r.by, row, row, grantee)
    BY <1>2, <2>1 DEF RequestSound, Behind
  <2>3. grantee = r.by
    BY <2>2, <1>f DEF BehindRow
  <2> QED BY <2>1, <2>2, <2>3, <1>0, <1>f, <1>h DEF BehindRow
<1>3. CASE r.op = "release"
  <2>1. /\ row'.owner = row.owner /\ row'.fence = row.fence /\ row'.rev = row.rev + 1
        /\ grantee' = NoWorker
    BY <1>0, <1>3, <1>g, Statements DEF Advanced
  <2> QED BY <2>1, <1>0, <1>3, <1>f, <1>h DEF BehindRow
<1> QED BY <1>0, <1>1, <1>2, <1>3 DEF Op

\* So does fencing a removed owner's row.
LEMMA RemovalKeepsBehind ==
    ASSUME TypeOK, NEW n \in Node, BeginRemoval(n)
    PROVE  /\ row' \in Lease
           /\ grantee' \in Worker \cup {NoWorker}
           /\ \A w \in Worker, tok \in Lease :
                BehindRow(w, tok, row, grantee) => BehindRow(w, tok, row', grantee')
<1> USE ConstantAssumption
<1>0. row \in Lease /\ grantee \in Worker \cup {NoWorker}
  BY DEF TypeOK
<1>f. /\ row.owner \in Node \cup {NoOwner} /\ row.fence \in Nat /\ row.fence <= CounterMax
      /\ row.rev \in Nat /\ row.rev <= CounterMax /\ row.exp \in Nat
      /\ \A tok \in Lease : tok.fence \in Nat /\ tok.rev \in Nat
  BY <1>0, LeaseFields
<1>1. CASE row.owner # n
  BY <1>0, <1>1 DEF BeginRemoval
<1>2. CASE row.owner = n
  <2>1. PICK m \in Node :
          row' = [owner |-> NoOwner, fence |-> row.fence,
                  rev |-> Sooner(row.rev + 1, CounterMax), exp |-> Sooner(row.exp, Clock(m))]
    BY <1>2 DEF BeginRemoval
  <2>2. Clock(m) \in Nat
    BY DEF TypeOK, Clock
  <2>3. /\ Sooner(row.rev + 1, CounterMax) \in 0 .. CounterMax
        /\ Sooner(row.rev + 1, CounterMax) >= row.rev
        /\ Sooner(row.exp, Clock(m)) \in Nat
    BY <1>f, <2>2 DEF Sooner
  <2>4. row' \in Lease
    BY <1>f, <2>1, <2>3 DEF Lease, Counter
  <2>5. /\ row'.owner = NoOwner /\ row'.fence = row.fence /\ row'.rev >= row.rev /\ row'.rev \in Nat
        /\ grantee' = NoWorker
    BY <1>2, <1>f, <2>1, <2>3 DEF BeginRemoval
  <2>6. \A w \in Worker : NodeOf[w] # NoOwner
    OBVIOUS
  <2> QED BY <2>4, <2>5, <2>6, <1>f DEF BehindRow
<1> QED BY <1>1, <1>2

\* The store's verdict on a request is a yes only when its WHERE clause holds.
LEMMA VerdictType ==
    ASSUME NEW r \in Request, NEW accepted \in Verdicts(r)
    PROVE  accepted \in BOOLEAN /\ (accepted => Accepts(r))
<1>1. Accepts(r) \in BOOLEAN
  BY RequestFields DEF Accepts, Op
<1> QED BY <1>1 DEF Verdicts

-----------------------------------------------------------------------------
(* Where tokens can go in a step.                                          *)

RowFlow ==
    \A w \in Worker, tok \in Lease :
        BehindRow(w, tok, row, grantee) => BehindRow(w, tok, row', grantee')

StateFlow ==
    \A w \in Worker :
        \/ state'[w] \in {state[w], NoLease}
        \/ \E t \in Task : call[w][t].st = "accepted" /\ state'[w] = call[w][t].tok

StrayFlow ==
    \A r \in stray' :
        r \in stray \/ \E w \in Worker, t \in Task : call[w][t].st = "sent" /\ r = call[w][t].req

CallFlow ==
    \A w \in Worker, t \in Task :
        \/ call'[w][t] \in {call[w][t], NoCall, Refused}
        \/ \E r \in Request : call'[w][t] = Sent(r) /\ r.by = w /\ RequestSound(r)
        \/ \E tok \in Lease : /\ call'[w][t] = Accepted(tok)
                              /\ tok # NoLease => BehindRow(w, tok, row', grantee')

\* A step that moves tokens this way puts none ahead of the row.
LEMMA FlowKeepsTokens ==
    ASSUME TypeOK, TokensBehindRow, RowFlow, StateFlow, StrayFlow, CallFlow
    PROVE  TokensBehindRow'
<1>t. /\ \A w \in Worker, t \in Task : call[w][t] \in Call
      /\ \A w \in Worker : state[w] \in Lease
      /\ stray \subseteq Request
  BY DEF TypeOK
<1>1. ASSUME NEW w \in Worker, state'[w] # NoLease
      PROVE  BehindRow(w, state'[w], row', grantee')
  <2>1. CASE state'[w] = state[w]
    BY <1>t, <1>1, <2>1 DEF RowFlow, TokensBehindRow, Behind
  <2>2. CASE \E t \in Task : call[w][t].st = "accepted" /\ state'[w] = call[w][t].tok
    BY <1>t, <1>1, <2>2, CallForms DEF RowFlow, TokensBehindRow, Behind
  <2> QED BY <1>1, <2>1, <2>2 DEF StateFlow
<1>2. \A r \in Request : RequestSound(r) =>
             /\ r.op \in {"renew", "publish"} => BehindRow(r.by, r.tok, row', grantee')
             /\ r.op = "publish" => r.tok.rev < CounterMax
  BY RequestFields DEF RequestSound, Behind, RowFlow
<1>3. \A r \in stray' : r \in Request /\ RequestSound(r)
  BY <1>t, CallForms DEF StrayFlow, TokensBehindRow
<1>4. ASSUME NEW w \in Worker, NEW t \in Task, call'[w][t].st = "sent"
      PROVE  /\ call'[w][t].req.by = w
             /\ call'[w][t].req \in Request
             /\ RequestSound(call'[w][t].req)
  <2>1. CASE call'[w][t] = call[w][t]
    BY <1>t, <1>4, <2>1, CallForms DEF TokensBehindRow
  <2>2. CASE \E r \in Request : call'[w][t] = Sent(r) /\ r.by = w /\ RequestSound(r)
    BY <1>4, <2>2, CallMakers
  <2> QED BY <1>4, <2>1, <2>2, CallMakers DEF CallFlow
<1>5. ASSUME NEW w \in Worker, NEW t \in Task,
             call'[w][t].st = "accepted", call'[w][t].tok # NoLease
      PROVE  BehindRow(w, call'[w][t].tok, row', grantee')
  <2>1. CASE call'[w][t] = call[w][t]
    BY <1>t, <1>5, <2>1, CallForms DEF TokensBehindRow, Behind, RowFlow
  <2>2. CASE \E tok \in Lease : /\ call'[w][t] = Accepted(tok)
                                /\ tok # NoLease => BehindRow(w, tok, row', grantee')
    BY <1>5, <2>2, CallMakers
  <2> QED BY <1>5, <2>1, <2>2, CallMakers DEF CallFlow
<1> QED BY <1>1, <1>2, <1>3, <1>4, <1>5 DEF TokensBehindRow, RequestSound, Behind

\* The three ways an action changes the calls and the strays.
LEMMA AskFlow ==
    ASSUME TypeOK, NEW w \in Worker, NEW t \in Task, NEW op \in Op,
           NEW tok \in Lease, NEW exp \in Nat, Ask(w, t, op, tok, exp),
           op \in {"renew", "publish"} => Behind(w, tok),
           op = "publish" => tok.rev < CounterMax
    PROVE  call' \in [Worker -> [Task -> Call]] /\ CallFlow
<1> DEFINE r == [op |-> op, by |-> w, tok |-> tok, at |-> Clock(NodeOf[w]), exp |-> exp]
<1>1. Clock(NodeOf[w]) \in Nat
  BY ConstantAssumption DEF TypeOK, Clock
<1>2. r \in Request /\ r.by = w /\ r.op = op /\ r.tok = tok
  BY <1>1 DEF Request
<1>3. RequestSound(r)
  BY <1>2 DEF RequestSound
<1>4. call' = [call EXCEPT ![w][t] = Sent(r)]
  BY DEF Ask
<1> HIDE DEF r
<1>5. \A v \in Worker, u \in Task : call'[v][u] = IF v = w /\ u = t THEN Sent(r) ELSE call[v][u]
  BY <1>4 DEF TypeOK
<1> QED BY AskType, <1>2, <1>3, <1>5 DEF CallFlow

LEMMA HangUpFlow ==
    ASSUME TypeOK, NEW w \in Worker, NEW t \in Task, call' = [call EXCEPT ![w][t] = NoCall]
    PROVE  call' \in [Worker -> [Task -> Call]] /\ CallFlow
BY CallMakers DEF TypeOK, CallFlow

LEMMA AbandonFlow ==
    ASSUME TypeOK, NEW W \in SUBSET Worker, NEW T \in SUBSET Task, Abandon(W, T)
    PROVE  stray' \subseteq Request /\ StrayFlow
<1>1. PICK kept \in SUBSET UNION {Unexecuted(w, T) : w \in W} : stray' = stray \cup kept
  BY DEF Abandon
<1>2. ASSUME NEW r \in kept
      PROVE  \E w \in Worker, t \in Task : call[w][t].st = "sent" /\ r = call[w][t].req
  <2>1. PICK w \in W : r \in Unexecuted(w, T)
    BY <1>1, <1>2
  <2> QED BY <2>1 DEF Unexecuted
<1>3. \A w \in Worker, t \in Task : call[w][t].st = "sent" => call[w][t].req \in Request
  BY CallForms DEF TypeOK
<1>4. StrayFlow
  BY <1>1, <1>2 DEF StrayFlow
<1>5. stray' \subseteq Request
  <2>1. stray \subseteq Request
    BY DEF TypeOK
  <2>2. kept \subseteq Request
    BY <1>2, <1>3
  <2> QED BY <1>1, <2>1, <2>2
<1> QED BY <1>4, <1>5

\* Every action below leaves the row alone and moves tokens as above.
IndInv == TypeOK /\ TokensBehindRow

LEMMA OwnerSteps ==
    ASSUME IndInv, NEW w \in Worker, OwnerStep(w)
    PROVE  IndInv'
<1> USE ConstantAssumption, LeaseFields
<1> USE DEF IndInv
<1>c. Clock(NodeOf[w]) \in Nat
  BY DEF TypeOK, Clock
<1>1. CASE Acquire(w)
  <2>1. call' \in [Worker -> [Task -> Call]] /\ CallFlow
    BY <1>1, <1>c, AskFlow DEF Acquire, Task, Op
  <2>2. TypeOK' /\ RowFlow /\ StateFlow /\ StrayFlow
    BY <1>1, <2>1 DEF RowFlow, Acquire, Phase, TypeOK, StateFlow, StrayFlow, storeVars,
       clockVars, outcomeVars,
       fenceVars, heartbeatVars
  <2> QED BY <2>1, <2>2, FlowKeepsTokens
<1>2. CASE Acquired(w)
  <2>1. call' \in [Worker -> [Task -> Call]] /\ CallFlow
    BY <1>2, HangUpFlow DEF Acquired, Task
  <2>2. call[w]["owner"].tok \in Lease
    BY <1>2, CallForms DEF Acquired, TypeOK, Task
  <2>3. StateFlow
    BY <1>2 DEF Acquired, StateFlow, TypeOK, Task
  <2>4. TypeOK' /\ RowFlow /\ StrayFlow
    BY <1>2, <2>1, <2>2 DEF RowFlow, Acquired, Phase, TypeOK, StrayFlow, storeVars,
       clockVars, outcomeVars
  <2> QED BY <2>1, <2>3, <2>4, FlowKeepsTokens
<1>3. CASE NotAcquired(w)
  <2>1. call' \in [Worker -> [Task -> Call]] /\ CallFlow
    BY <1>3, HangUpFlow DEF NotAcquired, Task
  <2>2. stray' \subseteq Request /\ StrayFlow
    <3>1. CASE UNCHANGED stray
      BY <3>1 DEF StrayFlow, TypeOK
    <3>2. CASE Abandon({w}, {"owner"})
      BY <3>2, AbandonFlow DEF Task
    <3> QED BY <1>3, <3>1, <3>2 DEF NotAcquired
  <2>3. TypeOK' /\ RowFlow /\ StateFlow
    BY <1>3, <2>1, <2>2 DEF RowFlow, NotAcquired, Phase, TypeOK, StateFlow, clockVars,
       outcomeVars, fenceVars, heartbeatVars
  <2> QED BY <2>1, <2>2, <2>3, FlowKeepsTokens
<1>4. CASE Release(w)
  <2>1. TypeOK' /\ RowFlow /\ StateFlow /\ StrayFlow /\ CallFlow
    BY <1>4 DEF RowFlow, Release, Phase, TypeOK, StateFlow, StrayFlow, CallFlow,
       storeVars, clockVars, outcomeVars, heartbeatVars
  <2> QED BY <2>1, FlowKeepsTokens
<1>5. CASE Joined(w)
  <2>1. call' \in [Worker -> [Task -> Call]] /\ CallFlow
    <3>1. CASE UNCHANGED call
      BY <3>1 DEF TypeOK, CallFlow
    <3>2. CASE Ask(w, "owner", "release", state[w], 0)
      BY <3>2, AskFlow DEF TypeOK, Task, Op
    <3> QED BY <1>5, <3>1, <3>2 DEF Joined
  <2>3. /\ phase' \in [Worker -> Phase]
        /\ attempt' \in [Worker -> Nat]
        /\ lost' \in [Worker -> BOOLEAN]
    <3>1. phase \in [Worker -> Phase] /\ attempt \in [Worker -> Nat] /\ lost \in [Worker -> BOOLEAN]
      BY DEF TypeOK
    <3>2. Outcome(w, FALSE) \in Phase /\ "releasing" \in Phase
      BY DEF Outcome, Phase
    <3>3. CASE state[w] = NoLease
      BY <1>5, <3>1, <3>2, <3>3 DEF Joined, Returns
    <3>4. CASE state[w] # NoLease
      BY <1>5, <3>1, <3>2, <3>4 DEF Joined, Returns
    <3> QED BY <3>3, <3>4
  <2>2. TypeOK' /\ RowFlow /\ StateFlow /\ StrayFlow
    BY <1>5, <2>1, <2>3 DEF RowFlow, Joined, TypeOK, StateFlow, StrayFlow, storeVars,
       clockVars, outcomeVars,
       fenceVars, heartbeatVars
  <2> QED BY <2>1, <2>2, FlowKeepsTokens
<1>6. CASE Released(w)
  <2>1. call' \in [Worker -> [Task -> Call]] /\ CallFlow
    BY <1>6, HangUpFlow DEF Released, Task
  <2>2. TypeOK' /\ RowFlow /\ StateFlow /\ StrayFlow
    BY <1>6, <2>1 DEF RowFlow, Released, Returns, Phase, Outcome, TypeOK, StateFlow,
       StrayFlow, storeVars, clockVars, outcomeVars,
       fenceVars, heartbeatVars
  <2> QED BY <2>1, <2>2, FlowKeepsTokens
<1>7. CASE ReleaseFailed(w)
  <2>1. call' \in [Worker -> [Task -> Call]] /\ CallFlow
    <3>1. CASE Ask(w, "owner", "release", state[w], 0)
      BY <3>1, AskFlow DEF TypeOK, Task, Op
    <3>2. CASE call' = [call EXCEPT ![w]["owner"] = NoCall]
      BY <3>2, HangUpFlow DEF Task
    <3> QED BY <1>7, <3>1, <3>2 DEF ReleaseFailed
  <2>2. stray' \subseteq Request /\ StrayFlow
    BY <1>7, AbandonFlow DEF ReleaseFailed, Task
  <2>4. /\ phase' \in [Worker -> Phase]
        /\ attempt' \in [Worker -> Nat]
        /\ lost' \in [Worker -> BOOLEAN]
    <3>1. phase \in [Worker -> Phase] /\ attempt \in [Worker -> Nat] /\ lost \in [Worker -> BOOLEAN]
      BY DEF TypeOK
    <3>2. Outcome(w, TRUE) \in Phase
      BY DEF Outcome, Phase
    <3>3. CASE attempt[w] < ReleaseAttempts
      BY <1>7, <3>1, <3>3 DEF ReleaseFailed, Returns
    <3>4. CASE ~(attempt[w] < ReleaseAttempts)
      BY <1>7, <3>1, <3>2, <3>4 DEF ReleaseFailed, Returns
    <3> QED BY <3>3, <3>4
  <2>3. TypeOK' /\ RowFlow /\ StateFlow
    BY <1>7, <2>1, <2>2, <2>4 DEF RowFlow, ReleaseFailed, TypeOK, StateFlow, clockVars,
       outcomeVars, fenceVars,
       heartbeatVars
  <2> QED BY <2>1, <2>2, <2>3, FlowKeepsTokens
<1>8. CASE Drop(w)
  <2>1. call' \in [Worker -> [Task -> Call]] /\ CallFlow
    BY <1>8, CallMakers DEF Drop, TypeOK, CallFlow
  <2>2. stray' \subseteq Request /\ StrayFlow
    BY <1>8, AbandonFlow DEF Drop, Task
  <2>3. TypeOK' /\ RowFlow /\ StateFlow
    BY <1>8, <2>1, <2>2 DEF RowFlow, Drop, Phase, TypeOK, StateFlow, clockVars, outcomeVars
  <2> QED BY <2>1, <2>2, <2>3, FlowKeepsTokens
<1> QED BY <1>1, <1>2, <1>3, <1>4, <1>5, <1>6, <1>7, <1>8 DEF OwnerStep

\* The heartbeat's reaction to a renewal, whatever its result.
LEMMA RenewedType ==
    ASSUME TypeOK, NEW w \in Worker, NEW result \in {"true", "false", "err"},
           NEW tok \in Lease, Renewed(w, result, tok)
    PROVE  /\ hb' \in [Worker -> {"waiting", "queued", "renewing", "ended", "failed"}]
           /\ mode' \in [Worker -> {"select", "cancelled", "expired"}]
           /\ deadline' \in [Worker -> Nat]
           /\ lost' \in [Worker -> BOOLEAN]
           /\ state' \in [Worker -> Lease]
           /\ \A v \in Worker : state'[v] = state[v] \/ (v = w /\ state'[v] \in {tok, NoLease})
<1> USE LeaseFields DEF TypeOK
<1>1. hb' \in [Worker -> {"waiting", "queued", "renewing", "ended", "failed"}]
  <2> DEFINE h == CASE result = "err" -> "failed"
                    [] result = "true" /\ mode[w] = "select" -> "waiting"
                    [] OTHER -> "ended"
  <2>1. h \in {"waiting", "ended", "failed"}
    OBVIOUS
  <2>2. hb' = [hb EXCEPT ![w] = h]
    BY DEF Renewed
  <2> HIDE DEF h
  <2> QED BY <2>1, <2>2
<1>2. mode' \in [Worker -> {"select", "cancelled", "expired"}] /\ deadline' \in [Worker -> Nat]
  BY DEF Renewed
<1>3. lost' \in [Worker -> BOOLEAN]
  <2> DEFINE b == lost[w] \/ (mode[w] = "select" /\ result # "true")
  <2>1. b \in BOOLEAN
    OBVIOUS
  <2>2. lost' = [lost EXCEPT ![w] = b]
    BY DEF Renewed
  <2> HIDE DEF b
  <2> QED BY <2>1, <2>2
<1>4. /\ state' \in [Worker -> Lease]
      /\ \A v \in Worker : state'[v] = state[v] \/ (v = w /\ state'[v] \in {tok, NoLease})
  BY DEF Renewed
<1> QED BY <1>1, <1>2, <1>3, <1>4

LEMMA HeartbeatSteps ==
    ASSUME IndInv, NEW w \in Worker, HeartbeatStep(w)
    PROVE  IndInv'
<1> USE ConstantAssumption, LeaseFields
<1> USE DEF IndInv
<1>c. Clock(NodeOf[w]) \in Nat
  BY DEF TypeOK, Clock
<1>s. state[w] \in Lease
  BY DEF TypeOK
<1>1. CASE Heartbeat(w)
  <2>1. /\ hb' \in [Worker -> {"waiting", "queued", "renewing", "ended", "failed"}]
        /\ current' \in [Worker -> Lease]
        /\ deadline' \in [Worker -> Nat]
    <3> DEFINE left == state[w].exp - Clock(NodeOf[w])
               until == now + Later(0, left)
    <3>1. left \in Int /\ now \in Nat
      BY <1>c, <1>s DEF TypeOK
    <3>2. until \in Nat
      <4> HIDE DEF left
      <4> QED BY <3>1 DEF Later
    <3>3. /\ hb' = [hb EXCEPT ![w] = IF state[w] = NoLease THEN "ended" ELSE "queued"]
          /\ current' = current \/ current' = [current EXCEPT ![w] = state[w]]
          /\ deadline' = deadline \/ deadline' = [deadline EXCEPT ![w] = until]
      BY <1>1 DEF Heartbeat
    <3> HIDE DEF until
    <3>4. hb' \in [Worker -> {"waiting", "queued", "renewing", "ended", "failed"}]
      BY <3>3 DEF TypeOK
    <3>5. current' \in [Worker -> Lease]
      BY <1>s, <3>3 DEF TypeOK
    <3>6. deadline' \in [Worker -> Nat]
      BY <3>2, <3>3 DEF TypeOK
    <3> QED BY <3>4, <3>5, <3>6
  <2>2. TypeOK' /\ RowFlow /\ StateFlow /\ StrayFlow /\ CallFlow
    BY <1>1, <2>1 DEF RowFlow, Heartbeat, TypeOK, StateFlow, StrayFlow, CallFlow,
       storeVars, clockVars, outcomeVars,
       ownerVars, fenceVars
  <2> QED BY <2>2, FlowKeepsTokens
<1>2. CASE HeartbeatCancelled(w)
  <2>1. TypeOK' /\ RowFlow /\ StateFlow /\ StrayFlow /\ CallFlow
    BY <1>2 DEF RowFlow, HeartbeatCancelled, TypeOK, StateFlow, StrayFlow, CallFlow,
       storeVars,
       clockVars, outcomeVars, ownerVars, fenceVars
  <2> QED BY <2>1, FlowKeepsTokens
<1>3. CASE HeartbeatExpired(w)
  <2>1. TypeOK' /\ RowFlow /\ StateFlow /\ StrayFlow /\ CallFlow
    BY <1>3 DEF RowFlow, HeartbeatExpired, TypeOK, StateFlow, StrayFlow, CallFlow,
       storeVars,
       clockVars, outcomeVars, ownerVars
  <2> QED BY <2>1, FlowKeepsTokens
<1>4. CASE Renew(w)
  <2> DEFINE exp == Clock(NodeOf[w]) + TTL
  <2>1. CASE Renewed(w, "false", state[w]) /\ UNCHANGED call
    <3>1. StateFlow
      BY <1>s, <2>1, RenewedType DEF StateFlow
    <3>2. TypeOK' /\ RowFlow /\ StrayFlow /\ CallFlow
      BY <1>4, <1>s, <2>1, RenewedType DEF RowFlow, Renew, TypeOK, StrayFlow, CallFlow,
         storeVars,
         clockVars, outcomeVars, ownerVars
    <3> QED BY <3>1, <3>2, FlowKeepsTokens
  <2>2. CASE Renewed(w, "err", NoLease) /\ UNCHANGED call
    <3>1. StateFlow
      BY <2>2, RenewedType DEF StateFlow
    <3>2. TypeOK' /\ RowFlow /\ StrayFlow /\ CallFlow
      BY <1>4, <2>2, RenewedType DEF RowFlow, Renew, TypeOK, StrayFlow, CallFlow, storeVars,
         clockVars, outcomeVars, ownerVars
    <3> QED BY <3>1, <3>2, FlowKeepsTokens
  <2>3. CASE /\ state[w] # NoLease
             /\ Ask(w, "heartbeat", "renew", state[w], exp)
             /\ hb' = [hb EXCEPT ![w] = "renewing"]
             /\ UNCHANGED <<lost, state, mode, deadline>>
    <3>1. exp \in Nat /\ Behind(w, state[w])
      BY <1>c, <2>3 DEF TokensBehindRow
    <3>2. call' \in [Worker -> [Task -> Call]] /\ CallFlow
      BY <1>s, <2>3, <3>1, AskFlow DEF Task, Op
    <3>3. TypeOK' /\ RowFlow /\ StateFlow /\ StrayFlow
      BY <1>4, <2>3, <3>2 DEF RowFlow, Renew, TypeOK, StateFlow, StrayFlow, storeVars,
         clockVars, outcomeVars, ownerVars
    <3> QED BY <3>2, <3>3, FlowKeepsTokens
  <2> QED BY <1>4, <2>1, <2>2, <2>3 DEF Renew
<1>5. CASE RenewAnswered(w)
  <2>1. call' \in [Worker -> [Task -> Call]] /\ CallFlow
    BY <1>5, HangUpFlow DEF RenewAnswered, Task
  <2>2. /\ hb' \in [Worker -> {"waiting", "queued", "renewing", "ended", "failed"}]
        /\ mode' \in [Worker -> {"select", "cancelled", "expired"}]
        /\ deadline' \in [Worker -> Nat] /\ lost' \in [Worker -> BOOLEAN]
        /\ state' \in [Worker -> Lease] /\ revoked' \in [Worker -> BOOLEAN]
        /\ StateFlow
    <3>1. CASE call[w]["heartbeat"].st = "accepted"
      <4>1. call[w]["heartbeat"].tok \in Lease /\ "heartbeat" \in Task
        BY <3>1, CallForms DEF TypeOK, Task
      <4>2. PICK result \in {"true", "false"} :
              /\ Renewed(w, result, call[w]["heartbeat"].tok)
              /\ revoked' = [revoked EXCEPT ![w] = @ \/ Clock(NodeOf[w]) >= state[w].exp]
        BY <1>5, <3>1 DEF RenewAnswered
      <4>3. revoked' \in [Worker -> BOOLEAN]
        BY <4>2 DEF TypeOK
      <4> QED BY <3>1, <4>1, <4>2, <4>3, RenewedType DEF StateFlow
    <3>2. CASE call[w]["heartbeat"].st = "refused"
      BY <1>5, <3>2, RenewedType DEF RenewAnswered, StateFlow, TypeOK
    <3> QED BY <1>5, <3>1, <3>2 DEF RenewAnswered
  <2>3. TypeOK' /\ RowFlow /\ StrayFlow
    BY <1>5, <2>1, <2>2 DEF RowFlow, RenewAnswered, TypeOK, StrayFlow, storeVars,
       clockVars, outcomeVars, ownerVars
  <2> QED BY <2>1, <2>2, <2>3, FlowKeepsTokens
<1>6. CASE RenewFailed(w)
  <2>1. call' \in [Worker -> [Task -> Call]] /\ CallFlow
    BY <1>6, HangUpFlow DEF RenewFailed, Task
  <2>2. stray' \subseteq Request /\ StrayFlow
    BY <1>6, AbandonFlow DEF RenewFailed, Task
  <2>3. Renewed(w, "err", NoLease)
    BY <1>6 DEF RenewFailed
  <2>4. StateFlow
    BY <2>3, RenewedType DEF StateFlow
  <2>5. TypeOK' /\ RowFlow
    BY <1>6, <2>1, <2>2, <2>3, RenewedType DEF RowFlow, RenewFailed, TypeOK, clockVars,
       outcomeVars, ownerVars
  <2> QED BY <2>1, <2>2, <2>4, <2>5, FlowKeepsTokens
<1> QED BY <1>1, <1>2, <1>3, <1>4, <1>5, <1>6 DEF HeartbeatStep

LEMMA PublisherSteps ==
    ASSUME IndInv, NEW w \in Worker, PublisherStep(w)
    PROVE  IndInv'
<1> USE ConstantAssumption, LeaseFields
<1> USE DEF IndInv
<1>c. Clock(NodeOf[w]) \in Nat
  BY DEF TypeOK, Clock
<1>s. state[w] \in Lease
  BY DEF TypeOK
<1>1. CASE Publish(w)
  <2>1. CASE state' = [state EXCEPT ![w] = NoLease] /\ UNCHANGED call
    <3>1. TypeOK' /\ RowFlow /\ StateFlow /\ StrayFlow /\ CallFlow
      BY <1>1, <2>1 DEF RowFlow, Publish, TypeOK, StateFlow, StrayFlow, CallFlow,
         storeVars, clockVars, outcomeVars,
         ownerVars, heartbeatVars
    <3> QED BY <3>1, FlowKeepsTokens
  <2>2. CASE /\ state[w] # NoLease /\ state[w].rev < CounterMax
             /\ Ask(w, "publisher", "publish", state[w], SuccessorExpiry(w))
             /\ UNCHANGED state
    <3>1. SuccessorExpiry(w) \in Nat /\ Behind(w, state[w])
      BY <1>c, <1>s, <2>2 DEF TokensBehindRow, SuccessorExpiry, Later
    <3>2. call' \in [Worker -> [Task -> Call]] /\ CallFlow
      BY <1>s, <2>2, <3>1, AskFlow DEF Task, Op
    <3>3. TypeOK' /\ RowFlow /\ StateFlow /\ StrayFlow
      BY <1>1, <2>2, <3>2 DEF RowFlow, Publish, TypeOK, StateFlow, StrayFlow, storeVars,
         clockVars, outcomeVars,
         ownerVars, heartbeatVars
    <3> QED BY <3>2, <3>3, FlowKeepsTokens
  <2> QED BY <1>1, <2>1, <2>2 DEF Publish
<1>2. CASE PublishAnswered(w)
  <2>1. call' \in [Worker -> [Task -> Call]] /\ CallFlow
    BY <1>2, HangUpFlow DEF PublishAnswered, Task
  <2>2. state' \in [Worker -> Lease] /\ StateFlow
    BY <1>2, CallForms DEF PublishAnswered, TypeOK, StateFlow, Task
  <2>3. TypeOK' /\ RowFlow /\ StrayFlow
    BY <1>2, <2>1, <2>2 DEF RowFlow, PublishAnswered, TypeOK, StrayFlow, storeVars,
       clockVars, outcomeVars,
       ownerVars, heartbeatVars
  <2> QED BY <2>1, <2>2, <2>3, FlowKeepsTokens
<1>3. CASE PublishFailed(w)
  <2>1. call' \in [Worker -> [Task -> Call]] /\ CallFlow
    BY <1>3, HangUpFlow DEF PublishFailed, Task
  <2>2. stray' \subseteq Request /\ StrayFlow
    BY <1>3, AbandonFlow DEF PublishFailed, Task
  <2>3. TypeOK' /\ RowFlow /\ StateFlow
    BY <1>3, <2>1, <2>2 DEF RowFlow, PublishFailed, TypeOK, StateFlow, clockVars,
       ownerVars, heartbeatVars
  <2> QED BY <2>1, <2>2, <2>3, FlowKeepsTokens
<1>4. CASE PublishDropped(w)
  <2>1. call' \in [Worker -> [Task -> Call]] /\ CallFlow
    BY <1>4, HangUpFlow DEF PublishDropped, Task
  <2>2. stray' \subseteq Request /\ StrayFlow
    BY <1>4, AbandonFlow DEF PublishDropped, Task
  <2>3. dropped' \subseteq Lease
    BY <1>4, <1>s DEF PublishDropped, TypeOK
  <2>4. TypeOK' /\ RowFlow /\ StateFlow
    BY <1>4, <2>1, <2>2, <2>3 DEF RowFlow, PublishDropped, TypeOK, StateFlow, clockVars,
       ownerVars,
       heartbeatVars
  <2> QED BY <2>1, <2>2, <2>4, FlowKeepsTokens
<1> QED BY <1>1, <1>2, <1>3, <1>4 DEF PublisherStep

-----------------------------------------------------------------------------
(* The store, membership, time and crashes.                                *)

LEMMA ServeSteps ==
    ASSUME IndInv, NEW w \in Worker, NEW t \in Task, Serve(w, t)
    PROVE  IndInv'
<1> USE ConstantAssumption
<1> USE DEF IndInv
<1> DEFINE r == call[w][t].req
<1>0. /\ r \in Request /\ r.by = w /\ RequestSound(r)
      /\ call \in [Worker -> [Task -> Call]]
  BY CallForms DEF Serve, TypeOK, TokensBehindRow
<1>1. PICK accepted \in Verdicts(r) :
        /\ Execute(r, accepted)
        /\ call' = [call EXCEPT ![w][t] = IF accepted THEN Accepted(Returned(r)) ELSE Refused]
  BY DEF Serve
<1>2. accepted \in BOOLEAN /\ (accepted => Accepts(r))
  BY <1>0, <1>1, VerdictType
<1>3. UNCHANGED <<removed, stray, clockVars, outcomeVars, ownerVars, fenceVars, heartbeatVars>>
  BY DEF Serve
<1>4. StateFlow /\ StrayFlow
  BY <1>3 DEF StateFlow, StrayFlow, fenceVars
<1>5. CASE accepted = FALSE
  <2>1. UNCHANGED <<row, grantee, log>>
    BY <1>1, <1>5 DEF Execute
  <2>2. /\ call' \in [Worker -> [Task -> Call]]
        /\ \A v \in Worker, u \in Task : call'[v][u] = IF v = w /\ u = t THEN Refused ELSE call[v][u]
    BY <1>0, <1>1, <1>5, CallMakers
  <2>3. TypeOK'
    BY <1>3, <2>1, <2>2 DEF TypeOK, clockVars, outcomeVars, ownerVars, fenceVars,
       heartbeatVars
  <2>4. RowFlow /\ CallFlow
    BY <2>1, <2>2 DEF RowFlow, CallFlow
  <2> QED BY <1>4, <2>3, <2>4, FlowKeepsTokens
<1>6. CASE accepted = TRUE
  <2> DEFINE ret == Returned(r)
  <2>1. Accepts(r) /\ Execute(r, TRUE)
    BY <1>1, <1>2, <1>6
  <2>2. /\ row' \in Lease
        /\ grantee' \in Worker \cup {NoWorker}
        /\ log' \in Seq(Publication)
        /\ RowFlow
        /\ r.op # "release" => BehindRow(w, ret, row', grantee')
    BY <1>0, <2>1, ExecuteKeepsBehind DEF RowFlow
  <2>3. ret \in Lease /\ (r.op = "release" => ret = NoLease)
    BY <1>0, <2>1, WrittenType DEF Returned
  <2>4. call' = [call EXCEPT ![w][t] = Accepted(ret)]
    BY <1>1, <1>6
  <2>5. ret # NoLease => BehindRow(w, ret, row', grantee')
    BY <2>2, <2>3
  <2> HIDE DEF ret
  <2>6. /\ call' \in [Worker -> [Task -> Call]]
        /\ \A v \in Worker, u \in Task :
             call'[v][u] = IF v = w /\ u = t THEN Accepted(ret) ELSE call[v][u]
    BY <1>0, <2>3, <2>4, CallMakers
  <2>7. CallFlow
    BY <2>3, <2>5, <2>6 DEF CallFlow
  <2>8. TypeOK'
    BY <1>3, <2>2, <2>6 DEF TypeOK, clockVars, outcomeVars, ownerVars, fenceVars,
       heartbeatVars
  <2> QED BY <1>4, <2>2, <2>7, <2>8, FlowKeepsTokens
<1> QED BY <1>2, <1>5, <1>6

LEMMA ServeStraySteps ==
    ASSUME IndInv, NEW r \in stray, ServeStray(r)
    PROVE  IndInv'
<1> USE ConstantAssumption
<1> USE DEF IndInv
<1>0. r \in Request /\ RequestSound(r)
  BY DEF TypeOK, TokensBehindRow
<1>1. PICK accepted \in Verdicts(r) : Execute(r, accepted)
  BY DEF ServeStray
<1>2. accepted \in BOOLEAN /\ (accepted => Accepts(r))
  BY <1>0, <1>1, VerdictType
<1>3. /\ stray' \subseteq stray
      /\ UNCHANGED <<removed, call, clockVars, outcomeVars, ownerVars, fenceVars, heartbeatVars>>
  BY DEF ServeStray
<1>4. StateFlow /\ StrayFlow /\ CallFlow
  BY <1>3 DEF StateFlow, StrayFlow, CallFlow, fenceVars
<1>5. /\ row' \in Lease
      /\ grantee' \in Worker \cup {NoWorker}
      /\ log' \in Seq(Publication)
      /\ RowFlow
  <2>1. CASE accepted = FALSE
    BY <1>1, <2>1 DEF Execute, RowFlow, TypeOK
  <2>2. CASE accepted = TRUE
    BY <1>0, <1>1, <1>2, <2>2, ExecuteKeepsBehind DEF RowFlow
  <2> QED BY <1>2, <2>1, <2>2
<1>6. TypeOK'
  BY <1>3, <1>5 DEF TypeOK, clockVars, outcomeVars, ownerVars, fenceVars, heartbeatVars
<1> QED BY <1>4, <1>5, <1>6, FlowKeepsTokens

LEMMA TickSteps ==
    ASSUME IndInv, Tick
    PROVE  IndInv'
<1> USE DEF IndInv
<1>1. TypeOK' /\ RowFlow /\ StateFlow /\ StrayFlow /\ CallFlow
  BY DEF Tick, TypeOK, RowFlow, StateFlow, StrayFlow, CallFlow, storeVars, ownerVars,
     outcomeVars,
     fenceVars, heartbeatVars
<1> QED BY <1>1, FlowKeepsTokens

LEMMA EnvironmentSteps ==
    ASSUME IndInv, NEW n \in Node,
           AdjustClock(n) \/ BeginRemoval(n) \/ RollbackRemoval(n) \/ Crash(n)
    PROVE  IndInv'
<1> USE ConstantAssumption, LeaseFields
<1> USE DEF IndInv
<1>2. CASE AdjustClock(n)
  <2>1. TypeOK' /\ RowFlow /\ StateFlow /\ StrayFlow /\ CallFlow
    BY <1>2 DEF AdjustClock, TypeOK, RowFlow, StateFlow, StrayFlow, CallFlow, storeVars,
       ownerVars, outcomeVars, fenceVars, heartbeatVars
  <2> QED BY <2>1, FlowKeepsTokens
<1>3. CASE BeginRemoval(n)
  <2>1. row' \in Lease /\ grantee' \in Worker \cup {NoWorker} /\ RowFlow
    BY <1>3, RemovalKeepsBehind DEF RowFlow
  <2>2. TypeOK' /\ StateFlow /\ StrayFlow /\ CallFlow
    BY <1>3, <2>1 DEF BeginRemoval, TypeOK, StateFlow, StrayFlow, CallFlow, clockVars,
       outcomeVars,
       ownerVars, fenceVars, heartbeatVars
  <2> QED BY <2>1, <2>2, FlowKeepsTokens
<1>4. CASE RollbackRemoval(n)
  <2>1. TypeOK' /\ RowFlow /\ StateFlow /\ StrayFlow /\ CallFlow
    BY <1>4 DEF RollbackRemoval, TypeOK, RowFlow, StateFlow, StrayFlow, CallFlow,
       clockVars, outcomeVars,
       ownerVars, fenceVars, heartbeatVars
  <2> QED BY <2>1, FlowKeepsTokens
<1>5. CASE Crash(n)
  <2> DEFINE dead == {w \in Worker : NodeOf[w] = n /\ phase[w] # "idle"}
  <2>1. /\ Abandon(dead, Task) /\ dead \in SUBSET Worker
        /\ call' = Cleared(call, dead, [t \in Task |-> NoCall])
        /\ state' = Cleared(state, dead, NoLease)
        /\ phase' = Cleared(phase, dead, "err")
        /\ attempt' = Cleared(attempt, dead, 0)
        /\ revoked' = Cleared(revoked, dead, TRUE)
        /\ hb' = Cleared(hb, dead, "failed")
        /\ mode' = Cleared(mode, dead, "select")
        /\ current' = Cleared(current, dead, NoLease)
        /\ deadline' = Cleared(deadline, dead, 0)
        /\ lost' = Cleared(lost, dead, TRUE)
        /\ UNCHANGED <<row, removed, grantee, log, clockVars, outcomeVars>>
    BY <1>5 DEF Crash
  <2> HIDE DEF dead
  <2>2. stray' \subseteq Request /\ StrayFlow
    BY <2>1, AbandonFlow
  <2>3. call' \in [Worker -> [Task -> Call]] /\ CallFlow
    BY <2>1, CallMakers DEF Cleared, TypeOK, CallFlow
  <2>4. RowFlow /\ StateFlow
    BY <2>1 DEF RowFlow, StateFlow, Cleared, TypeOK
  <2>5. TypeOK'
    BY <2>1, <2>2, <2>3 DEF TypeOK, Cleared, Phase, clockVars, outcomeVars
  <2> QED BY <2>2, <2>3, <2>4, <2>5, FlowKeepsTokens
<1> QED BY <1>2, <1>3, <1>4, <1>5

-----------------------------------------------------------------------------
(* The theorems.                                                           *)

LEMMA Initially == Init => IndInv
BY ConstantAssumption, LeaseFields, CallMakers
   DEF Init, IndInv, TypeOK, TokensBehindRow, Phase

LEMMA Inductive == IndInv /\ [Next]_vars => IndInv'
<1> SUFFICES ASSUME IndInv, [Next]_vars PROVE IndInv'
  OBVIOUS
<1>1. CASE UNCHANGED vars
  BY <1>1 DEF vars, storeVars, clockVars, outcomeVars, ownerVars, fenceVars,
     heartbeatVars, IndInv, TypeOK,
     TokensBehindRow, RequestSound, Behind
<1>2. CASE Tick
  BY <1>2, TickSteps
<1> QED BY <1>1, <1>2, EnvironmentSteps, OwnerSteps, HeartbeatSteps, PublisherSteps,
          ServeSteps, ServeStraySteps DEF Next

\* Every reachable state is well typed: in particular no fence or revision ever
\* passes the largest value a row can hold.
THEOREM TypeCorrect == Spec => []TypeOK
<1>1. Spec => []IndInv
  BY Initially, Inductive, PTL DEF Spec
<1>2. IndInv => TypeOK
  BY DEF IndInv
<1> QED BY <1>1, <1>2, PTL

\* No token a worker holds, has sent or will be answered with is ahead of the row;
\* under the row's fence it belongs to the worker that was granted that fence.
THEOREM TokensStayBehind == Spec => []TokensBehindRow
<1>1. Spec => []IndInv
  BY Initially, Inductive, PTL DEF Spec
<1>2. IndInv => TokensBehindRow
  BY DEF IndInv
<1> QED BY <1>1, <1>2, PTL

-----------------------------------------------------------------------------
(* The lease protocol implements fenced publication.                       *)

\* A statement that executes is a grant, a publication by the holder, a closing
\* or, for a renewal, nothing at all.
LEMMA ExecuteRefines ==
    ASSUME TypeOK, NEW r \in Request, RequestSound(r), Accepts(r), Execute(r, TRUE)
    PROVE  Promise!Next \/ UNCHANGED <<row.fence, grantee, log>>
<1> USE ConstantAssumption
<1>0. /\ r.op \in Op /\ r.by \in Worker /\ row' = Written(r)
      /\ row.fence \in Nat /\ row.rev \in Nat
      /\ grantee' = CASE r.op = "acquire" -> r.by [] r.op = "release" -> NoWorker [] OTHER -> grantee
      /\ log' = IF r.op = "publish" THEN Append(log, [by |-> r.by, fence |-> row.fence]) ELSE log
  BY RequestFields, LeaseFields DEF Execute, TypeOK
<1>1. CASE r.op = "acquire"
  <2>1. row'.fence = row.fence + 1 /\ grantee' = r.by /\ log' = log
    BY <1>0, <1>1, Statements
  <2> QED BY <1>0, <2>1 DEF Promise!Next, Promise!Grant
<1>2. CASE r.op = "renew"
  BY <1>0, <1>2, Statements DEF Advanced
<1>3. CASE r.op = "publish"
  <2>1. row'.fence = row.fence /\ grantee' = grantee /\ row = r.tok
    BY <1>0, <1>3, Statements DEF Advanced
  <2>2. log' = Append(log, [by |-> r.by, fence |-> row.fence])
    BY <1>0, <1>3
  <2>3. BehindRow(r.by, row, row, grantee)
    BY <1>3, <2>1 DEF RequestSound, Behind
  <2>4. grantee = r.by
    BY <1>0, <2>3 DEF BehindRow
  <2> QED BY <1>0, <2>1, <2>2, <2>4 DEF Promise!Next, Promise!Publish
<1>4. CASE r.op = "release"
  <2>1. row'.fence = row.fence /\ grantee' = NoWorker /\ log' = log
    BY <1>0, <1>4, Statements DEF Advanced
  <2> QED BY <2>1 DEF Promise!Next, Promise!Close
<1> QED BY <1>0, <1>1, <1>2, <1>3, <1>4 DEF Op

LEMMA StepRefines == IndInv /\ [Next]_vars => [Promise!Next]_(Promise!vars)
<1> SUFFICES ASSUME IndInv, [Next]_vars
             PROVE  Promise!Next \/ UNCHANGED <<row.fence, grantee, log>>
  BY DEF Promise!vars
<1> USE DEF IndInv
<1>1. CASE UNCHANGED vars
  BY <1>1 DEF vars, storeVars
<1>2. CASE Tick
  BY <1>2 DEF Tick, storeVars
<1>3. ASSUME NEW n \in Node, AdjustClock(n) \/ BeginRemoval(n) \/ RollbackRemoval(n) \/ Crash(n)
      PROVE  Promise!Next \/ UNCHANGED <<row.fence, grantee, log>>
  <2>1. CASE AdjustClock(n) \/ RollbackRemoval(n) \/ Crash(n)
    BY <2>1 DEF AdjustClock, RollbackRemoval, Crash, storeVars
  <2>2. CASE BeginRemoval(n) /\ row.owner = n
    BY <2>2 DEF BeginRemoval, Promise!Next, Promise!Close
  <2>3. CASE BeginRemoval(n) /\ row.owner # n
    BY <2>3 DEF BeginRemoval
  <2> QED BY <1>3, <2>1, <2>2, <2>3
<1>4. ASSUME NEW w \in Worker, OwnerStep(w) \/ HeartbeatStep(w) \/ PublisherStep(w)
      PROVE  UNCHANGED <<row, grantee, log>>
  <2>1. CASE OwnerStep(w)
    BY <2>1 DEF OwnerStep, Acquire, Acquired, NotAcquired, Release, Joined, Released,
       ReleaseFailed, Drop, storeVars
  <2>2. CASE HeartbeatStep(w)
    BY <2>2 DEF HeartbeatStep, Heartbeat, HeartbeatCancelled, HeartbeatExpired, Renew,
       RenewAnswered, RenewFailed, storeVars
  <2>3. CASE PublisherStep(w)
    BY <2>3 DEF PublisherStep, Publish, PublishAnswered, PublishFailed, PublishDropped,
       storeVars
  <2> QED BY <1>4, <2>1, <2>2, <2>3
<1>5. ASSUME NEW r \in Request, RequestSound(r), NEW accepted \in Verdicts(r),
             Execute(r, accepted)
      PROVE  Promise!Next \/ UNCHANGED <<row.fence, grantee, log>>
  <2>1. accepted \in BOOLEAN /\ (accepted => Accepts(r))
    BY <1>5, VerdictType
  <2>2. CASE accepted = FALSE
    BY <1>5, <2>2 DEF Execute
  <2>3. CASE accepted = TRUE
    BY <1>5, <2>1, <2>3, ExecuteRefines
  <2> QED BY <2>1, <2>2, <2>3
<1>6. ASSUME NEW w \in Worker, NEW t \in Task, Serve(w, t)
      PROVE  Promise!Next \/ UNCHANGED <<row.fence, grantee, log>>
  <2>1. call[w][t].req \in Request /\ RequestSound(call[w][t].req)
    BY <1>6, CallForms DEF Serve, TypeOK, TokensBehindRow
  <2>2. PICK accepted \in Verdicts(call[w][t].req) : Execute(call[w][t].req, accepted)
    BY <1>6 DEF Serve
  <2> QED BY <1>5, <2>1, <2>2
<1>7. ASSUME NEW r \in stray, ServeStray(r)
      PROVE  Promise!Next \/ UNCHANGED <<row.fence, grantee, log>>
  <2>1. r \in Request /\ RequestSound(r)
    BY DEF TypeOK, TokensBehindRow
  <2>2. PICK accepted \in Verdicts(r) : Execute(r, accepted)
    BY <1>7 DEF ServeStray
  <2> QED BY <1>5, <2>1, <2>2
<1> QED BY <1>1, <1>2, <1>3, <1>4, <1>6, <1>7 DEF Next

\* The lease, its heartbeats, its strays and its removals implement fenced
\* publication, for every number of nodes and workers.
THEOREM Refinement == Spec => Implements
<1>1. Init => Promise!Init
  BY DEF Init, NoLease, Promise!Init
<1>2. Spec => []IndInv
  BY Initially, Inductive, PTL DEF Spec
<1> QED BY <1>1, <1>2, StepRefines, PTL DEF Spec, Implements, Promise!Spec

\* Committed publications follow the order of the fences and one fence publishes
\* for one worker: the catalogue never sees a superseded job.
PromiseProofs == INSTANCE FencedPublicationProofs WITH fence <- row.fence, holder <- grantee

THEOREM PublicationOrder == Spec => []PublicationsInOrder
<1>1. NoWorker \notin Worker
  BY ConstantAssumption
<1>2. PromiseProofs!Spec => []PromiseProofs!PublicationsInOrder
  BY <1>1, PromiseProofs!InOrder
<1>3. Implements => PromiseProofs!Spec
  BY DEF Implements, Promise!Spec, Promise!Init, Promise!Next, Promise!vars, Promise!Grant,
     Promise!Publish, Promise!Close, PromiseProofs!Spec, PromiseProofs!Init, PromiseProofs!Next,
     PromiseProofs!vars, PromiseProofs!Grant, PromiseProofs!Publish, PromiseProofs!Close
<1>4. PromiseProofs!PublicationsInOrder => PublicationsInOrder
  BY DEF PublicationsInOrder, Promise!PublicationsInOrder, PromiseProofs!PublicationsInOrder
<1> QED BY <1>2, <1>3, <1>4, Refinement, PTL

-----------------------------------------------------------------------------
(* The row: who may own it, and how its window moves.                      *)

\* What a step can do to the row and the record of removals: leave both, fence a
\* removed node's row, forget a removal, or execute a sound request.
LEMMA RowSteps ==
    ASSUME IndInv, [Next]_vars
    PROVE  \/ UNCHANGED <<row, grantee, removed>>
           \/ \E n \in Node : BeginRemoval(n)
           \/ UNCHANGED <<row, grantee>> /\ removed' \subseteq removed
           \/ /\ UNCHANGED removed
              /\ \E r \in Request :
                   /\ \/ r \in stray
                      \/ \E w \in Worker, t \in Task : call[w][t].st = "sent" /\ r = call[w][t].req
                   /\ Accepts(r) /\ Execute(r, TRUE)
<1> DEFINE Goal == \/ UNCHANGED <<row, grantee, removed>>
                   \/ \E n \in Node : BeginRemoval(n)
                   \/ UNCHANGED <<row, grantee>> /\ removed' \subseteq removed
                   \/ /\ UNCHANGED removed
                      /\ \E r \in Request :
                           /\ \/ r \in stray
                              \/ \E w \in Worker, t \in Task :
                                   call[w][t].st = "sent" /\ r = call[w][t].req
                           /\ Accepts(r) /\ Execute(r, TRUE)
<1> USE DEF IndInv
<1>1. CASE UNCHANGED vars
  BY <1>1 DEF vars, storeVars
<1>2. CASE Tick
  BY <1>2 DEF Tick, storeVars
<1>3. ASSUME NEW n \in Node, AdjustClock(n) \/ BeginRemoval(n) \/ RollbackRemoval(n) \/ Crash(n)
      PROVE  Goal
  BY <1>3 DEF AdjustClock, RollbackRemoval, Crash, storeVars
<1>4. ASSUME NEW w \in Worker, OwnerStep(w) \/ HeartbeatStep(w) \/ PublisherStep(w)
      PROVE  UNCHANGED <<row, grantee, removed>>
  <2>1. CASE OwnerStep(w)
    BY <2>1 DEF OwnerStep, Acquire, Acquired, NotAcquired, Release, Joined, Released,
       ReleaseFailed, Drop, storeVars
  <2>2. CASE HeartbeatStep(w)
    BY <2>2 DEF HeartbeatStep, Heartbeat, HeartbeatCancelled, HeartbeatExpired, Renew,
       RenewAnswered, RenewFailed, storeVars
  <2>3. CASE PublisherStep(w)
    BY <2>3 DEF PublisherStep, Publish, PublishAnswered, PublishFailed, PublishDropped,
       storeVars
  <2> QED BY <1>4, <2>1, <2>2, <2>3
<1>5. ASSUME NEW r \in Request, NEW accepted \in Verdicts(r), Execute(r, accepted),
             \/ r \in stray
             \/ \E w \in Worker, t \in Task : call[w][t].st = "sent" /\ r = call[w][t].req,
             UNCHANGED removed
      PROVE  Goal
  <2>1. accepted \in BOOLEAN /\ (accepted => Accepts(r))
    BY <1>5, VerdictType
  <2>2. CASE accepted = FALSE
    BY <1>5, <2>2 DEF Execute
  <2>3. CASE accepted = TRUE
    BY <1>5, <2>1, <2>3
  <2> QED BY <2>1, <2>2, <2>3
<1>6. ASSUME NEW w \in Worker, NEW t \in Task, Serve(w, t)
      PROVE  Goal
  <2>1. call[w][t].req \in Request /\ call[w][t].st = "sent" /\ UNCHANGED removed
    BY <1>6, CallForms DEF Serve, TypeOK
  <2>2. PICK accepted \in Verdicts(call[w][t].req) : Execute(call[w][t].req, accepted)
    BY <1>6 DEF Serve
  <2> QED BY <1>5, <2>1, <2>2
<1>7. ASSUME NEW r \in stray, ServeStray(r)
      PROVE  Goal
  <2>1. r \in Request /\ UNCHANGED removed
    BY <1>7 DEF ServeStray, TypeOK
  <2>2. PICK accepted \in Verdicts(r) : Execute(r, accepted)
    BY <1>7 DEF ServeStray
  <2> QED BY <1>5, <2>1, <2>2
<1> QED BY <1>1, <1>2, <1>3, <1>4, <1>6, <1>7 DEF Next

\* While a removal is recorded the node owns nothing: the removal fences its rows
\* in the same transaction, and every statement that could bring it back looks.
THEOREM RemovalHolds == Spec => []RemovedOwnsNothing
<1> USE ConstantAssumption
<1>1. Init => RemovedOwnsNothing
  BY DEF Init, RemovedOwnsNothing
<1>2. IndInv /\ RemovedOwnsNothing /\ [Next]_vars => RemovedOwnsNothing'
  <2> SUFFICES ASSUME IndInv, RemovedOwnsNothing, [Next]_vars PROVE RemovedOwnsNothing'
    OBVIOUS
  <2> USE DEF RemovedOwnsNothing
  <2>0. removed \subseteq Node
    BY DEF IndInv, TypeOK
  <2>1. CASE UNCHANGED <<row, grantee>> /\ removed' \subseteq removed
    BY <2>1
  <2>2. ASSUME NEW n \in Node, BeginRemoval(n) PROVE RemovedOwnsNothing'
    <3>1. removed' = removed \cup {n}
      BY <2>2 DEF BeginRemoval
    <3>2. CASE row.owner = n
      <4>1. row'.owner = NoOwner
        BY <2>2, <3>2 DEF BeginRemoval
      <4> QED BY <2>0, <3>1, <4>1
    <3>3. CASE row.owner # n
      BY <2>2, <3>1, <3>3 DEF BeginRemoval
    <3> QED BY <3>2, <3>3
  <2>3. ASSUME NEW r \in Request, Accepts(r), Execute(r, TRUE), UNCHANGED removed
        PROVE  RemovedOwnsNothing'
    <3>1. row' = Written(r)
      BY <2>3 DEF Execute
    <3>2. CASE r.op = "acquire"
      BY <2>3, <3>1, <3>2, Statements
    <3>3. CASE r.op \in {"renew", "publish", "release"}
      <4>1. row'.owner = row.owner
        BY <3>1, <3>3, Statements DEF Advanced
      <4> QED BY <2>3, <4>1
    <3> QED BY <3>2, <3>3, RequestFields DEF Op
  <2> QED BY <2>1, <2>2, <2>3, RowSteps
<1>3. Spec => []IndInv
  BY Initially, Inductive, PTL DEF Spec
<1> QED BY <1>1, <1>2, <1>3, PTL DEF Spec

\* Under the fence it was granted, a worker's window only grows, whatever its clock
\* does: a renewal is validated against the token it replaces, a publication asks
\* for its predecessor's expiry and more.  The invariant this needs is that every
\* request that has left, or has been left behind, asks for no less than it has.
Extends(r) == r.op \in {"renew", "publish"} => r.exp >= r.tok.exp

RequestsExtend ==
    /\ \A r \in stray : Extends(r)
    /\ \A w \in Worker, t \in Task : call[w][t].st = "sent" => Extends(call[w][t].req)

\* No new call, or one that extends its token.
CallExtends ==
    \A w \in Worker, t \in Task :
        call'[w][t].st = "sent" => call'[w][t] = call[w][t] \/ Extends(call'[w][t].req)

LEMMA AskExtends ==
    ASSUME TypeOK, NEW w \in Worker, NEW t \in Task, NEW op, NEW tok, NEW exp,
           Ask(w, t, op, tok, exp), op \in {"renew", "publish"} => exp >= tok.exp
    PROVE  CallExtends
<1> DEFINE r == [op |-> op, by |-> w, tok |-> tok, at |-> Clock(NodeOf[w]), exp |-> exp]
<1>1. r.op = op /\ r.tok = tok /\ r.exp = exp
  OBVIOUS
<1>2. Extends(r)
  BY <1>1 DEF Extends
<1>3. call' = [call EXCEPT ![w][t] = Sent(r)]
  BY DEF Ask
<1>4. Sent(r).req = r
  BY DEF Sent
<1> HIDE DEF r
<1>5. \A v \in Worker, u \in Task : call'[v][u] = IF v = w /\ u = t THEN Sent(r) ELSE call[v][u]
  BY <1>3 DEF TypeOK
<1> QED BY <1>2, <1>4, <1>5 DEF CallExtends

\* Nothing but asking makes a request.
LEMMA AnswerExtends ==
    ASSUME TypeOK, NEW w \in Worker, NEW t \in Task, NEW c \in Call, c.st # "sent",
           call' = [call EXCEPT ![w][t] = c]
    PROVE  CallExtends
BY DEF TypeOK, CallExtends

LEMMA WorkersExtend ==
    ASSUME IndInv, NEW w \in Worker, OwnerStep(w) \/ HeartbeatStep(w) \/ PublisherStep(w)
    PROVE  CallExtends /\ StrayFlow
<1> USE ConstantAssumption, CallMakers DEF IndInv, Task
<1>0. /\ UNCHANGED stray => StrayFlow
      /\ UNCHANGED call => CallExtends
  BY DEF StrayFlow, CallExtends
<1>1. CASE Acquire(w)
  BY <1>0, <1>1, AskExtends DEF Acquire, storeVars
<1>2. CASE Acquired(w) \/ Released(w)
  BY <1>0, <1>2, AnswerExtends DEF Acquired, Released, storeVars
<1>3. CASE NotAcquired(w)
  BY <1>0, <1>3, AnswerExtends, AbandonFlow DEF NotAcquired
<1>4. CASE Release(w)
  BY <1>0, <1>4 DEF Release, storeVars
<1>5. CASE Joined(w)
  <2>1. CallExtends
    BY <1>0, <1>5, AskExtends DEF Joined
  <2> QED BY <1>0, <1>5, <2>1 DEF Joined, storeVars
<1>6. CASE ReleaseFailed(w)
  <2>1. StrayFlow
    BY <1>6, AbandonFlow DEF ReleaseFailed
  <2>2. CASE Ask(w, "owner", "release", state[w], 0)
    BY <2>1, <2>2, AskExtends
  <2>3. CASE call' = [call EXCEPT ![w]["owner"] = NoCall]
    BY <2>1, <2>3, AnswerExtends
  <2> QED BY <1>6, <2>2, <2>3 DEF ReleaseFailed
<1>7. CASE Drop(w)
  <2>1. StrayFlow
    BY <1>7, AbandonFlow DEF Drop
  <2>2. CallExtends
    BY <1>7 DEF Drop, TypeOK, CallExtends
  <2> QED BY <2>1, <2>2
<1>8. CASE Heartbeat(w) \/ HeartbeatCancelled(w) \/ HeartbeatExpired(w)
  BY <1>0, <1>8 DEF Heartbeat, HeartbeatCancelled, HeartbeatExpired, storeVars
<1>9. CASE Renew(w)
  <2>1. CASE UNCHANGED call
    BY <1>0, <1>9, <2>1 DEF Renew, storeVars
  <2>2. CASE /\ Clock(NodeOf[w]) + TTL > state[w].exp
             /\ Ask(w, "heartbeat", "renew", state[w], Clock(NodeOf[w]) + TTL)
    <3>1. Clock(NodeOf[w]) + TTL >= state[w].exp
      BY <2>2, LeaseFields DEF TypeOK, Clock
    <3> HIDE DEF IndInv
    <3>2. CallExtends
      BY <2>2, <3>1, AskExtends DEF IndInv
    <3> QED BY <1>0, <1>9, <3>2 DEF Renew, storeVars
  <2> QED BY <1>9, <2>1, <2>2 DEF Renew
<1>10. CASE RenewAnswered(w)
  BY <1>0, <1>10, AnswerExtends DEF RenewAnswered, storeVars
<1>11. CASE RenewFailed(w)
  BY <1>11, AnswerExtends, AbandonFlow DEF RenewFailed
<1>12. CASE Publish(w)
  <2>1. CASE UNCHANGED call
    BY <1>0, <1>12, <2>1 DEF Publish, storeVars
  <2>2. CASE Ask(w, "publisher", "publish", state[w], SuccessorExpiry(w))
    <3>0. state[w].exp \in Nat /\ Clock(NodeOf[w]) \in Nat
      BY LeaseFields DEF TypeOK, Clock
    <3>1. SuccessorExpiry(w) >= state[w].exp
      BY <3>0 DEF SuccessorExpiry, Later
    <3>2. CallExtends
      BY <2>2, <3>1, AskExtends
    <3> QED BY <1>0, <1>12, <3>2 DEF Publish, storeVars
  <2> QED BY <1>12, <2>1, <2>2 DEF Publish
<1>13. CASE PublishAnswered(w)
  BY <1>0, <1>13, AnswerExtends DEF PublishAnswered, storeVars
<1>14. CASE PublishFailed(w) \/ PublishDropped(w)
  BY <1>14, AnswerExtends, AbandonFlow DEF PublishFailed, PublishDropped
<1> QED BY <1>1, <1>2, <1>3, <1>4, <1>5, <1>6, <1>7, <1>8, <1>9, <1>10, <1>11, <1>12,
           <1>13, <1>14 DEF OwnerStep, HeartbeatStep, PublisherStep

LEMMA EverythingExtends ==
    ASSUME IndInv, [Next]_vars
    PROVE  CallExtends /\ StrayFlow
<1> USE ConstantAssumption, CallMakers DEF IndInv
<1>0. /\ stray' \subseteq stray => StrayFlow
      /\ UNCHANGED call => CallExtends
  BY DEF StrayFlow, CallExtends
<1>1. CASE UNCHANGED vars
  BY <1>0, <1>1 DEF vars, storeVars
<1>2. CASE Tick
  BY <1>0, <1>2 DEF Tick, storeVars
<1>3. ASSUME NEW n \in Node, AdjustClock(n) \/ BeginRemoval(n) \/ RollbackRemoval(n)
      PROVE  CallExtends /\ StrayFlow
  BY <1>0, <1>3 DEF AdjustClock, BeginRemoval, RollbackRemoval, storeVars
<1>4. ASSUME NEW n \in Node, Crash(n)
      PROVE  CallExtends /\ StrayFlow
  <2> DEFINE dead == {w \in Worker : NodeOf[w] = n /\ phase[w] # "idle"}
  <2>1. Abandon(dead, Task) /\ call' = Cleared(call, dead, [t \in Task |-> NoCall])
    BY <1>4 DEF Crash
  <2>2. dead \in SUBSET Worker
    OBVIOUS
  <2> HIDE DEF dead
  <2>3. StrayFlow
    BY <2>1, <2>2, AbandonFlow
  <2>4. CallExtends
    BY <2>1, <2>2 DEF Cleared, CallExtends, TypeOK
  <2> QED BY <2>3, <2>4
<1>5. ASSUME NEW w \in Worker, NEW t \in Task, Serve(w, t)
      PROVE  CallExtends /\ StrayFlow
  <2> DEFINE r == call[w][t].req
  <2>1. PICK accepted \in Verdicts(r) :
          call' = [call EXCEPT ![w][t] = IF accepted THEN Accepted(Returned(r)) ELSE Refused]
    BY <1>5 DEF Serve
  <2>2. \A v \in Worker, u \in Task :
          call'[v][u] = call[v][u] \/ call'[v][u].st \in {"accepted", "refused"}
    BY <2>1 DEF TypeOK, Accepted, Refused
  <2> QED BY <1>0, <1>5, <2>2 DEF CallExtends, Serve
<1>6. ASSUME NEW r \in stray, ServeStray(r)
      PROVE  CallExtends /\ StrayFlow
  BY <1>0, <1>6 DEF ServeStray
<1> QED BY <1>1, <1>2, <1>3, <1>4, <1>5, <1>6, WorkersExtend DEF Next

LEMMA ExtendsInductive == IndInv /\ RequestsExtend /\ [Next]_vars => RequestsExtend'
<1> SUFFICES ASSUME IndInv, RequestsExtend, [Next]_vars PROVE RequestsExtend'
  OBVIOUS
<1>1. CallExtends /\ StrayFlow
  BY EverythingExtends
<1>2. \A r \in stray' : Extends(r)
  BY <1>1 DEF StrayFlow, RequestsExtend
<1>3. ASSUME NEW w \in Worker, NEW t \in Task, call'[w][t].st = "sent"
      PROVE  Extends(call'[w][t].req)
  BY <1>1, <1>3 DEF CallExtends, RequestsExtend
<1> QED BY <1>2, <1>3 DEF RequestsExtend, Extends

LEMMA WindowStep ==
    ASSUME IndInv, RequestsExtend, [Next]_vars, NEW w \in Worker,
           grantee = w, grantee' = w, row'.fence = row.fence
    PROVE  row'.exp >= row.exp
<1> USE ConstantAssumption
<1>0. row \in Lease /\ row.exp \in Nat /\ row.fence \in Nat
  BY LeaseFields DEF IndInv, TypeOK
<1>1. CASE UNCHANGED row
  BY <1>0, <1>1
<1>2. ASSUME NEW n \in Node, BeginRemoval(n)
      PROVE  UNCHANGED row
  BY <1>2 DEF BeginRemoval
<1>3. ASSUME NEW r \in Request,
             \/ r \in stray
             \/ \E v \in Worker, t \in Task : call[v][t].st = "sent" /\ r = call[v][t].req,
             Accepts(r), Execute(r, TRUE)
      PROVE  row'.exp >= row.exp
  <2>1. Extends(r)
    BY <1>3 DEF RequestsExtend
  <2>2. row' = Written(r)
    BY <1>3 DEF Execute
  <2>3. CASE r.op = "acquire"
    <3>1. row'.fence = row.fence + 1
      BY <2>2, <2>3, Statements
    <3> QED BY <1>0, <3>1
  <2>4. CASE r.op \in {"renew", "publish"}
    BY <1>3, <2>1, <2>2, <2>4, Statements DEF Extends, Advanced
  <2>5. CASE r.op = "release"
    BY <1>3, <2>5 DEF Execute
  <2> QED BY <2>3, <2>4, <2>5, RequestFields DEF Op
<1> QED BY <1>1, <1>2, <1>3, RowSteps

\* The holder's authority window never shrinks under its fence.
THEOREM WindowGrows == Spec => WindowNeverShrinks
<1>1. Init => RequestsExtend
  BY CallMakers DEF Init, RequestsExtend, NoCall
<1>2. IndInv /\ RequestsExtend /\ [Next]_vars =>
        [\A w \in Worker :
           grantee = w /\ grantee' = w /\ row'.fence = row.fence => row'.exp >= row.exp]_vars
  BY WindowStep
<1>3. Spec => []IndInv
  BY Initially, Inductive, PTL DEF Spec
<1> QED BY <1>1, <1>2, <1>3, ExtendsInductive, PTL DEF Spec, WindowNeverShrinks
==============================================================================
