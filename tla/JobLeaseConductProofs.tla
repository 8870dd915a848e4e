------------------------- MODULE JobLeaseConductProofs -------------------------
(***************************************************************************)
(* What rests on a worker's own conduct, that is on its lock, its flags    *)
(* and the order in which it joins, releases and tells: only a publication *)
(* it dropped can fence it off, its end is told truly, and its artwork     *)
(* names are its own.                                                      *)
(***************************************************************************)
EXTENDS JobLeaseProofs

-----------------------------------------------------------------------------
(* How a worker's three tasks stand to each other.                         *)

\* The owner's calls belong to its phase, and past "active" the fence is revoked.
OwnerSane(w) ==
    /\ call[w]["owner"] # NoCall => phase[w] \in {"acquiring", "releasing"}
    /\ phase[w] = "acquiring" /\ call[w]["owner"].st = "sent" =>
         call[w]["owner"].req.op = "acquire"
    /\ phase[w] = "acquiring" /\ call[w]["owner"].st = "accepted" =>
         call[w]["owner"].tok # NoLease
    /\ phase[w] = "releasing" => state[w] # NoLease
    /\ phase[w] = "releasing" /\ call[w]["owner"].st = "sent" =>
         call[w]["owner"].req.op = "release" /\ call[w]["owner"].req.tok = state[w]
    /\ phase[w] # "active" => revoked[w]
    /\ phase[w] \in {"idle", "acquiring"} => LockFree(w) /\ hb[w] = "ended" /\ mode[w] = "select"
    /\ phase[w] \in {"releasing", "ok"} => LockFree(w)
    /\ phase[w] \in {"releasing", "ok", "err"} => hb[w] \in {"ended", "failed"}
    /\ phase[w] = "ok" => hb[w] = "ended"

\* The heartbeat and the publisher exclude each other by the lock; a publication
\* presents the token in the fence, and an answer brings a token.
TasksApart(w) ==
    /\ hb[w] = "renewing" <=> call[w]["heartbeat"] # NoCall
    /\ hb[w] = "renewing" => call[w]["publisher"] = NoCall
    /\ call[w]["heartbeat"].st = "sent" => call[w]["heartbeat"].req.op = "renew"
    /\ call[w]["publisher"].st = "sent" =>
         call[w]["publisher"].req.op = "publish" /\ call[w]["publisher"].req.tok = state[w]
    /\ call[w]["publisher"] # NoCall => state[w] # NoLease
    /\ \A t \in {"heartbeat", "publisher"} :
         call[w][t].st = "accepted" => call[w][t].tok # NoLease

\* A worker that has left a request with a token behind sends no other, unless it
\* was a publication the worker dropped.
LeftBehind(w) ==
    \A r \in stray : r.by = w /\ r.op # "acquire" =>
        /\ phase[w] \notin {"idle", "acquiring"}
        /\ \/ r.op = "publish" /\ r.tok \in dropped
           \/ LockFree(w) /\ (revoked[w] \/ state[w] = NoLease)
        /\ r.op = "renew" => hb[w] = "failed"
        /\ r.op = "release" => revoked[w]

\* Whatever empties the fence of a running job tells it, by the loss token or by a
\* publication's error; so it is told when the heartbeat is gone.
Told(w) ==
    /\ mode[w] = "cancelled" => phase[w] # "active"
    /\ mode[w] = "expired" => lost[w]
    /\ phase[w] = "active" /\ (state[w] = NoLease \/ hb[w] \in {"ended", "failed"}) =>
         lost[w] \/ w \in erred

Conduct(w) == OwnerSane(w) /\ TasksApart(w) /\ LeftBehind(w) /\ Told(w)

\* A worker that a step does not concern.
Rest(w) ==
    /\ call'[w] = call[w] /\ phase'[w] = phase[w] /\ state'[w] = state[w]
    /\ revoked'[w] = revoked[w] /\ lost'[w] = lost[w] /\ hb'[w] = hb[w] /\ mode'[w] = mode[w]
    /\ \A r \in stray' : r.by = w => r \in stray
    /\ w \in erred => w \in erred'
    /\ dropped \subseteq dropped'

LEMMA RestConduct ==
    ASSUME NEW w \in Worker, Conduct(w), Rest(w)
    PROVE  Conduct(w)'
BY DEF Conduct, Rest, OwnerSane, TasksApart, LeftBehind, Told, LockFree

-----------------------------------------------------------------------------
(* How a step changes calls and strays.                                    *)

\* Exactly one call changes, to c.
Hears(w, t, c) ==
    \A v \in Worker, u \in Task : call'[v][u] = IF v = w /\ u = t THEN c ELSE call[v][u]

LEMMA AskHears ==
    ASSUME TypeOK, NEW w \in Worker, NEW t \in Task, NEW op, NEW tok, NEW exp,
           Ask(w, t, op, tok, exp)
    PROVE  /\ call'[w][t].st = "sent" /\ call'[w][t].req.op = op /\ call'[w][t].req.tok = tok
           /\ call'[w][t] # NoCall
           /\ call'[w][t].req.by = w /\ call'[w][t].req.at = Clock(NodeOf[w])
           /\ Hears(w, t, call'[w][t])
           /\ \A v \in Worker : v # w => call'[v] = call[v]
<1> DEFINE r == [op |-> op, by |-> w, tok |-> tok, at |-> Clock(NodeOf[w]), exp |-> exp]
<1>1. call' = [call EXCEPT ![w][t] = Sent(r)]
  BY DEF Ask
<1>2. /\ r.op = op /\ r.tok = tok /\ r.by = w /\ r.at = Clock(NodeOf[w])
      /\ Sent(r).st = "sent" /\ Sent(r).req = r /\ Sent(r) # NoCall
  BY DEF Sent, NoCall
<1> HIDE DEF r
<1>3. Hears(w, t, Sent(r)) /\ call'[w][t] = Sent(r)
  BY <1>1 DEF TypeOK, Hears
<1>4. \A v \in Worker : v # w => call'[v] = call[v]
  BY <1>1 DEF TypeOK
<1> QED
  BY <1>2, <1>3, <1>4

LEMMA AnswerHears ==
    ASSUME TypeOK, NEW w \in Worker, NEW t \in Task, NEW c, call' = [call EXCEPT ![w][t] = c]
    PROVE  /\ Hears(w, t, c) /\ call'[w][t] = c
           /\ \A v \in Worker : v # w => call'[v] = call[v]
BY DEF TypeOK, Hears

\* What a worker's tasks leave behind is their own requests.
LEMMA AbandonLeaves ==
    ASSUME NEW W \in SUBSET Worker, NEW T \in SUBSET Task, Abandon(W, T)
    PROVE  \A r \in stray' : r \in stray \/ \E w \in W, t \in T :
               call[w][t].st = "sent" /\ r = call[w][t].req
<1>1. PICK kept \in SUBSET UNION {Unexecuted(w, T) : w \in W} : stray' = stray \cup kept
  BY DEF Abandon
<1>2. ASSUME NEW r \in kept
      PROVE  \E w \in W, t \in T : call[w][t].st = "sent" /\ r = call[w][t].req
  <2>1. PICK w \in W : r \in Unexecuted(w, T)
    BY <1>1, <1>2
  <2> QED BY <2>1 DEF Unexecuted
<1> QED BY <1>1, <1>2

LEMMA OneAbandons ==
    ASSUME TokensBehindRow, NEW w \in Worker, NEW T \in SUBSET Task, Abandon({w}, T)
    PROVE  /\ \A r \in stray' : r \in stray \/ \E t \in T : call[w][t].st = "sent" /\ r = call[w][t].req
           /\ \A v \in Worker : v # w => \A r \in stray' : r.by = v => r \in stray
<1>1. \A r \in stray' : r \in stray \/ \E t \in T : call[w][t].st = "sent" /\ r = call[w][t].req
  BY AbandonLeaves
<1>2. \A t \in Task : call[w][t].st = "sent" => call[w][t].req.by = w
  BY DEF TokensBehindRow
<1> QED BY <1>1, <1>2

\* The owner and the heartbeat neither report a publication's end nor drop one.
LEMMA OutcomesStay ==
    ASSUME NEW w \in Worker, OwnerStep(w) \/ HeartbeatStep(w)
    PROVE  UNCHANGED <<erred, dropped>>
<1>1. CASE OwnerStep(w)
  BY <1>1 DEF OwnerStep, Acquire, Acquired, NotAcquired, Release, Joined, Released,
     ReleaseFailed, Drop, outcomeVars
<1>2. CASE HeartbeatStep(w)
  BY <1>2 DEF HeartbeatStep, Heartbeat, HeartbeatCancelled, HeartbeatExpired, Renew,
     RenewAnswered, RenewFailed, outcomeVars
<1> QED BY <1>1, <1>2

-----------------------------------------------------------------------------
(* The owner's steps.                                                      *)

LEMMA OwnerConduct ==
    ASSUME IndInv, NEW w \in Worker, Conduct(w), OwnerStep(w)
    PROVE  Conduct(w)' /\ \A v \in Worker : v # w => Rest(v)
<1> DEFINE Goal == Conduct(w)' /\ \A v \in Worker : v # w => Rest(v)
<1>o. UNCHANGED <<erred, dropped>>
  BY OutcomesStay
<1> USE CallMakers, <1>o
<1>t. /\ TypeOK /\ TokensBehindRow
      /\ {"owner", "heartbeat", "publisher"} = Task
      /\ \A t \in Task : call[w][t] \in Call
  BY DEF IndInv, TypeOK, Task
<1>f. /\ phase \in [Worker -> Phase] /\ state \in [Worker -> Lease] /\ revoked \in [Worker -> BOOLEAN]
      /\ lost \in [Worker -> BOOLEAN] /\ DOMAIN hb = Worker /\ DOMAIN mode = Worker
  BY <1>t DEF TypeOK
<1>1. CASE Acquire(w)
  <2>1. /\ call'[w]["owner"].st = "sent" /\ call'[w]["owner"].req.op = "acquire"
        /\ Hears(w, "owner", call'[w]["owner"]) /\ \A v \in Worker : v # w => call'[v] = call[v]
    BY <1>1, <1>t, AskHears DEF Acquire
  <2>2. /\ phase[w] = "idle" /\ phase' = [phase EXCEPT ![w] = "acquiring"]
        /\ UNCHANGED <<stray, state, revoked, hb, mode, lost>>
    BY <1>1 DEF Acquire, storeVars, fenceVars, heartbeatVars
  <2>3. Conduct(w)'
    BY <1>t, <1>f, <2>1, <2>2 DEF Conduct, OwnerSane, TasksApart, LeftBehind, Told, LockFree, Hears
  <2> QED BY <1>f, <2>1, <2>2, <2>3 DEF Rest
<1>2. CASE Acquired(w)
  <2>1. /\ call'[w]["owner"] = NoCall
        /\ Hears(w, "owner", NoCall) /\ \A v \in Worker : v # w => call'[v] = call[v]
    BY <1>2, <1>t, AnswerHears DEF Acquired
  <2>2. /\ phase[w] = "acquiring" /\ phase' = [phase EXCEPT ![w] = "active"]
        /\ hb' = [hb EXCEPT ![w] = "waiting"] /\ revoked' = [revoked EXCEPT ![w] = FALSE]
        /\ call[w]["owner"].st = "accepted" /\ state' = [state EXCEPT ![w] = call[w]["owner"].tok]
        /\ UNCHANGED <<stray, mode, lost>>
    BY <1>2, <1>f DEF Acquired, storeVars
  <2>3. Conduct(w)'
    BY <1>t, <1>f, <2>1, <2>2 DEF Conduct, OwnerSane, TasksApart, LeftBehind, Told, LockFree, Hears
  <2> QED BY <1>f, <2>1, <2>2, <2>3 DEF Rest
<1>3. CASE NotAcquired(w)
  <2>1. /\ call'[w]["owner"] = NoCall
        /\ Hears(w, "owner", NoCall) /\ \A v \in Worker : v # w => call'[v] = call[v]
    BY <1>3, <1>t, AnswerHears DEF NotAcquired
  <2>2. /\ \A r \in stray' : r \in stray \/ (call[w]["owner"].st = "sent" /\ r = call[w]["owner"].req)
        /\ \A v \in Worker : v # w => \A r \in stray' : r.by = v => r \in stray
    <3>1. CASE UNCHANGED stray
      BY <3>1
    <3>2. CASE Abandon({w}, {"owner"})
      BY <3>2, <1>t, OneAbandons
    <3> QED BY <1>3, <3>1, <3>2 DEF NotAcquired
  <2>3. /\ phase[w] = "acquiring" /\ phase' = [phase EXCEPT ![w] = "idle"]
        /\ UNCHANGED <<state, revoked, hb, mode, lost>>
    BY <1>3 DEF NotAcquired, fenceVars, heartbeatVars
  <2>4. Conduct(w)'
    BY <1>t, <1>f, <2>1, <2>2, <2>3 DEF Conduct, OwnerSane, TasksApart, LeftBehind, Told, LockFree, Hears
  <2> QED BY <1>f, <2>1, <2>2, <2>3, <2>4 DEF Rest
<1>4. CASE Release(w)
  <2>1. /\ phase[w] = "active" /\ phase' = [phase EXCEPT ![w] = "joining"]
        /\ revoked' = [revoked EXCEPT ![w] = TRUE]
        /\ UNCHANGED <<call, stray, state, hb, mode, lost>>
    BY <1>4 DEF Release, storeVars, heartbeatVars
  <2>2. Conduct(w)'
    BY <1>f, <2>1 DEF Conduct, OwnerSane, TasksApart, LeftBehind, Told, LockFree
  <2> QED BY <1>f, <2>1, <2>2 DEF Rest
<1>5. CASE Joined(w)
  <2>0. /\ phase[w] = "joining" /\ hb[w] \in {"ended", "failed"} /\ LockFree(w)
        /\ UNCHANGED <<stray, state, revoked, hb, mode>>
    BY <1>5 DEF Joined, storeVars, fenceVars
  <2>1. CASE state[w] = NoLease
    <3>1. /\ phase' = [phase EXCEPT ![w] = Outcome(w, FALSE)]
          /\ lost' = [lost EXCEPT ![w] = TRUE] /\ call' = call
      BY <1>5, <2>1 DEF Joined, Returns
    <3>2. Outcome(w, FALSE) \in {"ok", "err"} /\ (Outcome(w, FALSE) = "ok" => hb[w] = "ended")
      BY <2>0 DEF Outcome
    <3>3. Conduct(w)'
      BY <1>t, <1>f, <2>0, <3>1, <3>2 DEF Conduct, OwnerSane, TasksApart, LeftBehind, Told, LockFree
    <3> QED BY <1>f, <2>0, <3>1, <3>3 DEF Rest
  <2>2. CASE state[w] # NoLease
    <3>1. /\ phase' = [phase EXCEPT ![w] = "releasing"]
          /\ Ask(w, "owner", "release", state[w], 0) /\ lost' = lost
      BY <1>5, <2>2 DEF Joined
    <3>2. /\ call'[w]["owner"].st = "sent" /\ call'[w]["owner"].req.op = "release"
          /\ call'[w]["owner"].req.tok = state[w]
          /\ Hears(w, "owner", call'[w]["owner"]) /\ \A v \in Worker : v # w => call'[v] = call[v]
      BY <1>t, <3>1, AskHears
    <3>3. Conduct(w)'
      BY <1>t, <1>f, <2>0, <2>2, <3>1, <3>2
         DEF Conduct, OwnerSane, TasksApart, LeftBehind, Told, LockFree, Hears
    <3> QED BY <1>f, <2>0, <3>1, <3>2, <3>3 DEF Rest
  <2> QED BY <2>1, <2>2
<1>6. CASE Released(w)
  <2>1. /\ call'[w]["owner"] = NoCall
        /\ Hears(w, "owner", NoCall) /\ \A v \in Worker : v # w => call'[v] = call[v]
    BY <1>6, <1>t, AnswerHears DEF Released
  <2>2. /\ phase[w] = "releasing" /\ phase' = [phase EXCEPT ![w] = Outcome(w, FALSE)]
        /\ lost' = [lost EXCEPT ![w] = TRUE]
        /\ UNCHANGED <<stray, state, revoked, hb, mode>>
    BY <1>6 DEF Released, Returns, storeVars, fenceVars
  <2>3. /\ Outcome(w, FALSE) \in {"ok", "err"}
        /\ hb[w] \in {"ended", "failed"} => (Outcome(w, FALSE) = "ok" => hb[w] = "ended")
    BY DEF Outcome
  <2>4. Conduct(w)'
    <3>1. OwnerSane(w)'
      BY <1>t, <1>f, <2>1, <2>2, <2>3 DEF Conduct, OwnerSane, LockFree, Hears
    <3>2. TasksApart(w)'
      BY <1>t, <1>f, <2>1, <2>2, <2>3 DEF Conduct, OwnerSane, TasksApart, LockFree, Hears
    <3>3. LeftBehind(w)'
      BY <1>t, <1>f, <2>1, <2>2, <2>3 DEF Conduct, OwnerSane, TasksApart, LeftBehind, LockFree, Hears
    <3>4. Told(w)'
      BY <1>t, <1>f, <2>1, <2>2, <2>3 DEF Conduct, OwnerSane, Told, Hears
    <3> QED BY <3>1, <3>2, <3>3, <3>4 DEF Conduct
  <2> QED BY <1>f, <2>1, <2>2, <2>4 DEF Rest
<1>7. CASE ReleaseFailed(w)
  <2>0. /\ phase[w] = "releasing" /\ UNCHANGED <<state, revoked, hb, mode>>
        /\ Abandon({w}, {"owner"})
    BY <1>7 DEF ReleaseFailed, fenceVars
  <2>1. /\ \A r \in stray' : r \in stray \/ (call[w]["owner"].st = "sent" /\ r = call[w]["owner"].req)
        /\ \A v \in Worker : v # w => \A r \in stray' : r.by = v => r \in stray
    BY <1>t, <2>0, OneAbandons
  <2>2. CASE attempt[w] < ReleaseAttempts
    <3>1. Ask(w, "owner", "release", state[w], 0) /\ UNCHANGED <<phase, lost>>
      BY <1>7, <2>2 DEF ReleaseFailed
    <3>2. /\ call'[w]["owner"].st = "sent" /\ call'[w]["owner"].req.op = "release"
          /\ call'[w]["owner"].req.tok = state[w]
          /\ Hears(w, "owner", call'[w]["owner"]) /\ \A v \in Worker : v # w => call'[v] = call[v]
      BY <1>t, <3>1, AskHears
    <3>3. Conduct(w)'
      BY <1>t, <1>f, <2>0, <2>1, <3>1, <3>2
         DEF Conduct, OwnerSane, TasksApart, LeftBehind, Told, LockFree, Hears
    <3> QED BY <1>f, <2>0, <2>1, <3>1, <3>2, <3>3 DEF Rest
  <2>3. CASE ~(attempt[w] < ReleaseAttempts)
    <3>1. /\ phase' = [phase EXCEPT ![w] = "err"] /\ lost' = [lost EXCEPT ![w] = TRUE]
          /\ call' = [call EXCEPT ![w]["owner"] = NoCall]
      BY <1>7, <2>3 DEF ReleaseFailed, Returns, Outcome
    <3>2. /\ call'[w]["owner"] = NoCall
          /\ Hears(w, "owner", NoCall) /\ \A v \in Worker : v # w => call'[v] = call[v]
      BY <1>t, <3>1, AnswerHears
    <3>3. Conduct(w)'
      BY <1>t, <1>f, <2>0, <2>1, <3>1, <3>2
         DEF Conduct, OwnerSane, TasksApart, LeftBehind, Told, LockFree, Hears
    <3> QED BY <1>f, <2>0, <2>1, <3>1, <3>2, <3>3 DEF Rest
  <2> QED BY <2>2, <2>3
<1>8. CASE Drop(w)
  <2>1. /\ phase[w] \in {"active", "joining", "releasing"} /\ phase' = [phase EXCEPT ![w] = "err"]
        /\ revoked' = [revoked EXCEPT ![w] = TRUE] /\ lost' = [lost EXCEPT ![w] = TRUE]
        /\ hb' = [hb EXCEPT ![w] = "failed"] /\ mode' = [mode EXCEPT ![w] = "select"]
        /\ state' = state
        /\ Abandon({w}, {"owner", "heartbeat"})
    BY <1>8 DEF Drop
  <2>2. /\ call'[w]["owner"] = NoCall /\ call'[w]["heartbeat"] = NoCall
        /\ call'[w]["publisher"] = call[w]["publisher"]
        /\ \A v \in Worker : v # w => call'[v] = call[v]
    BY <1>8, <1>t DEF Drop, TypeOK
  <2>3. /\ \A r \in stray' : \/ r \in stray
                             \/ call[w]["owner"].st = "sent" /\ r = call[w]["owner"].req
                             \/ call[w]["heartbeat"].st = "sent" /\ r = call[w]["heartbeat"].req
        /\ \A v \in Worker : v # w => \A r \in stray' : r.by = v => r \in stray
    <3>1. {"owner", "heartbeat"} \in SUBSET Task
      BY <1>t
    <3> QED BY <1>t, <2>1, <3>1, OneAbandons
  <2>4. Conduct(w)'
    BY <1>t, <1>f, <2>1, <2>2, <2>3 DEF Conduct, OwnerSane, TasksApart, LeftBehind, Told, LockFree
  <2> QED BY <1>f, <2>1, <2>2, <2>3, <2>4 DEF Rest
<1> QED BY <1>1, <1>2, <1>3, <1>4, <1>5, <1>6, <1>7, <1>8 DEF OwnerStep

-----------------------------------------------------------------------------
(* The heartbeat's steps and the publisher's.                              *)

\* The heartbeat's reaction to a renewal, field by field.
LEMMA RenewedFields ==
    ASSUME TypeOK, NEW w \in Worker, NEW result \in {"true", "false", "err"}, NEW tok,
           Renewed(w, result, tok)
    PROVE  /\ hb'[w] \in {"waiting", "ended", "failed"}
           /\ hb'[w] = "failed" <=> result = "err"
           /\ hb'[w] = "waiting" => result = "true"
           /\ result = "true" /\ mode[w] = "select" => hb'[w] = "waiting"
           /\ mode'[w] = "select"
           /\ lost'[w] = (lost[w] \/ (mode[w] = "select" /\ result # "true"))
           /\ state'[w] \in {tok, NoLease}
           /\ \A v \in Worker : v # w => /\ hb'[v] = hb[v] /\ mode'[v] = mode[v]
                                         /\ lost'[v] = lost[v] /\ state'[v] = state[v]
<1>1. /\ hb'[w] \in {"waiting", "ended", "failed"}
      /\ hb'[w] = "failed" <=> result = "err"
      /\ hb'[w] = "waiting" => result = "true"
      /\ result = "true" /\ mode[w] = "select" => hb'[w] = "waiting"
      /\ \A v \in Worker : v # w => hb'[v] = hb[v]
  BY DEF Renewed, TypeOK
<1>2. /\ mode'[w] = "select" /\ \A v \in Worker : v # w => mode'[v] = mode[v]
      /\ state'[w] \in {tok, NoLease} /\ \A v \in Worker : v # w => state'[v] = state[v]
  BY DEF Renewed, TypeOK
<1>3. /\ lost'[w] = (lost[w] \/ (mode[w] = "select" /\ result # "true"))
      /\ \A v \in Worker : v # w => lost'[v] = lost[v]
  BY DEF Renewed, TypeOK
<1> QED BY <1>1, <1>2, <1>3

LEMMA HeartbeatConduct ==
    ASSUME IndInv, NEW w \in Worker, Conduct(w), HeartbeatStep(w)
    PROVE  Conduct(w)' /\ \A v \in Worker : v # w => Rest(v)
<1>o. UNCHANGED <<erred, dropped>>
  BY OutcomesStay
<1> USE CallMakers, <1>o
<1>t. /\ TypeOK /\ TokensBehindRow
      /\ {"owner", "heartbeat", "publisher"} = Task
      /\ \A t \in Task : call[w][t] \in Call
  BY DEF IndInv, TypeOK, Task
<1>f. /\ phase \in [Worker -> Phase] /\ state \in [Worker -> Lease] /\ revoked \in [Worker -> BOOLEAN]
      /\ lost \in [Worker -> BOOLEAN] /\ DOMAIN hb = Worker /\ DOMAIN mode = Worker
      /\ hb[w] \in {"waiting", "queued", "renewing", "ended", "failed"}
      /\ mode[w] \in {"select", "cancelled", "expired"}
  BY <1>t DEF TypeOK
<1>1. CASE Heartbeat(w)
  <2>1. /\ hb[w] = "waiting" /\ LockFree(w)
        /\ hb' = [hb EXCEPT ![w] = IF state[w] = NoLease THEN "ended" ELSE "queued"]
        /\ UNCHANGED <<call, stray, phase, state, revoked, mode, lost>>
    BY <1>1 DEF Heartbeat, storeVars, ownerVars, fenceVars
  <2>2. Conduct(w)'
    BY <1>f, <2>1 DEF Conduct, OwnerSane, TasksApart, LeftBehind, Told, LockFree
  <2> QED BY <1>f, <2>1, <2>2 DEF Rest
<1>2. CASE HeartbeatCancelled(w)
  <2>1. /\ phase[w] = "joining"
        /\ UNCHANGED <<call, stray, phase, state, revoked, lost>>
        /\ \/ hb[w] = "waiting" /\ hb' = [hb EXCEPT ![w] = "ended"] /\ mode' = mode
           \/ /\ hb[w] \in {"queued", "renewing"} /\ hb' = hb
              /\ mode' = [mode EXCEPT ![w] = "cancelled"]
    BY <1>2 DEF HeartbeatCancelled, storeVars, ownerVars, fenceVars
  <2>2. Conduct(w)'
    BY <1>f, <2>1 DEF Conduct, OwnerSane, TasksApart, LeftBehind, Told, LockFree
  <2> QED BY <1>f, <2>1, <2>2 DEF Rest
<1>3. CASE HeartbeatExpired(w)
  <2>1. /\ hb[w] \in {"queued", "renewing"}
        /\ mode' = [mode EXCEPT ![w] = "expired"] /\ revoked' = [revoked EXCEPT ![w] = TRUE]
        /\ lost' = [lost EXCEPT ![w] = TRUE]
        /\ UNCHANGED <<call, stray, phase, state, hb>>
    BY <1>3 DEF HeartbeatExpired, storeVars, ownerVars
  <2>2. Conduct(w)'
    BY <1>f, <2>1 DEF Conduct, OwnerSane, TasksApart, LeftBehind, Told, LockFree
  <2> QED BY <1>f, <2>1, <2>2 DEF Rest
<1>4. CASE Renew(w)
  <2>0. /\ hb[w] = "queued" /\ LockFree(w)
        /\ UNCHANGED <<stray, phase, revoked>>
    BY <1>4 DEF Renew, storeVars, ownerVars
  <2>1. ASSUME NEW result \in {"false", "err"}, NEW tok \in {state[w], NoLease},
               Renewed(w, result, tok), UNCHANGED call
        PROVE  Conduct(w)' /\ \A v \in Worker : v # w => Rest(v)
    <3>1. /\ hb'[w] \in {"ended", "failed"}
          /\ mode'[w] = "select"
          /\ lost'[w] = (lost[w] \/ mode[w] = "select")
          /\ state'[w] \in {state[w], NoLease}
          /\ \A v \in Worker : v # w => /\ hb'[v] = hb[v] /\ mode'[v] = mode[v]
                                        /\ lost'[v] = lost[v] /\ state'[v] = state[v]
      BY <1>t, <2>1, RenewedFields
    <3>2. Conduct(w)'
      BY <1>f, <2>0, <2>1, <3>1 DEF Conduct, OwnerSane, TasksApart, LeftBehind, Told, LockFree
    <3> QED BY <2>0, <2>1, <3>1, <3>2 DEF Rest
  <2>2. CASE /\ ~revoked[w] /\ state[w] # NoLease
             /\ Ask(w, "heartbeat", "renew", state[w], Clock(NodeOf[w]) + TTL)
             /\ hb' = [hb EXCEPT ![w] = "renewing"]
             /\ UNCHANGED <<lost, state, mode, deadline>>
    <3>1. /\ call'[w]["heartbeat"].st = "sent" /\ call'[w]["heartbeat"].req.op = "renew"
          /\ call'[w]["heartbeat"] # NoCall
          /\ Hears(w, "heartbeat", call'[w]["heartbeat"])
          /\ \A v \in Worker : v # w => call'[v] = call[v]
      BY <1>t, <2>2, AskHears
    <3>2. Conduct(w)'
      <4>1. OwnerSane(w)'
        BY <1>t, <1>f, <2>0, <2>2, <3>1 DEF Conduct, OwnerSane, LockFree, Hears
      <4>2. TasksApart(w)'
        BY <1>t, <1>f, <2>0, <2>2, <3>1 DEF Conduct, OwnerSane, TasksApart, LockFree, Hears
      <4>3. LeftBehind(w)'
        BY <1>t, <1>f, <2>0, <2>2, <3>1 DEF Conduct, OwnerSane, TasksApart, LeftBehind, LockFree, Hears
      <4>4. Told(w)'
        BY <1>t, <1>f, <2>0, <2>2, <3>1 DEF Conduct, OwnerSane, Told, Hears
      <4> QED BY <4>1, <4>2, <4>3, <4>4 DEF Conduct
    <3> QED BY <1>f, <2>0, <2>2, <3>1, <3>2 DEF Rest
  <2> QED BY <1>4, <2>1, <2>2 DEF Renew
<1>5. CASE RenewAnswered(w)
  <2>1. /\ hb[w] = "renewing" /\ call'[w]["heartbeat"] = NoCall
        /\ Hears(w, "heartbeat", NoCall) /\ \A v \in Worker : v # w => call'[v] = call[v]
        /\ UNCHANGED <<stray, phase>>
    BY <1>5, <1>t, AnswerHears DEF RenewAnswered, storeVars, ownerVars
  <2>2. PICK result \in {"true", "false"}, tok \in {NoLease, call[w]["heartbeat"].tok} :
          /\ Renewed(w, result, tok)
          /\ result = "true" => call[w]["heartbeat"].st = "accepted" /\ tok = call[w]["heartbeat"].tok
    BY <1>5 DEF RenewAnswered
  <2>3. /\ revoked[w] => revoked'[w]
        /\ \A v \in Worker : v # w => revoked'[v] = revoked[v]
    BY <1>5, <1>f DEF RenewAnswered
  <2>4. /\ hb'[w] \in {"waiting", "ended"}
        /\ result = "true" /\ mode[w] = "select" => hb'[w] = "waiting"
        /\ mode'[w] = "select"
        /\ lost'[w] = (lost[w] \/ (mode[w] = "select" /\ result # "true"))
        /\ \A v \in Worker : v # w => /\ hb'[v] = hb[v] /\ mode'[v] = mode[v]
                                      /\ lost'[v] = lost[v] /\ state'[v] = state[v]
    BY <1>t, <2>2, RenewedFields
  <2>8. state'[w] # NoLease \/ lost'[w] \/ phase[w] # "active"
    <3>1. CASE mode[w] = "select" /\ result = "true"
      <4>1. state' = [state EXCEPT ![w] = tok]
        BY <2>2, <3>1 DEF Renewed
      <4> QED BY <1>f, <2>2, <3>1, <4>1 DEF Conduct, TasksApart
    <3>2. CASE mode[w] = "select" /\ result # "true"
      BY <2>4, <3>2
    <3>3. CASE mode[w] # "select"
      BY <1>f, <2>4, <3>3 DEF Conduct, Told
    <3> QED BY <3>1, <3>2, <3>3
  <2>5. \A r \in stray : r.by = w /\ r.op # "acquire" => r.op = "publish" /\ r.tok \in dropped
    BY <1>5, <1>t, <2>1, CallForms DEF Conduct, LeftBehind, TasksApart, LockFree, RenewAnswered
  <2>6. phase[w] \in {"active", "joining"}
    BY <1>f, <2>1 DEF Conduct, OwnerSane, Phase
  <2>7. Conduct(w)'
    <3>1. OwnerSane(w)'
      BY <1>t, <1>f, <2>1, <2>3, <2>4, <2>5, <2>6, <2>8 DEF Conduct, OwnerSane, LockFree, Hears
    <3>2. TasksApart(w)'
      BY <1>t, <1>f, <2>1, <2>3, <2>4, <2>5, <2>6, <2>8 DEF Conduct, OwnerSane, TasksApart, LockFree, Hears
    <3>3. LeftBehind(w)'
      BY <1>t, <1>f, <2>1, <2>3, <2>4, <2>5, <2>6, <2>8 DEF Conduct, OwnerSane, TasksApart, LeftBehind, LockFree, Hears
    <3>4. Told(w)'
      BY <1>t, <1>f, <2>1, <2>3, <2>4, <2>5, <2>6, <2>8 DEF Conduct, OwnerSane, Told, Hears
    <3> QED BY <3>1, <3>2, <3>3, <3>4 DEF Conduct
  <2> QED BY <2>1, <2>3, <2>4, <2>7 DEF Rest
<1>6. CASE RenewFailed(w)
  <2>1. /\ hb[w] = "renewing" /\ call'[w]["heartbeat"] = NoCall
        /\ Hears(w, "heartbeat", NoCall) /\ \A v \in Worker : v # w => call'[v] = call[v]
        /\ UNCHANGED <<phase, revoked>>
        /\ Abandon({w}, {"heartbeat"}) /\ Renewed(w, "err", NoLease)
    BY <1>6, <1>t, AnswerHears DEF RenewFailed, ownerVars
  <2>2. /\ hb'[w] = "failed" /\ mode'[w] = "select" /\ state'[w] = NoLease
        /\ lost'[w] = (lost[w] \/ mode[w] = "select")
        /\ \A v \in Worker : v # w => /\ hb'[v] = hb[v] /\ mode'[v] = mode[v]
                                      /\ lost'[v] = lost[v] /\ state'[v] = state[v]
    BY <1>t, <2>1, RenewedFields
  <2>3. /\ \A r \in stray' : \/ r \in stray
                             \/ call[w]["heartbeat"].st = "sent" /\ r = call[w]["heartbeat"].req
        /\ \A v \in Worker : v # w => \A r \in stray' : r.by = v => r \in stray
    BY <1>t, <2>1, OneAbandons
  <2>6. phase[w] \in {"active", "joining"}
    BY <1>f, <2>1 DEF Conduct, OwnerSane, Phase
  <2>7. Conduct(w)'
    <3>1. OwnerSane(w)'
      BY <1>t, <1>f, <2>1, <2>2, <2>3, <2>6 DEF Conduct, OwnerSane, LockFree, Hears
    <3>2. TasksApart(w)'
      BY <1>t, <1>f, <2>1, <2>2, <2>3, <2>6 DEF Conduct, OwnerSane, TasksApart, LockFree, Hears
    <3>3. LeftBehind(w)'
      BY <1>t, <1>f, <2>1, <2>2, <2>3, <2>6 DEF Conduct, OwnerSane, TasksApart, LeftBehind, LockFree, Hears
    <3>4. Told(w)'
      BY <1>t, <1>f, <2>1, <2>2, <2>3, <2>6 DEF Conduct, OwnerSane, Told, Hears
    <3> QED BY <3>1, <3>2, <3>3, <3>4 DEF Conduct
  <2> QED BY <2>1, <2>2, <2>3, <2>7 DEF Rest
<1> QED BY <1>1, <1>2, <1>3, <1>4, <1>5, <1>6 DEF HeartbeatStep

LEMMA PublisherConduct ==
    ASSUME IndInv, NEW w \in Worker, Conduct(w), PublisherStep(w)
    PROVE  Conduct(w)' /\ \A v \in Worker : v # w => Rest(v)
<1> USE CallMakers
<1>t. /\ TypeOK /\ TokensBehindRow
      /\ {"owner", "heartbeat", "publisher"} = Task
      /\ \A t \in Task : call[w][t] \in Call
  BY DEF IndInv, TypeOK, Task
<1>f. phase \in [Worker -> Phase] /\ state \in [Worker -> Lease]
  BY <1>t DEF TypeOK
<1>1. CASE Publish(w)
  <2>0. /\ phase[w] \notin {"idle", "acquiring"} /\ ~revoked[w] /\ LockFree(w) /\ state[w] # NoLease
        /\ UNCHANGED <<stray, phase, revoked, hb, mode, lost, dropped>>
    BY <1>1 DEF Publish, storeVars, ownerVars, heartbeatVars
  <2>1. CASE state' = [state EXCEPT ![w] = NoLease] /\ UNCHANGED call /\ erred' = erred \cup {w}
    <3>1. Conduct(w)'
      BY <1>f, <2>0, <2>1 DEF Conduct, OwnerSane, TasksApart, LeftBehind, Told, LockFree
    <3> QED BY <1>f, <2>0, <2>1, <3>1 DEF Rest
  <2>2. CASE Ask(w, "publisher", "publish", state[w], SuccessorExpiry(w)) /\ UNCHANGED <<state, erred>>
    <3>1. /\ call'[w]["publisher"].st = "sent" /\ call'[w]["publisher"].req.op = "publish"
          /\ call'[w]["publisher"].req.tok = state[w]
          /\ Hears(w, "publisher", call'[w]["publisher"])
          /\ \A v \in Worker : v # w => call'[v] = call[v]
      BY <1>t, <2>2, AskHears
    <3>3. Conduct(w)'
      BY <1>t, <1>f, <2>0, <2>2, <3>1
         DEF Conduct, OwnerSane, TasksApart, LeftBehind, Told, LockFree, Hears
    <3> QED BY <2>0, <2>2, <3>1, <3>3 DEF Rest
  <2> QED BY <1>1, <2>1, <2>2 DEF Publish
<1>2. CASE PublishAnswered(w)
  <2>1. /\ call[w]["publisher"] # NoCall /\ call'[w]["publisher"] = NoCall
        /\ Hears(w, "publisher", NoCall) /\ \A v \in Worker : v # w => call'[v] = call[v]
        /\ \A v \in Worker : v # w => state'[v] = state[v]
        /\ UNCHANGED <<stray, phase, revoked, hb, mode, lost, dropped>>
    BY <1>2, <1>t, <1>f, AnswerHears DEF PublishAnswered, storeVars, ownerVars, heartbeatVars
  <2>3. /\ erred \subseteq erred'
        /\ \/ call[w]["publisher"].st = "accepted" /\ state'[w] = call[w]["publisher"].tok
           \/ w \in erred'
    BY <1>2, <1>f DEF PublishAnswered
  <2>2. Conduct(w)'
    BY <1>t, <1>f, <2>1, <2>3 DEF Conduct, OwnerSane, TasksApart, LeftBehind, Told, LockFree, Hears
  <2> QED BY <2>1, <2>2, <2>3 DEF Rest
<1>3. CASE PublishFailed(w)
  <2>1. /\ call[w]["publisher"] # NoCall /\ call'[w]["publisher"] = NoCall
        /\ Hears(w, "publisher", NoCall) /\ \A v \in Worker : v # w => call'[v] = call[v]
        /\ state' = [state EXCEPT ![w] = NoLease] /\ erred' = erred \cup {w}
        /\ UNCHANGED <<phase, revoked, hb, mode, lost, dropped>>
        /\ Abandon({w}, {"publisher"})
    BY <1>3, <1>t, AnswerHears DEF PublishFailed, ownerVars, heartbeatVars
  <2>2. /\ \A r \in stray' : \/ r \in stray
                             \/ call[w]["publisher"].st = "sent" /\ r = call[w]["publisher"].req
        /\ \A v \in Worker : v # w => \A r \in stray' : r.by = v => r \in stray
    BY <1>t, <2>1, OneAbandons
  <2>3. Conduct(w)'
    BY <1>t, <1>f, <2>1, <2>2 DEF Conduct, OwnerSane, TasksApart, LeftBehind, Told, LockFree, Hears
  <2> QED BY <1>f, <2>1, <2>2, <2>3 DEF Rest
<1>4. CASE PublishDropped(w)
  <2>1. /\ call[w]["publisher"] # NoCall /\ call'[w]["publisher"] = NoCall
        /\ Hears(w, "publisher", NoCall) /\ \A v \in Worker : v # w => call'[v] = call[v]
        /\ dropped' = dropped \cup {state[w]}
        /\ UNCHANGED <<phase, state, revoked, hb, mode, lost, erred>>
        /\ Abandon({w}, {"publisher"})
    BY <1>4, <1>t, AnswerHears DEF PublishDropped, ownerVars, heartbeatVars
  <2>2. /\ \A r \in stray' : \/ r \in stray
                             \/ call[w]["publisher"].st = "sent" /\ r = call[w]["publisher"].req
        /\ \A v \in Worker : v # w => \A r \in stray' : r.by = v => r \in stray
    BY <1>t, <2>1, OneAbandons
  <2>3. Conduct(w)'
    BY <1>t, <1>f, <2>1, <2>2 DEF Conduct, OwnerSane, TasksApart, LeftBehind, Told, LockFree, Hears
  <2> QED BY <2>1, <2>2, <2>3 DEF Rest
<1> QED BY <1>1, <1>2, <1>3, <1>4 DEF PublisherStep

-----------------------------------------------------------------------------
(* The store, crashes and the rest.                                        *)

LEMMA ServeConduct ==
    ASSUME IndInv, NEW w \in Worker, NEW t \in Task, Conduct(w), Serve(w, t)
    PROVE  Conduct(w)' /\ \A v \in Worker : v # w => Rest(v)
<1>t. /\ TypeOK /\ TokensBehindRow
      /\ {"owner", "heartbeat", "publisher"} = Task
  BY DEF IndInv, TypeOK, Task
<1>1. /\ call[w][t].st = "sent"
      /\ UNCHANGED <<stray, phase, state, revoked, hb, mode, lost, erred, dropped>>
  BY DEF Serve, ownerVars, fenceVars, heartbeatVars, outcomeVars
<1>2. PICK accepted \in Verdicts(call[w][t].req) :
        call' = [call EXCEPT ![w][t] = IF accepted THEN Accepted(Returned(call[w][t].req)) ELSE Refused]
  BY DEF Serve
<1>3. /\ call'[w][t] = IF accepted THEN Accepted(Returned(call[w][t].req)) ELSE Refused
      /\ Hears(w, t, call'[w][t]) /\ \A v \in Worker : v # w => call'[v] = call[v]
  <2> DEFINE c == IF accepted THEN Accepted(Returned(call[w][t].req)) ELSE Refused
  <2>1. call' = [call EXCEPT ![w][t] = c]
    BY <1>2
  <2> HIDE DEF c
  <2>2. Hears(w, t, c) /\ call'[w][t] = c /\ \A v \in Worker : v # w => call'[v] = call[v]
    BY <1>t, <2>1, AnswerHears
  <2> QED BY <2>2 DEF c
<1>4. /\ call'[w][t].st \in {"accepted", "refused"}
      /\ call'[w][t] # NoCall /\ call[w][t] # NoCall
  BY <1>1, <1>3 DEF NoCall, Accepted, Refused
<1>6. call[w][t].req.op # "release" /\ call'[w][t].st = "accepted" => call'[w][t].tok # NoLease
  <2> DEFINE r == call[w][t].req
  <2>1. r \in Request /\ row.rev \in Nat
    BY <1>t, <1>1, CallForms, LeaseFields DEF TypeOK
  <2>2. r.op # "release" => Written(r).rev = row.rev + 1
    BY <2>1, Statements, RequestFields DEF Advanced, Op
  <2>3. r.op # "release" => Returned(r) # NoLease
    BY <2>1, <2>2 DEF Returned, NoLease
  <2> QED BY <1>3, <2>3 DEF Accepted, Refused
<1>5. Conduct(w)'
  BY <1>t, <1>1, <1>3, <1>4, <1>6
     DEF Conduct, OwnerSane, TasksApart, LeftBehind, Told, LockFree, Hears
<1> QED BY <1>1, <1>3, <1>5 DEF Rest

LEMMA CrashConduct ==
    ASSUME IndInv, NEW n \in Node, Crash(n), \A w \in Worker : Conduct(w)
    PROVE  \A w \in Worker : Conduct(w)'
<1> DEFINE dead == {w \in Worker : NodeOf[w] = n /\ phase[w] # "idle"}
<1>t. TypeOK /\ TokensBehindRow
  BY DEF IndInv
<1>1. /\ Abandon(dead, Task) /\ dead \in SUBSET Worker
      /\ call' = Cleared(call, dead, [t \in Task |-> NoCall])
      /\ state' = Cleared(state, dead, NoLease)
      /\ phase' = Cleared(phase, dead, "err")
      /\ revoked' = Cleared(revoked, dead, TRUE)
      /\ hb' = Cleared(hb, dead, "failed")
      /\ mode' = Cleared(mode, dead, "select")
      /\ lost' = Cleared(lost, dead, TRUE)
      /\ UNCHANGED <<erred, dropped>>
  BY DEF Crash, outcomeVars
<1> HIDE DEF dead
<1>2. \A r \in stray' : r \in stray \/ \E v \in dead : r.by = v
  <2>1. \A r \in stray' : r \in stray \/ \E v \in dead, t \in Task :
             call[v][t].st = "sent" /\ r = call[v][t].req
    BY <1>1, AbandonLeaves
  <2> QED BY <1>t, <1>1, <2>1 DEF TokensBehindRow
<1>3. ASSUME NEW w \in Worker, w \in dead
      PROVE  Conduct(w)'
  BY <1>1, <1>3, CallMakers DEF Cleared, Conduct, OwnerSane, TasksApart, LeftBehind, Told, LockFree, Task
<1>4. ASSUME NEW w \in Worker, w \notin dead
      PROVE  Conduct(w)'
  <2>1. Rest(w)
    BY <1>t, <1>1, <1>2, <1>4 DEF Cleared, Rest, TypeOK
  <2> QED BY <2>1, RestConduct
<1> QED BY <1>3, <1>4

Conducts == \A w \in Worker : Conduct(w)

LEMMA ConductInductive ==
    ASSUME IndInv, Conducts, [Next]_vars
    PROVE  Conducts'
<1>1. ASSUME NEW w \in Worker, Conduct(w)', \A v \in Worker : v # w => Rest(v)
      PROVE  Conducts'
  BY <1>1, RestConduct DEF Conducts
<1>2. ASSUME UNCHANGED <<call, phase, state, revoked, hb, mode, lost, erred, dropped>>, stray' \subseteq stray
      PROVE  Conducts'
  BY <1>2, RestConduct DEF Conducts, Rest
<1>3. CASE UNCHANGED vars
  BY <1>2, <1>3 DEF vars, outcomeVars, storeVars, ownerVars, fenceVars, heartbeatVars
<1>4. CASE Tick
  BY <1>2, <1>4 DEF Tick, outcomeVars, storeVars, ownerVars, fenceVars, heartbeatVars
<1>5. ASSUME NEW n \in Node, AdjustClock(n) \/ BeginRemoval(n) \/ RollbackRemoval(n)
      PROVE  Conducts'
  BY <1>2, <1>5 DEF AdjustClock, BeginRemoval, RollbackRemoval, outcomeVars, storeVars, ownerVars,
     fenceVars, heartbeatVars
<1>6. ASSUME NEW n \in Node, Crash(n)
      PROVE  Conducts'
  BY <1>6, CrashConduct DEF Conducts
<1>7. ASSUME NEW w \in Worker, OwnerStep(w) \/ HeartbeatStep(w) \/ PublisherStep(w)
      PROVE  Conducts'
  BY <1>1, <1>7, OwnerConduct, HeartbeatConduct, PublisherConduct DEF Conducts
<1>8. ASSUME NEW w \in Worker, NEW t \in Task, Serve(w, t)
      PROVE  Conducts'
  BY <1>1, <1>8, ServeConduct DEF Conducts
<1>9. ASSUME NEW r \in stray, ServeStray(r)
      PROVE  Conducts'
  BY <1>2, <1>9 DEF ServeStray, outcomeVars, ownerVars, fenceVars, heartbeatVars
<1> QED BY <1>3, <1>4, <1>5, <1>6, <1>7, <1>8, <1>9 DEF Next

LEMMA ConductInitially == Init => Conducts
BY CallMakers DEF Init, Conducts, Conduct, OwnerSane, TasksApart, LeftBehind, Told, LockFree, Task, NoCall

LEMMA ConductAlways == Spec => [](IndInv /\ Conducts)
<1>1. IndInv /\ Conducts /\ [Next]_vars => (IndInv /\ Conducts)'
  BY Inductive, ConductInductive
<1> QED BY <1>1, Initially, ConductInitially, PTL DEF Spec

-----------------------------------------------------------------------------
(* The end of a lease.                                                     *)

\* A clean release leaves no renewal behind, and a heartbeat's end is no secret
\* (ActiveJobLease::release, the heartbeat's select!).
THEOREM EndsAreTold == Spec => []EndIsTold
<1>1. IndInv /\ Conducts => EndIsTold
  BY DEF Conducts, Conduct, OwnerSane, LeftBehind, Told, EndIsTold, CleanReleaseIsFinal,
     OrphanedJobIsTold
<1> QED BY <1>1, ConductAlways, PTL

-----------------------------------------------------------------------------
(* A worker's own token.                                                   *)

\* The row itself, or somebody else has moved it on, or a publication with it was
\* dropped.
Fresh(tok) == row = tok \/ Superseded(tok) \/ tok \in dropped

\* A release left behind presents a token that was the sender's.
ReleasesBehind == \A r \in stray : r.op = "release" => Behind(r.by, r.tok)

\* Every request on its way that presents a token.
OnItsWay(r) == r \in stray \/ \E w \in Worker, t \in Task : call[w][t].st = "sent" /\ r = call[w][t].req

LEMMA PresentsBehind ==
    ASSUME IndInv, Conducts, ReleasesBehind, NEW r, OnItsWay(r), r.op # "acquire"
    PROVE  r \in Request /\ Behind(r.by, r.tok)
<1>t. TypeOK /\ TokensBehindRow
  BY DEF IndInv
<1>1. CASE r \in stray
  <2>1. r \in Request
    BY <1>1, <1>t DEF TypeOK
  <2> QED BY <1>1, <1>t, <2>1 DEF ReleasesBehind, TokensBehindRow, RequestSound, Request, Op
<1>2. ASSUME NEW w \in Worker, NEW t \in Task, call[w][t].st = "sent", r = call[w][t].req
      PROVE  r \in Request /\ Behind(r.by, r.tok)
  <2>1. call[w][t] \in Call /\ r \in Request /\ r.by = w /\ RequestSound(r)
    BY <1>t, <1>2, CallForms DEF TypeOK, TokensBehindRow
  <2>2. CASE t = "owner"
    <3>1. phase[w] = "releasing" /\ r.tok = state[w] /\ state[w] # NoLease
      BY <1>2, <2>2 DEF Conducts, Conduct, OwnerSane, NoCall
    <3> QED BY <1>t, <2>1, <3>1 DEF TokensBehindRow
  <2>3. CASE t # "owner"
    BY <1>2, <2>1, <2>3 DEF Task, Conducts, Conduct, TasksApart, RequestSound
  <2> QED BY <2>2, <2>3
<1> QED BY <1>1, <1>2 DEF OnItsWay

LEMMA TasksLeaveRow ==
    ASSUME NEW w \in Worker, OwnerStep(w) \/ HeartbeatStep(w) \/ PublisherStep(w)
    PROVE  UNCHANGED <<row, grantee>>
<1>1. CASE OwnerStep(w)
  BY <1>1 DEF OwnerStep, Acquire, Acquired, NotAcquired, Release, Joined, Released,
     ReleaseFailed, Drop, storeVars
<1>2. CASE HeartbeatStep(w)
  BY <1>2 DEF HeartbeatStep, Heartbeat, HeartbeatCancelled, HeartbeatExpired, Renew,
     RenewAnswered, RenewFailed, storeVars
<1>3. CASE PublisherStep(w)
  BY <1>3 DEF PublisherStep, Publish, PublishAnswered, PublishFailed, PublishDropped, storeVars
<1> QED BY <1>1, <1>2, <1>3

LEMMA TasksDropMore ==
    ASSUME NEW w \in Worker, OwnerStep(w) \/ HeartbeatStep(w) \/ PublisherStep(w)
    PROVE  dropped \subseteq dropped'
<1>1. CASE PublisherStep(w)
  BY <1>1 DEF PublisherStep, Publish, PublishAnswered, PublishFailed, PublishDropped
<1> QED BY <1>1, OutcomesStay

LEMMA RowFlows == ASSUME IndInv, [Next]_vars PROVE RowFlow
<1>1. ASSUME NEW r \in Request, OnItsWay(r), Accepts(r), Execute(r, TRUE)
      PROVE  RowFlow
  <2>1. RequestSound(r)
    BY <1>1 DEF OnItsWay, IndInv, TokensBehindRow
  <2> QED BY <1>1, <2>1, ExecuteKeepsBehind DEF IndInv, RowFlow
<1>2. ASSUME NEW n \in Node, BeginRemoval(n)
      PROVE  RowFlow
  BY <1>2, RemovalKeepsBehind DEF IndInv, RowFlow
<1> QED BY <1>1, <1>2, RowSteps DEF RowFlow, OnItsWay

LEMMA ReleasesInductive ==
    ASSUME IndInv, Conducts, ReleasesBehind, [Next]_vars
    PROVE  ReleasesBehind'
<1>1. RowFlow /\ StrayFlow
  BY RowFlows, EverythingExtends
<1>2. ASSUME NEW r \in stray', r.op = "release"
      PROVE  BehindRow(r.by, r.tok, row', grantee')
  <2>1. OnItsWay(r)
    BY <1>1 DEF StrayFlow, OnItsWay
  <2>2. r \in Request /\ Behind(r.by, r.tok)
    BY <1>2, <2>1, PresentsBehind
  <2> QED BY <1>1, <2>2, RequestFields DEF RowFlow, Behind
<1> QED BY <1>2 DEF ReleasesBehind, Behind

\* Nobody but the worker itself moves the row and leaves its token looking right.
LEMMA FreshStays ==
    ASSUME IndInv, NEW w \in Worker, NEW tok \in Lease, Behind(w, tok), Fresh(tok),
           NEW r \in Request, r.op # "acquire" => Behind(r.by, r.tok) /\ r.by # w,
           Accepts(r), Execute(r, TRUE), UNCHANGED dropped
    PROVE  Fresh(tok)'
<1> USE ConstantAssumption
<1>1. row \in Lease /\ row' = Written(r) /\ r.op \in Op
  BY RequestFields DEF IndInv, TypeOK, Execute
<1>2. /\ row.fence \in Nat /\ tok.fence \in Nat /\ tok.fence <= row.fence
      /\ row.rev \in Nat /\ tok.rev \in Nat
  BY <1>1, LeaseFields DEF Behind, BehindRow
<1>3. CASE r.op = "acquire"
  <2>1. row'.fence = row.fence + 1
    BY <1>1, <1>3, Statements
  <2> QED BY <1>2, <2>1 DEF Fresh, Superseded
<1>4. CASE r.op # "acquire"
  <2>1. row = r.tok /\ row'.fence = row.fence /\ row'.owner = row.owner
    BY <1>1, <1>4, Statements DEF Op, Advanced
  <2>2. grantee = r.by
    BY <1>2, <1>4, <2>1 DEF Behind, BehindRow
  <2>3. row # tok
    BY <1>2, <1>4, <2>2 DEF Behind, BehindRow
  <2> QED BY <2>1, <2>3 DEF Fresh, Superseded
<1> QED BY <1>3, <1>4

LEMMA FreshThroughRemoval ==
    ASSUME NEW w \in Worker, NEW tok \in Lease, Behind(w, tok), Fresh(tok),
           NEW n \in Node, BeginRemoval(n)
    PROVE  Fresh(tok)'
<1>0. UNCHANGED dropped
  BY DEF BeginRemoval, outcomeVars
<1>1. tok.owner \in Node /\ tok.owner # NoOwner
  BY ConstantAssumption DEF Behind, BehindRow
<1>2. row' = row \/ row'.owner = NoOwner
  BY DEF BeginRemoval
<1> QED BY <1>0, <1>1, <1>2 DEF Fresh, Superseded

\* The tokens a worker may yet present: those on their way, those it has been
\* answered with, and the one in its fence while nothing is on its way.
CurrentTokens(w) ==
    /\ \A t \in {"heartbeat", "publisher"} :
         /\ call[w][t].st = "sent" => Fresh(call[w][t].req.tok)
         /\ call[w][t].st = "accepted" /\ call[w][t].tok # NoLease => Fresh(call[w][t].tok)
    /\ phase[w] = "acquiring" /\ call[w]["owner"].st = "accepted" /\ call[w]["owner"].tok # NoLease =>
         Fresh(call[w]["owner"].tok)
    /\ LockFree(w) /\ ~revoked[w] /\ state[w] # NoLease => Fresh(state[w])

\* Where those tokens come from in a step of the worker's own tasks.
TokenMoves(w) ==
    /\ \A t \in {"heartbeat", "publisher"} :
         \/ call'[w][t] = call[w][t]
         \/ call'[w][t] = NoCall
         \/ /\ call'[w][t].st = "sent" /\ call'[w][t].req.tok = state[w]
            /\ LockFree(w) /\ ~revoked[w] /\ state[w] # NoLease
    /\ phase'[w] = "acquiring" /\ call'[w]["owner"].st = "accepted" =>
         phase[w] = "acquiring" /\ call'[w]["owner"] = call[w]["owner"]
    /\ ~revoked'[w] /\ state'[w] # NoLease =>
         \/ /\ ~revoked[w] /\ state'[w] = state[w]
            /\ LockFree(w)' => LockFree(w) \/ state[w] \in dropped'
         \/ \E t \in {"heartbeat", "publisher"} :
              /\ ~revoked[w]
              /\ call[w][t].st = "accepted" /\ state'[w] = call[w][t].tok
         \/ /\ phase[w] = "acquiring"
            /\ call[w]["owner"].st = "accepted" /\ state'[w] = call[w]["owner"].tok

LEMMA OwnerMoves ==
    ASSUME IndInv, NEW w \in Worker, Conduct(w), OwnerStep(w)
    PROVE  TokenMoves(w)
<1> USE CallMakers
<1>t. /\ TypeOK /\ {"owner", "heartbeat", "publisher"} = Task
  BY DEF IndInv, Task
<1>f. /\ phase \in [Worker -> Phase] /\ state \in [Worker -> Lease] /\ revoked \in [Worker -> BOOLEAN]
  BY <1>t DEF TypeOK
<1>1. CASE Acquire(w) \/ Joined(w) \/ ReleaseFailed(w) \/ NotAcquired(w) \/ Released(w)
  <2>1. UNCHANGED <<state, revoked>>
    BY <1>1 DEF Acquire, Joined, ReleaseFailed, NotAcquired, Released, fenceVars
  <2>2. \A t \in {"heartbeat", "publisher"} : call'[w][t] = call[w][t]
    <3>1. ASSUME Ask(w, "owner", "acquire", NoLease, Clock(NodeOf[w]) + TTL)
                 \/ Ask(w, "owner", "release", state[w], 0)
          PROVE  \A t \in {"heartbeat", "publisher"} : call'[w][t] = call[w][t]
      BY <1>t, <3>1, AskHears DEF Hears
    <3>2. ASSUME call' = [call EXCEPT ![w]["owner"] = NoCall]
          PROVE  \A t \in {"heartbeat", "publisher"} : call'[w][t] = call[w][t]
      BY <1>t, <3>2, AnswerHears DEF Hears
    <3> QED BY <1>1, <3>1, <3>2 DEF Acquire, Joined, ReleaseFailed, NotAcquired, Released
  <2>3. call'[w]["owner"].st = "accepted" => call'[w]["owner"] = call[w]["owner"]
    <3>1. ASSUME Ask(w, "owner", "acquire", NoLease, Clock(NodeOf[w]) + TTL)
                 \/ Ask(w, "owner", "release", state[w], 0)
          PROVE  call'[w]["owner"].st # "accepted"
      BY <1>t, <3>1, AskHears
    <3>2. ASSUME call' = [call EXCEPT ![w]["owner"] = NoCall]
          PROVE  call'[w]["owner"].st # "accepted"
      BY <1>t, <3>2, AnswerHears
    <3> QED BY <1>1, <3>1, <3>2 DEF Acquire, Joined, ReleaseFailed, NotAcquired, Released
  <2>4. phase'[w] = "acquiring" => phase[w] = "acquiring" \/ call'[w]["owner"].st # "accepted"
    <3>1. CASE Acquire(w)
      BY <1>t, <3>1, AskHears DEF Acquire
    <3>2. CASE Joined(w) \/ ReleaseFailed(w) \/ NotAcquired(w) \/ Released(w)
      BY <1>f, <3>2 DEF Joined, ReleaseFailed, NotAcquired, Released, Returns, Outcome
    <3> QED BY <1>1, <3>1, <3>2
  <2> QED BY <2>1, <2>2, <2>3, <2>4 DEF TokenMoves, LockFree
<1>2. CASE Acquired(w)
  <2>1. Hears(w, "owner", NoCall)
    BY <1>2, <1>t, AnswerHears DEF Acquired
  <2>2. /\ phase[w] = "acquiring" /\ phase'[w] = "active"
        /\ call[w]["owner"].st = "accepted" /\ state'[w] = call[w]["owner"].tok
    BY <1>2, <1>f DEF Acquired
  <2> QED BY <1>t, <2>1, <2>2 DEF TokenMoves, Hears
<1>3. CASE Release(w)
  BY <1>3, <1>f DEF Release, TokenMoves, Phase
<1>4. CASE Drop(w)
  <2>1. phase'[w] = "err" /\ revoked'[w]
    BY <1>4, <1>f DEF Drop
  <2>2. /\ call'[w]["heartbeat"] = NoCall /\ call'[w]["publisher"] = call[w]["publisher"]
    BY <1>4, <1>t DEF Drop, TypeOK
  <2> QED BY <2>1, <2>2 DEF TokenMoves
<1> QED BY <1>1, <1>2, <1>3, <1>4 DEF OwnerStep

LEMMA OthersMove ==
    ASSUME IndInv, NEW w \in Worker, Conduct(w), HeartbeatStep(w) \/ PublisherStep(w)
    PROVE  TokenMoves(w)
<1> USE CallMakers
<1>t. /\ TypeOK /\ {"owner", "heartbeat", "publisher"} = Task
  BY DEF IndInv, Task
<1>f. /\ state \in [Worker -> Lease] /\ revoked \in [Worker -> BOOLEAN]
  BY <1>t DEF TypeOK
<1>0. ASSUME UNCHANGED phase, call'[w]["owner"] = call[w]["owner"]
      PROVE  phase'[w] = "acquiring" /\ call'[w]["owner"].st = "accepted" =>
               phase[w] = "acquiring" /\ call'[w]["owner"] = call[w]["owner"]
  BY <1>0
<1>1. CASE Heartbeat(w) \/ HeartbeatCancelled(w) \/ HeartbeatExpired(w)
  <2>1. UNCHANGED <<call, state, phase>> /\ (~revoked'[w] => ~revoked[w])
    BY <1>1, <1>f DEF Heartbeat, HeartbeatCancelled, HeartbeatExpired, ownerVars, fenceVars
  <2> QED BY <2>1 DEF TokenMoves, LockFree
<1>4. CASE Renew(w)
  <2>0. LockFree(w) /\ UNCHANGED <<phase, revoked>>
    BY <1>4 DEF Renew, ownerVars
  <2>1. ASSUME NEW result \in {"false", "err"}, NEW tok \in {state[w], NoLease},
               Renewed(w, result, tok), UNCHANGED call
        PROVE  TokenMoves(w)
    <3>1. state'[w] \in {state[w], NoLease}
      BY <1>t, <2>1, RenewedFields
    <3> QED BY <2>0, <2>1, <3>1 DEF TokenMoves, LockFree
  <2>2. CASE /\ ~revoked[w] /\ state[w] # NoLease
             /\ Ask(w, "heartbeat", "renew", state[w], Clock(NodeOf[w]) + TTL)
             /\ UNCHANGED <<lost, state, mode, deadline>>
    <3>1. /\ call'[w]["heartbeat"].st = "sent" /\ call'[w]["heartbeat"].req.tok = state[w]
          /\ Hears(w, "heartbeat", call'[w]["heartbeat"])
      BY <1>t, <2>2, AskHears
    <3> QED BY <1>t, <2>0, <2>2, <3>1 DEF TokenMoves, Hears
  <2> QED BY <1>4, <2>1, <2>2 DEF Renew
<1>5. CASE RenewAnswered(w)
  <2>1. /\ Hears(w, "heartbeat", NoCall) /\ UNCHANGED phase
    BY <1>5, <1>t, AnswerHears DEF RenewAnswered, ownerVars
  <2>2. state'[w] = NoLease \/ (call[w]["heartbeat"].st = "accepted" /\ state'[w] = call[w]["heartbeat"].tok)
    BY <1>5, <1>t, RenewedFields DEF RenewAnswered
  <2>3. ~revoked'[w] => ~revoked[w]
    BY <1>5, <1>f DEF RenewAnswered
  <2> QED BY <1>t, <2>1, <2>2, <2>3 DEF TokenMoves, Hears
<1>6. CASE RenewFailed(w)
  <2>1. /\ Hears(w, "heartbeat", NoCall) /\ UNCHANGED phase /\ state'[w] = NoLease
    BY <1>6, <1>t, AnswerHears, RenewedFields DEF RenewFailed, ownerVars
  <2> QED BY <1>t, <2>1 DEF TokenMoves, Hears
<1>7. CASE Publish(w)
  <2>0. LockFree(w) /\ ~revoked[w] /\ state[w] # NoLease /\ UNCHANGED <<phase, revoked>>
    BY <1>7 DEF Publish, ownerVars
  <2>1. CASE state' = [state EXCEPT ![w] = NoLease] /\ UNCHANGED call
    BY <1>f, <2>0, <2>1 DEF TokenMoves
  <2>2. CASE Ask(w, "publisher", "publish", state[w], SuccessorExpiry(w)) /\ UNCHANGED state
    <3>1. /\ call'[w]["publisher"].st = "sent" /\ call'[w]["publisher"].req.tok = state[w]
          /\ Hears(w, "publisher", call'[w]["publisher"])
      BY <1>t, <2>2, AskHears
    <3> QED BY <1>t, <2>0, <2>2, <3>1 DEF TokenMoves, Hears
  <2> QED BY <1>7, <2>1, <2>2 DEF Publish
<1>8. CASE PublishAnswered(w)
  <2>1. /\ Hears(w, "publisher", NoCall) /\ UNCHANGED <<phase, revoked>>
    BY <1>8, <1>t, AnswerHears DEF PublishAnswered, ownerVars
  <2>2. state'[w] = NoLease \/ (call[w]["publisher"].st = "accepted" /\ state'[w] = call[w]["publisher"].tok)
    BY <1>8, <1>f DEF PublishAnswered
  <2> QED BY <1>t, <2>1, <2>2 DEF TokenMoves, Hears
<1>9. CASE PublishFailed(w)
  <2>1. /\ Hears(w, "publisher", NoCall) /\ UNCHANGED phase /\ state'[w] = NoLease
    BY <1>9, <1>t, <1>f, AnswerHears DEF PublishFailed, ownerVars
  <2> QED BY <1>t, <2>1 DEF TokenMoves, Hears
<1>10. CASE PublishDropped(w)
  <2>1. /\ Hears(w, "publisher", NoCall) /\ UNCHANGED <<phase, state, revoked>>
        /\ state[w] \in dropped'
    BY <1>10, <1>t, AnswerHears DEF PublishDropped, ownerVars
  <2> QED BY <1>t, <2>1 DEF TokenMoves, Hears
<1> QED BY <1>1, <1>4, <1>5, <1>6, <1>7, <1>8, <1>9, <1>10 DEF HeartbeatStep, PublisherStep

FreshAfter(tok) ==
    row' = tok \/ row'.fence # tok.fence \/ row'.owner # tok.owner \/ tok \in dropped'

\* A worker the step leaves alone keeps its tokens fresh if the row lets it.
LEMMA StillCurrent ==
    ASSUME IndInv, NEW w \in Worker, Conduct(w), CurrentTokens(w),
           call'[w] = call[w], phase'[w] = phase[w], state'[w] = state[w], revoked'[w] = revoked[w],
           \A tok \in Lease : Behind(w, tok) /\ Fresh(tok) => FreshAfter(tok)
    PROVE  CurrentTokens(w)'
<1>1. /\ state[w] \in Lease /\ \A t \in Task : call[w][t] \in Call
      /\ {"owner", "heartbeat", "publisher"} = Task
  BY DEF IndInv, TypeOK, Task
<1>2. ASSUME NEW t \in {"heartbeat", "publisher"}, call[w][t].st = "sent"
      PROVE  call[w][t].req.tok \in Lease /\ Behind(w, call[w][t].req.tok)
  <2>1. call[w][t].req \in Request /\ call[w][t].req.by = w /\ RequestSound(call[w][t].req)
    BY <1>1, <1>2, CallForms DEF IndInv, TokensBehindRow
  <2>2. call[w][t].req.op \in {"renew", "publish"}
    BY <1>2 DEF Conduct, TasksApart
  <2> QED BY <2>1, <2>2, RequestFields DEF RequestSound
<1>3. ASSUME NEW t \in Task, call[w][t].st = "accepted", call[w][t].tok # NoLease
      PROVE  call[w][t].tok \in Lease /\ Behind(w, call[w][t].tok)
  BY <1>1, <1>3, CallForms DEF IndInv, TokensBehindRow
<1>4. state[w] # NoLease => Behind(w, state[w])
  BY DEF IndInv, TokensBehindRow
<1>5. ASSUME NEW t \in {"heartbeat", "publisher"}
      PROVE  /\ call'[w][t].st = "sent" => FreshAfter(call'[w][t].req.tok)
             /\ call'[w][t].st = "accepted" /\ call'[w][t].tok # NoLease => FreshAfter(call'[w][t].tok)
  BY <1>1, <1>2, <1>3, <1>5 DEF CurrentTokens
<1>6. phase'[w] = "acquiring" /\ call'[w]["owner"].st = "accepted" /\ call'[w]["owner"].tok # NoLease =>
        FreshAfter(call'[w]["owner"].tok)
  BY <1>1, <1>3 DEF CurrentTokens
<1>7. LockFree(w)' /\ ~revoked'[w] /\ state'[w] # NoLease => FreshAfter(state'[w])
  BY <1>1, <1>4 DEF CurrentTokens, LockFree
<1> QED BY <1>5, <1>6, <1>7 DEF CurrentTokens, Fresh, FreshAfter, Superseded

\* A worker's own tasks only pass its fresh tokens around.
LEMMA MovedCurrent ==
    ASSUME NEW w \in Worker, CurrentTokens(w), TokenMoves(w), row' = row,
           dropped \subseteq dropped'
    PROVE  CurrentTokens(w)'
<1>1. \A tok : Fresh(tok) \/ tok \in dropped' => FreshAfter(tok)
  BY DEF Fresh, FreshAfter, Superseded
<1>2. NoCall.st = "none"
  BY CallMakers
<1>3. ASSUME NEW t \in {"heartbeat", "publisher"}
      PROVE  /\ call'[w][t].st = "sent" => Fresh(call'[w][t].req.tok)
             /\ call'[w][t].st = "accepted" /\ call'[w][t].tok # NoLease => Fresh(call'[w][t].tok)
  BY <1>2, <1>3 DEF CurrentTokens, TokenMoves
<1>4. phase'[w] = "acquiring" /\ call'[w]["owner"].st = "accepted" /\ call'[w]["owner"].tok # NoLease =>
        Fresh(call'[w]["owner"].tok)
  BY DEF CurrentTokens, TokenMoves
<1>5. LockFree(w)' /\ ~revoked'[w] /\ state'[w] # NoLease =>
        Fresh(state'[w]) \/ state'[w] \in dropped'
  BY DEF CurrentTokens, TokenMoves
<1> QED BY <1>1, <1>3, <1>4, <1>5 DEF CurrentTokens, Fresh, FreshAfter, Superseded

\* A worker whose own request moves the row from behind its back has no token left.
LEMMA NothingLeft ==
    ASSUME NEW w \in Worker, LockFree(w)', phase'[w] # "acquiring", revoked'[w] \/ state'[w] = NoLease
    PROVE  CurrentTokens(w)'
BY CallMakers DEF CurrentTokens, LockFree

\* Another worker's statement, or an acquire, leaves this worker's tokens fresh.
LEMMA OthersCurrent ==
    ASSUME IndInv, Conducts, ReleasesBehind, NEW w \in Worker, CurrentTokens(w),
           call'[w] = call[w], phase'[w] = phase[w], state'[w] = state[w], revoked'[w] = revoked[w],
           NEW r \in Request, OnItsWay(r), r.op = "acquire" \/ r.by # w,
           NEW accepted \in Verdicts(r), Execute(r, accepted), UNCHANGED dropped
    PROVE  CurrentTokens(w)'
<1>1. accepted \in BOOLEAN /\ (accepted => Accepts(r))
  BY VerdictType
<1>2. \A tok \in Lease : Behind(w, tok) /\ Fresh(tok) => FreshAfter(tok)
  <2>1. CASE accepted = FALSE
    BY <2>1 DEF Execute, Fresh, FreshAfter, Superseded
  <2>2. CASE accepted = TRUE
    <3>1. r.op # "acquire" => Behind(r.by, r.tok) /\ r.by # w
      BY PresentsBehind
    <3> QED BY <1>1, <2>2, <3>1, FreshStays DEF Fresh, FreshAfter, Superseded
  <2> QED BY <1>1, <2>1, <2>2
<1> QED BY <1>2, StillCurrent DEF Conducts

\* A publication the worker dropped outdates only the token it was dropped with.
LEMMA DroppedCurrent ==
    ASSUME IndInv, NEW w \in Worker, Conduct(w), CurrentTokens(w),
           call'[w] = call[w], phase'[w] = phase[w], state'[w] = state[w], revoked'[w] = revoked[w],
           NEW r \in Request, r.op = "publish", r.tok \in dropped,
           NEW accepted \in Verdicts(r), Execute(r, accepted), UNCHANGED dropped
    PROVE  CurrentTokens(w)'
<1>1. accepted \in BOOLEAN /\ (accepted => Accepts(r))
  BY VerdictType
<1>2. CASE accepted = FALSE
  BY <1>2, StillCurrent DEF Execute, Fresh, FreshAfter, Superseded
<1>3. CASE accepted = TRUE
  <2>1. row = r.tok /\ row'.fence = row.fence /\ row'.owner = row.owner
    BY <1>1, <1>3, Statements DEF Op, Advanced, Execute
  <2>2. \A tok \in Lease : Fresh(tok) => FreshAfter(tok)
    BY <2>1 DEF Fresh, FreshAfter, Superseded
  <2> QED BY <2>2, StillCurrent
<1> QED BY <1>1, <1>2, <1>3

\* The caller whose statement executes is answered with the row it wrote.
LEMMA ServedCurrent ==
    ASSUME IndInv, NEW w \in Worker, Conduct(w), CurrentTokens(w), NEW t \in Task, Serve(w, t)
    PROVE  CurrentTokens(w)'
<1> DEFINE r == call[w][t].req
<1> USE CallMakers
<1>t. /\ TypeOK /\ {"owner", "heartbeat", "publisher"} = Task
      /\ call[w][t].st = "sent" /\ r \in Request /\ RequestSound(r)
      /\ UNCHANGED <<phase, state, revoked, dropped>>
  BY CallForms DEF IndInv, TypeOK, TokensBehindRow, Serve, Task, outcomeVars, ownerVars, fenceVars
<1>1. PICK accepted \in Verdicts(r) :
        /\ Execute(r, accepted)
        /\ call' = [call EXCEPT ![w][t] = IF accepted THEN Accepted(Returned(r)) ELSE Refused]
  BY DEF Serve
<1>2. accepted \in BOOLEAN /\ (accepted => Accepts(r))
  BY <1>t, VerdictType
<1>o. call[w][t].req = r
  OBVIOUS
<1> HIDE DEF r
<1>3. CASE accepted = FALSE
  <2>1. Hears(w, t, Refused)
    BY <1>t, <1>1, <1>3, AnswerHears
  <2>2. row' = row
    BY <1>1, <1>3 DEF Execute
  <2>3. LockFree(w)' => t = "owner"
    BY <1>t, <2>1 DEF LockFree, Hears, Refused, NoCall
  <2>4. \A u \in Task : call'[w][u] = call[w][u] \/ call'[w][u] = Refused
    BY <2>1 DEF Hears
  <2> QED BY <1>t, <2>1, <2>2, <2>3, <2>4 DEF CurrentTokens, Hears, Fresh, Superseded, LockFree
<1>4. CASE accepted = TRUE
  <2>1. Accepts(r) /\ row' = Written(r) /\ Returned(r) \in Lease
    BY <1>t, <1>1, <1>2, <1>4, WrittenType DEF Execute
  <2> DEFINE tok == Returned(r)
  <2>2. tok \in {row', NoLease}
    BY <2>1 DEF Returned
  <2>3. call' = [call EXCEPT ![w][t] = Accepted(tok)]
    BY <1>1, <1>4
  <2> HIDE DEF tok
  <2>4. /\ Hears(w, t, Accepted(tok)) /\ Accepted(tok) # NoCall
        /\ Accepted(tok).st = "accepted" /\ Accepted(tok).tok = tok
    BY <1>t, <2>3, AnswerHears DEF Accepted, NoCall
  <2>5. call[w][t] # NoCall
    BY <1>t
  <2>6. CASE t = "owner"
    <3>1. LockFree(w) /\ revoked[w]
      BY <2>5, <2>6 DEF Conduct, OwnerSane
    <3>2. /\ call'[w]["heartbeat"] = NoCall /\ call'[w]["publisher"] = NoCall
          /\ call'[w]["owner"] = Accepted(tok)
      BY <1>t, <2>4, <2>6, <3>1 DEF Hears, LockFree
    <3> QED BY <1>t, <2>2, <2>4, <3>1, <3>2 DEF CurrentTokens, Fresh
  <2>7. CASE t # "owner"
    <3>1. phase[w] # "acquiring"
      BY <1>t, <2>5, <2>7 DEF Conduct, OwnerSane, LockFree
    <3>2. \A u \in {"heartbeat", "publisher"} : u # t => call[w][u] = NoCall
      BY <1>t, <2>5, <2>7 DEF Conduct, TasksApart
    <3>3. \A u \in {"heartbeat", "publisher"} : call'[w][u] = IF u = t THEN Accepted(tok) ELSE NoCall
      BY <1>t, <2>4, <3>2 DEF Hears
    <3>4. ~LockFree(w)'
      BY <1>t, <2>4, <2>7, <3>3 DEF LockFree
    <3> QED BY <1>t, <2>2, <2>4, <3>1, <3>3, <3>4 DEF CurrentTokens, Fresh
  <2> QED BY <2>6, <2>7
<1> QED BY <1>2, <1>3, <1>4

AllCurrent == \A w \in Worker : CurrentTokens(w)

LEMMA CurrentInductive ==
    ASSUME IndInv, Conducts, ReleasesBehind, AllCurrent, [Next]_vars
    PROVE  AllCurrent'
<1> USE DEF AllCurrent
<1>1. ASSUME UNCHANGED <<row, call, phase, state, revoked, dropped>>
      PROVE  AllCurrent'
  BY <1>1, StillCurrent DEF Conducts, Fresh, FreshAfter, Superseded
<1>2. CASE UNCHANGED vars
  BY <1>1, <1>2 DEF vars, outcomeVars, storeVars, ownerVars, fenceVars
<1>3. CASE Tick
  BY <1>1, <1>3 DEF Tick, outcomeVars, storeVars, ownerVars, fenceVars
<1>4. ASSUME NEW n \in Node, AdjustClock(n) \/ RollbackRemoval(n)
      PROVE  AllCurrent'
  BY <1>1, <1>4 DEF AdjustClock, RollbackRemoval, outcomeVars, storeVars, ownerVars, fenceVars
<1>5. ASSUME NEW n \in Node, BeginRemoval(n)
      PROVE  AllCurrent'
  <2>1. UNCHANGED <<call, phase, state, revoked>>
    BY <1>5 DEF BeginRemoval, ownerVars, fenceVars
  <2>2. \A w \in Worker, tok \in Lease : Behind(w, tok) /\ Fresh(tok) => FreshAfter(tok)
    BY <1>5, FreshThroughRemoval DEF Fresh, FreshAfter, Superseded
  <2> QED BY <2>1, <2>2, StillCurrent DEF Conducts
<1>6. ASSUME NEW n \in Node, Crash(n)
      PROVE  AllCurrent'
  <2> DEFINE dead == {w \in Worker : NodeOf[w] = n /\ phase[w] # "idle"}
  <2>1. /\ call' = Cleared(call, dead, [t \in Task |-> NoCall])
        /\ state' = Cleared(state, dead, NoLease)
        /\ phase' = Cleared(phase, dead, "err")
        /\ revoked' = Cleared(revoked, dead, TRUE)
        /\ row' = row /\ dropped' = dropped
    BY <1>6 DEF Crash, outcomeVars
  <2> HIDE DEF dead
  <2>2. ASSUME NEW w \in Worker, w \in dead
        PROVE  CurrentTokens(w)'
    <3>1. LockFree(w)' /\ phase'[w] = "err" /\ state'[w] = NoLease
      BY <2>1, <2>2 DEF Cleared, LockFree, Task
    <3> QED BY <3>1, NothingLeft
  <2>3. ASSUME NEW w \in Worker, w \notin dead
        PROVE  CurrentTokens(w)'
    <3>1. /\ call'[w] = call[w] /\ phase'[w] = phase[w]
          /\ state'[w] = state[w] /\ revoked'[w] = revoked[w]
      BY <2>1, <2>3 DEF Cleared
    <3> QED BY <2>1, <3>1, StillCurrent DEF Conducts, Fresh, FreshAfter, Superseded
  <2> QED BY <2>2, <2>3
<1>7. ASSUME NEW w \in Worker, OwnerStep(w) \/ HeartbeatStep(w) \/ PublisherStep(w)
      PROVE  AllCurrent'
  <2>1. TokenMoves(w) /\ \A v \in Worker : v # w => Rest(v)
    BY <1>7, OwnerMoves, OthersMove, OwnerConduct, HeartbeatConduct, PublisherConduct DEF Conducts
  <2>2. row' = row /\ dropped \subseteq dropped'
    BY <1>7, TasksLeaveRow, TasksDropMore
  <2>3. CurrentTokens(w)'
    BY <2>1, <2>2, MovedCurrent
  <2>4. ASSUME NEW v \in Worker, v # w
        PROVE  CurrentTokens(v)'
    BY <2>1, <2>2, <2>4, StillCurrent DEF Rest, Conducts, Fresh, FreshAfter, Superseded
  <2> QED BY <2>3, <2>4
<1>8. ASSUME NEW w \in Worker, NEW t \in Task, Serve(w, t)
      PROVE  AllCurrent'
  <2>1. call[w][t].st = "sent" /\ call[w][t].req \in Request /\ call[w][t].req.by = w
    BY <1>8, CallForms DEF Serve, IndInv, TypeOK, TokensBehindRow
  <2>2. (\E accepted \in Verdicts(call[w][t].req) : Execute(call[w][t].req, accepted))
        /\ UNCHANGED dropped
    BY <1>8 DEF Serve, outcomeVars
  <2>3. \A v \in Worker : v # w => Rest(v)
    BY <1>8, ServeConduct DEF Conducts
  <2>4. ASSUME NEW v \in Worker, v # w
        PROVE  CurrentTokens(v)'
    <3>1. OnItsWay(call[w][t].req)
      BY <2>1 DEF OnItsWay
    <3> QED BY <2>1, <2>2, <2>3, <2>4, <3>1, OthersCurrent DEF Rest
  <2>5. CurrentTokens(w)'
    BY <1>8, ServedCurrent DEF Conducts
  <2> QED BY <2>4, <2>5
<1>9. ASSUME NEW r \in stray, ServeStray(r)
      PROVE  AllCurrent'
  <2>1. r \in Request /\ OnItsWay(r) /\ UNCHANGED <<call, phase, state, revoked, dropped>>
    BY <1>9 DEF IndInv, TypeOK, OnItsWay, ServeStray, outcomeVars, ownerVars, fenceVars
  <2>2. PICK accepted \in Verdicts(r) : Execute(r, accepted)
    BY <1>9 DEF ServeStray
  <2>3. ASSUME NEW v \in Worker, r.op = "acquire" \/ r.by # v
        PROVE  CurrentTokens(v)'
    BY <2>1, <2>2, <2>3, OthersCurrent
  <2>4. ASSUME NEW v \in Worker, r.op # "acquire", r.by = v
        PROVE  CurrentTokens(v)'
    <3>1. CASE LockFree(v) /\ phase[v] # "acquiring" /\ (revoked[v] \/ state[v] = NoLease)
      BY <2>1, <3>1, NothingLeft DEF LockFree
    <3>2. CASE r.op = "publish" /\ r.tok \in dropped
      BY <2>1, <2>2, <2>4, <3>2, DroppedCurrent DEF Conducts
    <3> QED BY <1>9, <2>4, <3>1, <3>2 DEF Conducts, Conduct, LeftBehind
  <2> QED BY <2>3, <2>4
<1> QED BY <1>2, <1>3, <1>4, <1>5, <1>6, <1>7, <1>8, <1>9 DEF Next

TokensSettle == IndInv /\ Conducts /\ ReleasesBehind /\ AllCurrent

LEMMA TokensSettleAlways == Spec => []TokensSettle
<1>1. Init => ReleasesBehind /\ AllCurrent
  BY CallMakers DEF Init, ReleasesBehind, AllCurrent, CurrentTokens, Task, LockFree
<1>2. TokensSettle /\ [Next]_vars => TokensSettle'
  BY Inductive, ConductInductive, ReleasesInductive, CurrentInductive DEF TokensSettle
<1> QED BY <1>1, <1>2, Initially, ConductInitially, PTL DEF Spec, TokensSettle

\* A job fences itself off with nothing but a publication it dropped at its await:
\* neither its other task, nor a call that timed out or failed, nor a release can
\* have replaced the token a request presents (PublicationFence::renew and
\* fenced_call under the lock, ActiveJobLease::release).
THEOREM NeverFencesItself == Spec => []NeverSelfFenced
<1>1. TokensSettle => NeverSelfFenced
  BY DEF TokensSettle, AllCurrent, CurrentTokens, NeverSelfFenced, Fresh
<1> QED BY <1>1, TokensSettleAlways, PTL

-----------------------------------------------------------------------------
(* The authority to name artwork, which only the clock takes away.         *)

\* No request was stamped by a clock further ahead than the clocks ever are.
Timely(r) == r.at <= now + MaxSkew

RequestsTimely ==
    /\ \A r \in stray : Timely(r)
    /\ \A w \in Worker, t \in Task : call[w][t].st = "sent" => Timely(call[w][t].req)

\* No new call, or one stamped just now.
CallTimely ==
    \A w \in Worker, t \in Task :
        call'[w][t].st = "sent" =>
            call'[w][t] = call[w][t] \/ call'[w][t].req.at = Clock(NodeOf[w])

LEMMA AskTimely ==
    ASSUME TypeOK, NEW w \in Worker, NEW t \in Task, NEW op, NEW tok, NEW exp,
           Ask(w, t, op, tok, exp)
    PROVE  CallTimely
BY AskHears DEF CallTimely, Hears

\* Nothing but asking makes a request.
LEMMA AnswerTimely ==
    ASSUME TypeOK, NEW w \in Worker, NEW t \in Task, NEW c, c.st # "sent",
           call' = [call EXCEPT ![w][t] = c]
    PROVE  CallTimely
BY DEF TypeOK, CallTimely

LEMMA WorkersTimely ==
    ASSUME IndInv, NEW w \in Worker, OwnerStep(w) \/ HeartbeatStep(w) \/ PublisherStep(w)
    PROVE  CallTimely /\ now' = now
<1> USE CallMakers DEF IndInv, Task
<1>0. UNCHANGED call => CallTimely
  BY DEF CallTimely
<1>1. CASE Acquire(w) \/ Acquired(w) \/ NotAcquired(w) \/ Release(w)
  BY <1>0, <1>1, AskTimely, AnswerTimely
     DEF Acquire, Acquired, NotAcquired, Release, storeVars, clockVars
<1>2. CASE Joined(w)
  BY <1>0, <1>2, AskTimely DEF Joined, clockVars
<1>3. CASE Released(w) \/ ReleaseFailed(w)
  BY <1>3, AskTimely, AnswerTimely DEF Released, ReleaseFailed, clockVars
<1>4. CASE Drop(w)
  BY <1>4 DEF Drop, TypeOK, CallTimely, clockVars
<1>5. CASE Heartbeat(w) \/ HeartbeatCancelled(w) \/ HeartbeatExpired(w)
  BY <1>0, <1>5 DEF Heartbeat, HeartbeatCancelled, HeartbeatExpired, clockVars
<1>6. CASE Renew(w)
  BY <1>0, <1>6, AskTimely DEF Renew, clockVars
<1>7. CASE RenewAnswered(w) \/ RenewFailed(w)
  BY <1>7, AnswerTimely DEF RenewAnswered, RenewFailed, clockVars
<1>8. CASE Publish(w)
  BY <1>0, <1>8, AskTimely DEF Publish, clockVars
<1>9. CASE PublishAnswered(w) \/ PublishFailed(w) \/ PublishDropped(w)
  BY <1>9, AnswerTimely DEF PublishAnswered, PublishFailed, PublishDropped, clockVars
<1> QED BY <1>1, <1>2, <1>3, <1>4, <1>5, <1>6, <1>7, <1>8, <1>9
     DEF OwnerStep, HeartbeatStep, PublisherStep

LEMMA EverythingTimely ==
    ASSUME IndInv, [Next]_vars
    PROVE  CallTimely /\ now' \in Nat /\ now' >= now
<1>0. /\ UNCHANGED call => CallTimely
      /\ now \in Nat
  BY DEF CallTimely, IndInv, TypeOK
<1>1. CASE UNCHANGED vars
  BY <1>0, <1>1 DEF vars, clockVars
<1>2. CASE Tick
  BY <1>0, <1>2 DEF Tick
<1>3. ASSUME NEW n \in Node, AdjustClock(n) \/ BeginRemoval(n) \/ RollbackRemoval(n)
      PROVE  CallTimely /\ now' = now
  BY <1>0, <1>3 DEF AdjustClock, BeginRemoval, RollbackRemoval, clockVars
<1>4. ASSUME NEW n \in Node, Crash(n)
      PROVE  CallTimely /\ now' = now
  <2> DEFINE dead == {w \in Worker : NodeOf[w] = n /\ phase[w] # "idle"}
  <2>1. call' = Cleared(call, dead, [t \in Task |-> NoCall]) /\ now' = now
    BY <1>4 DEF Crash, clockVars
  <2> HIDE DEF dead
  <2> QED BY <2>1, CallMakers DEF Cleared, CallTimely
<1>5. ASSUME NEW w \in Worker, NEW t \in Task, Serve(w, t)
      PROVE  CallTimely /\ now' = now
  <2> DEFINE r == call[w][t].req
  <2>1. PICK accepted \in Verdicts(r) :
          call' = [call EXCEPT ![w][t] = IF accepted THEN Accepted(Returned(r)) ELSE Refused]
    BY <1>5 DEF Serve
  <2>2. \A v \in Worker, u \in Task :
          call'[v][u] = call[v][u] \/ call'[v][u].st \in {"accepted", "refused"}
    BY <2>1 DEF IndInv, TypeOK, Accepted, Refused
  <2> QED BY <1>5, <2>2 DEF CallTimely, Serve, clockVars
<1>6. ASSUME NEW r \in stray, ServeStray(r)
      PROVE  CallTimely /\ now' = now
  BY <1>0, <1>6 DEF ServeStray, clockVars
<1> QED BY <1>0, <1>1, <1>2, <1>3, <1>4, <1>5, <1>6, WorkersTimely DEF Next

LEMMA TimelyInductive == IndInv /\ RequestsTimely /\ [Next]_vars => RequestsTimely'
<1> SUFFICES ASSUME IndInv, RequestsTimely, [Next]_vars PROVE RequestsTimely'
  OBVIOUS
<1> USE ConstantAssumption
<1>1. CallTimely /\ StrayFlow /\ now \in Nat /\ now' \in Nat /\ now' >= now
  BY EverythingTimely, EverythingExtends DEF IndInv, TypeOK
<1>2. \A r \in Request : Timely(r) => r.at <= now' + MaxSkew
  BY <1>1, RequestFields DEF Timely
<1>3. /\ stray \subseteq Request
      /\ \A w \in Worker, t \in Task : call[w][t].st = "sent" => call[w][t].req \in Request
  BY CallForms DEF IndInv, TypeOK
<1>4. \A r \in stray' : r.at <= now' + MaxSkew
  BY <1>1, <1>2, <1>3 DEF StrayFlow, RequestsTimely
<1>5. \A w \in Worker : Clock(NodeOf[w]) <= now' + MaxSkew
  BY <1>1 DEF Clock, IndInv, TypeOK
<1>6. ASSUME NEW w \in Worker, NEW t \in Task, call'[w][t].st = "sent"
      PROVE  call'[w][t].req.at <= now' + MaxSkew
  BY <1>1, <1>2, <1>3, <1>5, <1>6 DEF CallTimely, RequestsTimely
<1> QED BY <1>4, <1>6 DEF RequestsTimely, Timely

\* A token's window lies within the row's, under the fence the row still has and
\* still grants this worker; or it is over, as any clock could tell.
InWindowOf(w, tok, r, granted, t) ==
    \/ tok.fence = r.fence /\ granted = w /\ tok.exp <= r.exp
    \/ tok.exp <= t + MaxSkew

InWindow(w, tok) == InWindowOf(w, tok, row, grantee, now)
InWindowAfter(w, tok) == InWindowOf(w, tok, row', grantee', now')

\* The tokens an unrevoked fence holds or is about to hold.
Windows(w) ==
    /\ ~revoked[w] =>
         /\ state[w] # NoLease => InWindow(w, state[w])
         /\ \A t \in {"heartbeat", "publisher"} :
              call[w][t].st = "accepted" /\ call[w][t].tok # NoLease => InWindow(w, call[w][t].tok)
    /\ phase[w] = "acquiring" /\ call[w]["owner"].st = "accepted" /\ call[w]["owner"].tok # NoLease =>
         InWindow(w, call[w]["owner"].tok)

\* Only the worker's own release can close its fence while its window is open.
LEMMA WindowStays ==
    ASSUME IndInv, NEW w \in Worker, NEW tok \in Lease, Behind(w, tok), InWindow(w, tok),
           NEW r \in Request, r.op # "acquire" => Behind(r.by, r.tok), Extends(r), Timely(r),
           Accepts(r), Execute(r, TRUE), r.op = "release" => r.by # w, now' = now
    PROVE  InWindowAfter(w, tok)
<1> USE ConstantAssumption
<1>1. /\ row \in Lease /\ row' = Written(r) /\ r.op \in Op /\ now \in Nat
      /\ r.at \in Nat /\ r.exp \in Nat
      /\ grantee' = CASE r.op = "acquire" -> r.by [] r.op = "release" -> NoWorker [] OTHER -> grantee
  BY RequestFields DEF IndInv, TypeOK, Execute
<1>2. /\ row.fence \in Nat /\ tok.fence \in Nat /\ tok.fence <= row.fence
      /\ row.rev \in Nat /\ row.exp \in Nat /\ tok.exp \in Nat
  BY <1>1, LeaseFields DEF Behind, BehindRow
<1>3. CASE r.op = "acquire"
  <2>1. row'.fence = row.fence + 1 /\ row.exp <= r.at
    BY <1>1, <1>3, Statements
  <2>2. tok.exp <= now + MaxSkew
    BY <1>1, <1>2, <2>1 DEF InWindow, InWindowOf, Timely
  <2> QED BY <2>2 DEF InWindowAfter, InWindowOf
<1>4. CASE r.op \in {"renew", "publish"}
  <2>1. row'.fence = row.fence /\ row'.exp = r.exp /\ row = r.tok /\ grantee' = grantee
    BY <1>1, <1>4, Statements DEF Advanced
  <2>2. row'.exp >= row.exp
    BY <1>4, <2>1 DEF Extends
  <2> QED BY <1>1, <1>2, <2>1, <2>2 DEF InWindow, InWindowAfter, InWindowOf
<1>5. CASE r.op = "release"
  <2>1. row'.fence = row.fence /\ row = r.tok
    BY <1>1, <1>5, Statements DEF Advanced
  <2>2. grantee = r.by
    BY <1>2, <1>5, <2>1 DEF Behind, BehindRow
  <2> QED BY <1>5, <2>1, <2>2 DEF InWindow, InWindowAfter, InWindowOf
<1> QED BY <1>1, <1>3, <1>4, <1>5 DEF Op

\* What an executed statement returns is in the window it opens or extends.
LEMMA WindowOpens ==
    ASSUME IndInv, NEW r \in Request, r.op # "acquire" => Behind(r.by, r.tok),
           Accepts(r), Execute(r, TRUE)
    PROVE  Returned(r) = NoLease \/ InWindowAfter(r.by, Returned(r))
<1>1. /\ row \in Lease /\ row' = Written(r) /\ r.op \in Op /\ row.fence \in Nat /\ row.rev \in Nat
      /\ grantee' = CASE r.op = "acquire" -> r.by [] r.op = "release" -> NoWorker [] OTHER -> grantee
  BY RequestFields, LeaseFields DEF IndInv, TypeOK, Execute
<1>2. CASE r.op = "release"
  BY <1>2 DEF Returned
<1>3. CASE r.op # "release"
  <2>1. Returned(r) = row' /\ row'.exp = r.exp /\ r.exp \in Nat
    BY <1>1, <1>3, Statements, RequestFields DEF Returned, Advanced, Op
  <2>2. grantee' = r.by
    <3>1. CASE r.op = "acquire"
      BY <1>1, <3>1
    <3>2. CASE r.op # "acquire"
      <4>1. row = r.tok /\ grantee' = grantee
        BY <1>1, <1>3, <3>2, Statements DEF Op
      <4> QED BY <1>1, <3>2, <4>1 DEF Behind, BehindRow
    <3> QED BY <3>1, <3>2
  <2> QED BY <2>1, <2>2 DEF InWindowAfter, InWindowOf
<1> QED BY <1>2, <1>3

\* The tokens stay where they are, or come from a statement just executed.
LEMMA StillInWindow ==
    ASSUME IndInv, NEW w \in Worker, Windows(w),
           phase'[w] = phase[w], state'[w] = state[w], revoked'[w] = revoked[w],
           \A t \in Task : \/ call'[w][t] = call[w][t]
                           \/ call'[w][t].st # "accepted"
                           \/ call'[w][t].tok = NoLease
                           \/ InWindowAfter(w, call'[w][t].tok),
           \A tok \in Lease : Behind(w, tok) /\ InWindow(w, tok) => InWindowAfter(w, tok)
    PROVE  Windows(w)'
<1>1. /\ state[w] \in Lease /\ \A t \in Task : call[w][t] \in Call
      /\ {"owner", "heartbeat", "publisher"} = Task
  BY DEF IndInv, TypeOK, Task
<1>2. ASSUME NEW t \in Task, call[w][t].st = "accepted", call[w][t].tok # NoLease
      PROVE  call[w][t].tok \in Lease /\ Behind(w, call[w][t].tok)
  BY <1>1, <1>2, CallForms DEF IndInv, TokensBehindRow
<1>3. state[w] # NoLease => Behind(w, state[w])
  BY DEF IndInv, TokensBehindRow
<1>4. ~revoked'[w] /\ state'[w] # NoLease => InWindowAfter(w, state'[w])
  BY <1>1, <1>3 DEF Windows
<1>5. ASSUME NEW t \in {"heartbeat", "publisher"}, ~revoked'[w],
             call'[w][t].st = "accepted", call'[w][t].tok # NoLease
      PROVE  InWindowAfter(w, call'[w][t].tok)
  BY <1>1, <1>2, <1>5 DEF Windows
<1>6. ASSUME phase'[w] = "acquiring", call'[w]["owner"].st = "accepted",
             call'[w]["owner"].tok # NoLease
      PROVE  InWindowAfter(w, call'[w]["owner"].tok)
  BY <1>1, <1>2, <1>6 DEF Windows
<1> QED BY <1>4, <1>5, <1>6 DEF Windows, InWindow, InWindowAfter

\* Only an acquired lease makes an unrevoked fence.
LEMMA RevokedStays ==
    ASSUME IndInv, NEW w \in Worker, OwnerStep(w) \/ HeartbeatStep(w) \/ PublisherStep(w)
    PROVE  ~revoked'[w] => ~revoked[w] \/ phase[w] = "acquiring"
<1>f. revoked \in [Worker -> BOOLEAN]
  BY DEF IndInv, TypeOK
<1>1. CASE OwnerStep(w)
  BY <1>f, <1>1 DEF OwnerStep, Acquire, Acquired, NotAcquired, Release, Joined, Released,
     ReleaseFailed, Drop, fenceVars
<1>2. CASE HeartbeatStep(w)
  BY <1>f, <1>2 DEF HeartbeatStep, Heartbeat, HeartbeatCancelled, HeartbeatExpired, Renew,
     RenewAnswered, RenewFailed, fenceVars
<1>3. CASE PublisherStep(w)
  BY <1>f, <1>3 DEF PublisherStep, Publish, PublishAnswered, PublishFailed, PublishDropped
<1> QED BY <1>1, <1>2, <1>3

\* A worker whose release is on its way has revoked its fence.
LEMMA ReleaseRevokes ==
    ASSUME IndInv, Conducts, NEW r \in Request, OnItsWay(r), r.op = "release"
    PROVE  revoked[r.by] /\ phase[r.by] # "acquiring"
<1>1. CASE r \in stray
  BY <1>1, RequestFields DEF Conducts, Conduct, LeftBehind
<1>2. ASSUME NEW w \in Worker, NEW t \in Task, call[w][t].st = "sent", r = call[w][t].req
      PROVE  revoked[w] /\ phase[w] # "acquiring" /\ r.by = w
  <2>1. r.by = w /\ t = "owner" /\ call[w]["owner"] # NoCall
    BY <1>2, CallMakers DEF IndInv, TokensBehindRow, Task, Conducts, Conduct, TasksApart
  <2>2. phase[w] = "releasing"
    BY <1>2, <2>1 DEF Conducts, Conduct, OwnerSane
  <2> QED BY <2>1, <2>2 DEF Conducts, Conduct, OwnerSane
<1> QED BY <1>1, <1>2 DEF OnItsWay

\* A worker's own tasks only pass the tokens of its window around.
LEMMA MovedInWindow ==
    ASSUME NEW w \in Worker, Conduct(w), Windows(w), TokenMoves(w),
           ~revoked'[w] => ~revoked[w] \/ phase[w] = "acquiring", UNCHANGED <<row, grantee, now>>
    PROVE  Windows(w)'
<1>1. \A tok : InWindow(w, tok) => InWindowAfter(w, tok)
  BY DEF InWindow, InWindowAfter, InWindowOf
<1>2. ASSUME NEW t \in {"heartbeat", "publisher"}, ~revoked'[w],
             call'[w][t].st = "accepted", call'[w][t].tok # NoLease
      PROVE  InWindowAfter(w, call'[w][t].tok)
  <2>1. call'[w][t] = call[w][t] /\ call[w][t] # NoCall
    BY <1>2, CallMakers DEF TokenMoves
  <2>2. ~revoked[w]
    BY <1>2, <2>1 DEF Conduct, OwnerSane, LockFree
  <2> QED BY <1>1, <1>2, <2>1, <2>2 DEF Windows
<1>3. ASSUME phase'[w] = "acquiring", call'[w]["owner"].st = "accepted",
             call'[w]["owner"].tok # NoLease
      PROVE  InWindowAfter(w, call'[w]["owner"].tok)
  BY <1>1, <1>3 DEF Windows, TokenMoves
<1>4. ASSUME ~revoked'[w], state'[w] # NoLease
      PROVE  InWindowAfter(w, state'[w])
  BY <1>1, <1>4 DEF Windows, TokenMoves
<1> QED BY <1>2, <1>3, <1>4 DEF Windows, InWindow, InWindowAfter

\* A worker whose fence is revoked and that acquires nothing has no window.
LEMMA NoWindow ==
    ASSUME NEW w \in Worker, revoked'[w], phase'[w] # "acquiring"
    PROVE  Windows(w)'
BY DEF Windows

AllWindows == \A w \in Worker : Windows(w)

\* A statement executes: the windows of those it does not retire stand.
LEMMA ExecuteInWindow ==
    ASSUME IndInv, Conducts, ReleasesBehind, RequestsExtend, RequestsTimely,
           NEW r \in Request, OnItsWay(r), NEW accepted \in Verdicts(r), Execute(r, accepted),
           now' = now, NEW w \in Worker, r.op = "release" => r.by # w
    PROVE  \A tok \in Lease : Behind(w, tok) /\ InWindow(w, tok) => InWindowAfter(w, tok)
<1>1. accepted \in BOOLEAN /\ (accepted => Accepts(r))
  BY VerdictType
<1>2. CASE accepted = FALSE
  BY <1>2 DEF Execute, InWindow, InWindowAfter, InWindowOf
<1>3. CASE accepted = TRUE
  <2>1. (r.op # "acquire" => Behind(r.by, r.tok)) /\ Extends(r) /\ Timely(r)
    BY PresentsBehind DEF OnItsWay, RequestsExtend, RequestsTimely
  <2> QED BY <1>1, <1>3, <2>1, WindowStays
<1> QED BY <1>1, <1>2, <1>3

LEMMA ServeInWindow ==
    ASSUME IndInv, Conducts, ReleasesBehind, RequestsExtend, RequestsTimely, AllWindows,
           NEW w \in Worker, NEW t \in Task, Serve(w, t)
    PROVE  AllWindows'
<1> DEFINE r == call[w][t].req
<1> USE CallMakers
<1>t. /\ TypeOK /\ r \in Request /\ r.by = w /\ OnItsWay(r) /\ now' = now
      /\ UNCHANGED <<phase, state, revoked>>
  BY CallForms DEF IndInv, TypeOK, TokensBehindRow, Serve, OnItsWay, ownerVars, fenceVars, clockVars
<1>1. PICK accepted \in Verdicts(r) :
        /\ Execute(r, accepted)
        /\ call' = [call EXCEPT ![w][t] = IF accepted THEN Accepted(Returned(r)) ELSE Refused]
  BY DEF Serve
<1> HIDE DEF r
<1>2. accepted \in BOOLEAN /\ (accepted => Accepts(r))
  BY <1>t, VerdictType
<1> DEFINE c == IF accepted THEN Accepted(Returned(r)) ELSE Refused
<1>3. call' = [call EXCEPT ![w][t] = c]
  BY <1>1
<1>4. c.st # "accepted" \/ c.tok = NoLease \/ InWindowAfter(w, c.tok)
  <2>1. CASE accepted = FALSE
    BY <2>1
  <2>2. CASE accepted = TRUE
    <3>1. c = Accepted(Returned(r)) /\ c.tok = Returned(r)
      BY <2>2 DEF Accepted
    <3>2. r.op # "acquire" => Behind(r.by, r.tok)
      BY <1>t, PresentsBehind
    <3>3. Accepts(r) /\ Execute(r, TRUE)
      BY <1>1, <1>2, <2>2
    <3>4. Returned(r) = NoLease \/ InWindowAfter(r.by, Returned(r))
      BY <1>t, <3>2, <3>3, WindowOpens
    <3> QED BY <1>t, <3>1, <3>4
  <2> QED BY <1>2, <2>1, <2>2
<1> HIDE DEF c
<1>5. Hears(w, t, c)
  BY <1>t, <1>3, AnswerHears
<1>6. ASSUME NEW v \in Worker, r.op = "release" => r.by # v
      PROVE  Windows(v)'
  <2>1. \A tok \in Lease : Behind(v, tok) /\ InWindow(v, tok) => InWindowAfter(v, tok)
    BY <1>t, <1>1, <1>6, ExecuteInWindow
  <2>2. \A u \in Task : \/ call'[v][u] = call[v][u]
                        \/ call'[v][u].st # "accepted"
                        \/ call'[v][u].tok = NoLease
                        \/ InWindowAfter(v, call'[v][u].tok)
    BY <1>4, <1>5 DEF Hears
  <2> QED BY <1>t, <2>1, <2>2, StillInWindow DEF AllWindows
<1>7. ASSUME r.op = "release"
      PROVE  Windows(w)'
  BY <1>t, <1>7, ReleaseRevokes, NoWindow
<1> QED BY <1>t, <1>6, <1>7 DEF AllWindows

\* A removal takes the row from a worker that may still be in its window and has
\* not revoked its fence.
CutsShort(n) ==
    /\ BeginRemoval(n)
    /\ row.owner = n /\ grantee # NoWorker /\ row.exp > now + MaxSkew
    /\ ~revoked[grantee] \/ phase[grantee] = "acquiring"

\* A removal that cuts nobody short ends no window that is open.
LEMMA RemovalInWindow ==
    ASSUME IndInv, AllWindows, NEW n \in Node, BeginRemoval(n), ~CutsShort(n)
    PROVE  AllWindows'
<1>t. /\ now \in Nat /\ MaxSkew \in Nat /\ row.exp \in Nat
      /\ \A tok \in Lease : tok.exp \in Nat
      /\ grantee \in Worker \cup {NoWorker}
  BY ConstantAssumption, LeaseFields DEF IndInv, TypeOK
<1>1. /\ row.owner # n => row' = row /\ grantee' = grantee
      /\ UNCHANGED <<now, call, phase, state, revoked>>
  BY DEF BeginRemoval, clockVars, ownerVars, fenceVars
<1>2. ASSUME NEW w \in Worker,
             \A tok \in Lease : Behind(w, tok) /\ InWindow(w, tok) => InWindowAfter(w, tok)
      PROVE  Windows(w)'
  BY <1>1, <1>2, StillInWindow DEF AllWindows
<1>3. CASE row.owner # n
  BY <1>1, <1>2, <1>3 DEF AllWindows, InWindow, InWindowAfter
<1>4. CASE row.owner = n
  <2>1. ASSUME NEW w \in Worker, w # grantee \/ row.exp <= now + MaxSkew
        PROVE  Windows(w)'
    <3>1. \A tok \in Lease : InWindow(w, tok) => tok.exp <= now + MaxSkew
      BY <1>t, <2>1 DEF InWindow, InWindowOf
    <3>2. \A tok \in Lease : InWindow(w, tok) => InWindowAfter(w, tok)
      BY <1>1, <3>1 DEF InWindowAfter, InWindowOf
    <3> QED BY <1>2, <3>2
  <2>2. ASSUME NEW w \in Worker, w = grantee, row.exp > now + MaxSkew
        PROVE  Windows(w)'
    <3>1. w # NoWorker
      BY ConstantAssumption
    <3>2. revoked[w] /\ phase[w] # "acquiring"
      BY <1>4, <2>2, <3>1 DEF CutsShort
    <3> QED BY <1>1, <3>2, NoWindow
  <2> QED BY <1>t, <2>1, <2>2 DEF AllWindows
<1> QED BY <1>3, <1>4

LEMMA WindowsInductive ==
    ASSUME IndInv, Conducts, ReleasesBehind, RequestsExtend, RequestsTimely, AllWindows,
           [Next]_vars, [\A n \in Node : ~CutsShort(n)]_vars
    PROVE  AllWindows'
<1> USE DEF AllWindows
<1>t. /\ now \in Nat /\ MaxSkew \in Nat
      /\ \A tok \in Lease : tok.exp \in Nat
  BY ConstantAssumption, LeaseFields DEF IndInv, TypeOK
<1>1. ASSUME UNCHANGED <<row, grantee, call, phase, state, revoked>>, now' = now \/ now' = now + 1
      PROVE  AllWindows'
  <2>1. \A w \in Worker, tok \in Lease : InWindow(w, tok) => InWindowAfter(w, tok)
    BY <1>t, <1>1 DEF InWindow, InWindowAfter, InWindowOf
  <2> QED BY <1>1, <2>1, StillInWindow
<1>2. CASE UNCHANGED vars
  BY <1>1, <1>2 DEF vars, storeVars, ownerVars, fenceVars, clockVars
<1>3. CASE Tick
  BY <1>1, <1>3 DEF Tick, storeVars, ownerVars, fenceVars
<1>4. ASSUME NEW n \in Node, AdjustClock(n) \/ RollbackRemoval(n)
      PROVE  AllWindows'
  BY <1>1, <1>4 DEF AdjustClock, RollbackRemoval, storeVars, ownerVars, fenceVars, clockVars
<1>5. ASSUME NEW n \in Node, BeginRemoval(n)
      PROVE  AllWindows'
  <2>1. UNCHANGED vars \/ ~CutsShort(n)
    OBVIOUS
  <2> QED BY <1>2, <1>5, <2>1, RemovalInWindow
<1>6. ASSUME NEW n \in Node, Crash(n)
      PROVE  AllWindows'
  <2> DEFINE dead == {w \in Worker : NodeOf[w] = n /\ phase[w] # "idle"}
  <2>1. /\ call' = Cleared(call, dead, [t \in Task |-> NoCall])
        /\ state' = Cleared(state, dead, NoLease)
        /\ phase' = Cleared(phase, dead, "err")
        /\ revoked' = Cleared(revoked, dead, TRUE)
        /\ UNCHANGED <<row, grantee, now>>
    BY <1>6 DEF Crash, clockVars
  <2> HIDE DEF dead
  <2>2. ASSUME NEW w \in Worker, w \in dead
        PROVE  Windows(w)'
    BY <2>1, <2>2, NoWindow DEF Cleared
  <2>3. ASSUME NEW w \in Worker, w \notin dead
        PROVE  Windows(w)'
    <3>1. /\ call'[w] = call[w] /\ phase'[w] = phase[w]
          /\ state'[w] = state[w] /\ revoked'[w] = revoked[w]
      BY <2>1, <2>3 DEF Cleared
    <3>2. \A tok : InWindow(w, tok) => InWindowAfter(w, tok)
      BY <2>1 DEF InWindow, InWindowAfter
    <3> QED BY <3>1, <3>2, StillInWindow
  <2> QED BY <2>2, <2>3
<1>7. ASSUME NEW w \in Worker, OwnerStep(w) \/ HeartbeatStep(w) \/ PublisherStep(w)
      PROVE  AllWindows'
  <2>1. TokenMoves(w) /\ \A v \in Worker : v # w => Rest(v)
    BY <1>7, OwnerMoves, OthersMove, OwnerConduct, HeartbeatConduct, PublisherConduct DEF Conducts
  <2>2. UNCHANGED <<row, grantee, now>>
    BY <1>7, TasksLeaveRow, WorkersTimely
  <2>3. Windows(w)'
    BY <1>7, <2>1, <2>2, RevokedStays, MovedInWindow DEF Conducts
  <2>4. \A v \in Worker : \A tok : InWindow(v, tok) => InWindowAfter(v, tok)
    BY <2>2 DEF InWindow, InWindowAfter
  <2>5. ASSUME NEW v \in Worker, v # w
        PROVE  Windows(v)'
    BY <2>1, <2>4, <2>5, StillInWindow DEF Rest
  <2> QED BY <2>3, <2>5
<1>8. ASSUME NEW w \in Worker, NEW t \in Task, Serve(w, t)
      PROVE  AllWindows'
  BY <1>8, ServeInWindow
<1>9. ASSUME NEW r \in stray, ServeStray(r)
      PROVE  AllWindows'
  <2>1. /\ r \in Request /\ OnItsWay(r) /\ now' = now
        /\ UNCHANGED <<call, phase, state, revoked>>
    BY <1>9 DEF IndInv, TypeOK, OnItsWay, ServeStray, ownerVars, fenceVars, clockVars
  <2>2. PICK accepted \in Verdicts(r) : Execute(r, accepted)
    BY <1>9 DEF ServeStray
  <2>3. ASSUME NEW v \in Worker, r.op = "release" => r.by # v
        PROVE  Windows(v)'
    <3>1. \A tok \in Lease : Behind(v, tok) /\ InWindow(v, tok) => InWindowAfter(v, tok)
      BY <2>1, <2>2, <2>3, ExecuteInWindow
    <3> QED BY <2>1, <3>1, StillInWindow
  <2>4. ASSUME NEW v \in Worker, r.op = "release", r.by = v
        PROVE  Windows(v)'
    BY <2>1, <2>4, ReleaseRevokes, NoWindow
  <2> QED BY <2>3, <2>4
<1> QED BY <1>2, <1>3, <1>4, <1>5, <1>6, <1>7, <1>8, <1>9 DEF Next

WindowsHold == TokensSettle /\ RequestsExtend /\ RequestsTimely /\ AllWindows

\* Two jobs never both may name artwork: the file no transaction fences is safe
\* because the authority for it ends a safety window before any clock lets another
\* node acquire (scoped_artwork_filename).  What the function relies on: the clocks
\* agree to within that window, and no removal cuts a holder short that is still in
\* its window; the removal of any other node, before or after, does no harm.
THEOREM ArtworkIsExclusive ==
    ASSUME MaxSkew <= SafetyWindow
    PROVE  Spec /\ [][\A n \in Node : ~CutsShort(n)]_vars => []ArtworkExclusive
<1>1. Init => RequestsExtend /\ RequestsTimely /\ AllWindows
  BY CallMakers DEF Init, RequestsExtend, RequestsTimely, AllWindows, Windows, Task
<1>2. TokensSettle /\ [Next]_vars => TokensSettle'
  BY Inductive, ConductInductive, ReleasesInductive, CurrentInductive DEF TokensSettle
<1>3. WindowsHold /\ [Next]_vars /\ [\A n \in Node : ~CutsShort(n)]_vars => WindowsHold'
  BY <1>2, ExtendsInductive, TimelyInductive, WindowsInductive DEF WindowsHold, TokensSettle
<1>4. WindowsHold => ArtworkExclusive
  <2> SUFFICES ASSUME WindowsHold, NEW v \in Worker, NEW w \in Worker,
                      MayNameArtwork(v), MayNameArtwork(w)
               PROVE  v = w
    BY DEF ArtworkExclusive
  <2>1. ASSUME NEW u \in Worker, MayNameArtwork(u)
        PROVE  grantee = u
    <3>1. state[u].exp \in Nat /\ now \in Nat /\ skew[NodeOf[u]] \in Nat
      BY ConstantAssumption, LeaseFields DEF WindowsHold, TokensSettle, IndInv, TypeOK
    <3>2. state[u].exp > now + MaxSkew
      BY <2>1, <3>1, ConstantAssumption DEF MayNameArtwork, Clock
    <3>3. InWindow(u, state[u])
      BY <2>1 DEF MayNameArtwork, WindowsHold, AllWindows, Windows
    <3>4. ~(state[u].exp <= now + MaxSkew)
      BY <3>1, <3>2, ConstantAssumption
    <3> QED BY <3>3, <3>4 DEF InWindow, InWindowOf
  <2> QED BY <2>1
<1> QED BY <1>1, <1>3, <1>4, Initially, ConductInitially, TokensSettleAlways, PTL
     DEF Spec, WindowsHold
==============================================================================
