------------------------------- MODULE JobLease -------------------------------
(***************************************************************************)
(* The lease that makes a background job a cluster-wide singleton, for one *)
(* resource ("scan:library:7", "provider:artwork", ...).                   *)
(*                                                                         *)
(* Three layers of the code take part.  The replicated table job_leases    *)
(* holds one row per resource and serialises every statement against it    *)
(* (store/hiqlite_coordination.rs, store/hiqlite_publication.rs).  A       *)
(* PublicationFence keeps a process's copy of the row behind a read-write  *)
(* lock (store/publication.rs).  An ActiveJobLease owns that fence, a      *)
(* heartbeat task that renews it, and the release protocol                 *)
(* (plurxd/src/job_lease.rs).  A "worker" below is one ActiveJobLease; it  *)
(* runs on the node NodeOf[w], lives once, and has three concurrent tasks: *)
(* the owner (acquire, release), the heartbeat and the publisher of the    *)
(* job's work.                                                             *)
(*                                                                         *)
(* A statement reaches the store, is executed and is answered in three     *)
(* separate steps, so the row may move between any two of them.  The       *)
(* client gives up after a timeout, which leaves the request in the Raft   *)
(* log's hands: it may still execute later, unobserved (a stray).          *)
(***************************************************************************)
EXTENDS Integers, Sequences, FiniteSets

CONSTANTS
    Node,             \* cluster nodes, the owners a row can name
    Worker,           \* ActiveJobLease instances
    NodeOf,           \* the node each worker's process runs on
    NoOwner,          \* the owner of an absent row or of a fenced-off one
    NoWorker,
    TTL,              \* JOB_LEASE_TTL and PUBLICATION_TTL_MS, in clock units
    SafetyWindow,     \* PUBLICATION_CALL_SAFETY_WINDOW
    ReleaseAttempts,  \* RELEASE_ATTEMPTS
    CounterMax,       \* i64::MAX, the largest fence or revision a row can hold
    MaxTime,          \* bound: how far time runs
    MaxSkew,          \* the most one node's wall clock is ahead of another's
    Drifting,         \* the nodes whose wall clock is not always right
    MaxStray,         \* bound: abandoned requests still able to execute
    Removable         \* the nodes whose removal is attempted

ASSUME ConstantAssumption ==
    /\ NodeOf \in [Worker -> Node]
    /\ NoOwner \notin Node
    /\ NoWorker \notin Worker
    /\ TTL \in Nat \ {0}
    /\ SafetyWindow \in Nat
    /\ ReleaseAttempts \in Nat \ {0}
    /\ CounterMax \in Nat \ {0}
    /\ MaxTime \in Nat
    /\ MaxSkew \in Nat
    /\ Drifting \subseteq Node
    /\ MaxStray \in Nat
    /\ Removable \subseteq Node

VARIABLES
    row,         \* the resource's row in job_leases; fence 0 stands for no row
    removed,     \* nodes with an internal.cluster_job_owner_removed setting
    now,         \* elapsed time
    skew,        \* how far each node's wall clock is ahead of `now`
    stray,       \* requests whose caller has gone but which may still execute
    call,        \* per worker and task: the store request it is waiting for
    phase,       \* per worker: where the owner of the ActiveJobLease is
    state,       \* PublicationFence::state, the process's copy of the token
    revoked,     \* PublicationFence::revoked
    lost,        \* the loss token handed to the job
    hb,          \* the heartbeat task's program counter
    mode,        \* which branch of the heartbeat's select! has won
    current,     \* the heartbeat's snapshot of the token
    deadline,    \* the heartbeat's expiry timer
    attempt,     \* release attempts made
    grantee,     \* history: the worker the row's fence was granted to
    log,         \* history: committed publications, oldest first
    erred,       \* history: workers whose publisher was told by an error
    dropped      \* history: the tokens of publications dropped unanswered

storeVars == <<row, removed, stray, grantee, log>>
clockVars == <<now, skew>>
outcomeVars == <<erred, dropped>>
ownerVars == <<phase, attempt>>
fenceVars == <<state, revoked>>
heartbeatVars == <<hb, mode, current, deadline, lost>>
vars == <<storeVars, clockVars, outcomeVars, call, ownerVars, fenceVars, heartbeatVars>>

-----------------------------------------------------------------------------

Op == {"acquire", "renew", "publish", "release"}
Task == {"owner", "heartbeat", "publisher"}
Phase == {"idle", "acquiring", "active", "joining", "releasing", "ok", "err"}
Counter == 0 .. CounterMax

Lease == [owner : Node \cup {NoOwner}, fence : Counter, rev : Counter, exp : Nat]

\* None in Option<Lease>; also the row before the resource is first acquired.
NoLease == [owner |-> NoOwner, fence |-> 0, rev |-> 0, exp |-> 0]

Publication == [by : Worker, fence : Nat]

Request == [op : Op, by : Worker, tok : Lease, at : Nat, exp : Nat]

NoCall == [st |-> "none"]
Sent(r) == [st |-> "sent", req |-> r]
Accepted(tok) == [st |-> "accepted", tok |-> tok]
Refused == [st |-> "refused"]

\* SystemTime::now() as seen on a node.
Clock(n) == now + skew[n]

\* Mutant of LockFree: a renewal lets go of the lock before its store call.
LockFreeDuringRenewal(w) == call[w]["publisher"] = NoCall

\* Nobody holds the PublicationFence's lock: a renewal and a publication both
\* keep the write half across their store call.
LockFree(w) ==
    /\ call[w]["heartbeat"] = NoCall
    /\ call[w]["publisher"] = NoCall

Later(a, b) == IF a >= b THEN a ELSE b
Sooner(a, b) == IF a <= b THEN a ELSE b

-----------------------------------------------------------------------------
(* The store: what each statement does to the row.                         *)

\* Mutants of Accepts: publications check the expiry and not the token; an
\* acquire forgets the counter limit; an acquire ignores the owner's removal.
AcceptsAnyToken(r) ==
    IF r.op = "publish" THEN row.exp > r.at
    ELSE /\ NodeOf[r.by] \notin removed
         /\ row.rev < CounterMax
         /\ IF r.op = "acquire" THEN row.exp <= r.at ELSE row = r.tok

AcceptsPastLimit(r) ==
    IF r.op = "acquire" THEN row.exp <= r.at ELSE row = r.tok /\ row.rev < CounterMax

AcceptsRemoved(r) ==
    /\ row.rev < CounterMax
    /\ IF r.op = "acquire" THEN row.exp <= r.at ELSE row = r.tok

\* The WHERE clause of each statement.
Accepts(r) ==
    CASE r.op = "acquire" ->
            /\ NodeOf[r.by] \notin removed
            /\ row.exp <= r.at
            /\ row.fence < CounterMax
            /\ row.rev < CounterMax
      [] r.op = "renew" ->
            /\ NodeOf[r.by] \notin removed
            /\ row = r.tok
            /\ row.exp > r.at
            /\ row.rev < CounterMax
      [] r.op = "publish" ->
            /\ row = r.tok
            /\ row.exp > r.at
      [] r.op = "release" ->
            /\ row = r.tok
            /\ row.rev < CounterMax

\* The same tenure of the row with a new expiry.
Advanced(exp) ==
    [owner |-> row.owner, fence |-> row.fence, rev |-> row.rev + 1, exp |-> exp]

\* The row the statement leaves behind when its WHERE clause holds.
Written(r) ==
    CASE r.op = "acquire" ->
            [owner |-> NodeOf[r.by], fence |-> row.fence + 1,
             rev |-> row.rev + 1, exp |-> r.exp]
      [] r.op \in {"renew", "publish"} ->
            Advanced(r.exp)
      [] r.op = "release" ->
            Advanced(Sooner(row.exp, r.at))

\* A publication bound to a queued job also needs that job's attempt to be
\* live, which the queue decides: it may be refused for that reason alone.
Verdicts(r) == {Accepts(r)} \cup (IF r.op = "publish" THEN {FALSE} ELSE {})

Execute(r, accepted) ==
    IF accepted
      THEN /\ row' = Written(r)
           /\ grantee' = CASE r.op = "acquire" -> r.by
                           [] r.op = "release" -> NoWorker
                           [] OTHER -> grantee
           /\ log' = IF r.op = "publish"
                       THEN Append(log, [by |-> r.by, fence |-> row.fence])
                       ELSE log
      ELSE UNCHANGED <<row, grantee, log>>

\* What the statement returns: the row it wrote, or for a release just a count.
Returned(r) == IF r.op = "release" THEN NoLease ELSE Written(r)

\* The store executes a request somebody is still waiting for.
Serve(w, t) ==
    /\ call[w][t].st = "sent"
    /\ LET r == call[w][t].req IN
         \E accepted \in Verdicts(r) :
            /\ Execute(r, accepted)
            /\ call' = [call EXCEPT ![w][t] =
                          IF accepted THEN Accepted(Returned(r)) ELSE Refused]
    /\ UNCHANGED <<removed, stray, clockVars, outcomeVars, ownerVars,
                   fenceVars, heartbeatVars>>

\* The store executes a request whose caller timed out, was dropped or died.
ServeStray(r) ==
    /\ r \in stray
    /\ \E accepted \in Verdicts(r) : Execute(r, accepted)
    /\ stray' = stray \ {r}
    /\ UNCHANGED <<removed, call, clockVars, outcomeVars, ownerVars, fenceVars,
                   heartbeatVars>>

\* The tasks T of the workers W stop waiting: each of their requests that has not
\* executed is lost or becomes a stray.
Unexecuted(w, T) == {call[w][t].req : t \in {u \in T : call[w][u].st = "sent"}}

Abandon(W, T) ==
    \E kept \in SUBSET UNION {Unexecuted(w, T) : w \in W} :
        /\ stray' = stray \cup kept
        /\ Cardinality(stray') <= MaxStray

-----------------------------------------------------------------------------
(* Membership: a removal fences the node's rows in the same transaction    *)
(* that records it, and may be rolled back.                                *)

BeginRemoval(n) ==
    /\ n \in Removable \ removed
    /\ removed' = removed \cup {n}
    /\ \E m \in Node :
         row' = IF row.owner = n
                  THEN [owner |-> NoOwner, fence |-> row.fence,
                        rev |-> Sooner(row.rev + 1, CounterMax),
                        exp |-> Sooner(row.exp, Clock(m))]
                  ELSE row
    /\ grantee' = IF row.owner = n THEN NoWorker ELSE grantee
    /\ UNCHANGED <<stray, log, call, clockVars, outcomeVars, ownerVars,
                   fenceVars, heartbeatVars>>

RollbackRemoval(n) ==
    /\ n \in removed
    /\ removed' = removed \ {n}
    /\ UNCHANGED <<row, stray, grantee, log, call, clockVars, outcomeVars, ownerVars,
                   fenceVars, heartbeatVars>>

-----------------------------------------------------------------------------
(* Time.                                                                   *)

Tick ==
    /\ now < MaxTime
    /\ now' = now + 1
    /\ UNCHANGED <<skew, outcomeVars, storeVars, call, ownerVars, fenceVars,
                   heartbeatVars>>

\* A wall clock is corrected, forward or backward.
AdjustClock(n) ==
    /\ n \in Drifting
    /\ \E s \in 0 .. MaxSkew \ {skew[n]} : skew' = [skew EXCEPT ![n] = s]
    /\ UNCHANGED <<now, outcomeVars, storeVars, call, ownerVars, fenceVars,
                   heartbeatVars>>

-----------------------------------------------------------------------------
(* The owner: acquire_cluster_job_with_policy, ActiveJobLease::release and *)
(* Drop.                                                                   *)

Ask(w, t, op, tok, exp) ==
    call' = [call EXCEPT ![w][t] =
        Sent([op |-> op, by |-> w, tok |-> tok, at |-> Clock(NodeOf[w]), exp |-> exp])]

\* The eligibility gate in front of this step answers for the environment: a
\* node it refuses simply does not take the step.
Acquire(w) ==
    /\ phase[w] = "idle"
    /\ Ask(w, "owner", "acquire", NoLease, Clock(NodeOf[w]) + TTL)
    /\ phase' = [phase EXCEPT ![w] = "acquiring"]
    /\ UNCHANGED <<attempt, storeVars, clockVars, outcomeVars, fenceVars,
                   heartbeatVars>>

\* LeaseClaim::Acquired: a new fence and heartbeat start.
Acquired(w) ==
    /\ phase[w] = "acquiring"
    /\ call[w]["owner"].st = "accepted"
    /\ phase' = [phase EXCEPT ![w] = "active"]
    /\ state' = [state EXCEPT ![w] = call[w]["owner"].tok]
    /\ revoked' = [revoked EXCEPT ![w] = FALSE]
    /\ hb' = [hb EXCEPT ![w] = "waiting"]
    /\ current' = [current EXCEPT ![w] = call[w]["owner"].tok]
    /\ call' = [call EXCEPT ![w]["owner"] = NoCall]
    /\ UNCHANGED <<attempt, mode, deadline, lost, storeVars, clockVars,
                   outcomeVars>>

\* LeaseClaim::Held, or an error: there is no ActiveJobLease.
NotAcquired(w) ==
    /\ phase[w] = "acquiring"
    /\ \/ call[w]["owner"].st = "refused" /\ UNCHANGED stray
       \/ Abandon({w}, {"owner"})
    /\ phase' = [phase EXCEPT ![w] = "idle"]
    /\ call' = [call EXCEPT ![w]["owner"] = NoCall]
    /\ UNCHANGED <<row, removed, grantee, log, attempt, clockVars, outcomeVars,
                   fenceVars, heartbeatVars>>

\* Revokes the fence and cancels the heartbeat; being past "active" stands for
\* the cancelled token.
Release(w) ==
    /\ phase[w] = "active"
    /\ phase' = [phase EXCEPT ![w] = "joining"]
    /\ revoked' = [revoked EXCEPT ![w] = TRUE]
    /\ UNCHANGED <<attempt, state, call, storeVars, clockVars, outcomeVars,
                   heartbeatVars>>

\* The result of release(): ambiguous if the heartbeat or the release failed.
Outcome(w, failed) == IF failed \/ hb[w] = "failed" THEN "err" ELSE "ok"

\* release() returns, which drops the lease and with it fires the loss token.
Returns(w, failed) ==
    /\ phase' = [phase EXCEPT ![w] = Outcome(w, failed)]
    /\ lost' = [lost EXCEPT ![w] = TRUE]

\* The heartbeat has been joined: retire the final token, if there is one.
Joined(w) ==
    /\ phase[w] = "joining"
    /\ hb[w] \in {"ended", "failed"}
    /\ LockFree(w)
    /\ IF state[w] = NoLease
         THEN /\ Returns(w, FALSE)
              /\ UNCHANGED <<call, attempt>>
         ELSE /\ phase' = [phase EXCEPT ![w] = "releasing"]
              /\ Ask(w, "owner", "release", state[w], 0)
              /\ attempt' = [attempt EXCEPT ![w] = 1]
              /\ UNCHANGED lost
    /\ UNCHANGED <<storeVars, clockVars, outcomeVars, fenceVars, hb, mode,
                   current, deadline>>

Released(w) ==
    /\ phase[w] = "releasing"
    /\ call[w]["owner"].st \in {"accepted", "refused"}
    /\ Returns(w, FALSE)
    /\ call' = [call EXCEPT ![w]["owner"] = NoCall]
    /\ UNCHANGED <<attempt, storeVars, clockVars, outcomeVars, fenceVars, hb,
                   mode, current, deadline>>

\* A failed release is retried with the same token, then left to the TTL.
ReleaseFailed(w) ==
    /\ phase[w] = "releasing"
    /\ Abandon({w}, {"owner"})
    /\ IF attempt[w] < ReleaseAttempts
         THEN /\ attempt' = [attempt EXCEPT ![w] = @ + 1]
              /\ Ask(w, "owner", "release", state[w], 0)
              /\ UNCHANGED <<phase, lost>>
         ELSE /\ Returns(w, TRUE)
              /\ call' = [call EXCEPT ![w]["owner"] = NoCall]
              /\ UNCHANGED attempt
    /\ UNCHANGED <<row, removed, grantee, log, clockVars, outcomeVars, fenceVars, hb, mode,
                   current, deadline>>

\* The lease is dropped without release(), or release() itself is dropped: the
\* heartbeat is aborted where it stands.  A publication keeps its fence clone.
Drop(w) ==
    /\ phase[w] \in {"active", "joining", "releasing"}
    /\ revoked' = [revoked EXCEPT ![w] = TRUE]
    /\ lost' = [lost EXCEPT ![w] = TRUE]
    /\ hb' = [hb EXCEPT ![w] = "failed"]
    /\ mode' = [mode EXCEPT ![w] = "select"]
    /\ deadline' = [deadline EXCEPT ![w] = 0]
    /\ phase' = [phase EXCEPT ![w] = "err"]
    /\ Abandon({w}, {"owner", "heartbeat"})
    /\ call' = [call EXCEPT ![w] =
                  [t \in Task |-> IF t = "publisher" THEN call[w][t] ELSE NoCall]]
    /\ UNCHANGED <<attempt, state, current, row, removed, grantee, log,
                   clockVars, outcomeVars>>

\* The node's process dies, and every lease object in it.
Cleared(f, W, v) == [w \in Worker |-> IF w \in W THEN v ELSE f[w]]

Crash(n) ==
    LET dead == {w \in Worker : NodeOf[w] = n /\ phase[w] # "idle"}
    IN  /\ dead # {}
        /\ Abandon(dead, Task)
        /\ call' = Cleared(call, dead, [t \in Task |-> NoCall])
        /\ phase' = Cleared(phase, dead, "err")
        /\ attempt' = Cleared(attempt, dead, 0)
        /\ state' = Cleared(state, dead, NoLease)
        /\ revoked' = Cleared(revoked, dead, TRUE)
        /\ hb' = Cleared(hb, dead, "failed")
        /\ mode' = Cleared(mode, dead, "select")
        /\ current' = Cleared(current, dead, NoLease)
        /\ deadline' = Cleared(deadline, dead, 0)
        /\ lost' = Cleared(lost, dead, TRUE)
        /\ UNCHANGED <<row, removed, grantee, log, clockVars, outcomeVars>>

-----------------------------------------------------------------------------
(* The heartbeat task.                                                     *)

\* A tick, then the snapshot.  A token already gone ends the task silently.
Heartbeat(w) ==
    /\ hb[w] = "waiting"
    /\ LockFree(w)
    /\ IF state[w] = NoLease
         THEN /\ hb' = [hb EXCEPT ![w] = "ended"]
              /\ UNCHANGED <<current, deadline>>
         ELSE /\ hb' = [hb EXCEPT ![w] = "queued"]
              /\ current' = [current EXCEPT ![w] = state[w]]
              /\ deadline' = [deadline EXCEPT ![w] =
                    now + Later(0, state[w].exp - Clock(NodeOf[w]))]
    /\ UNCHANGED <<mode, lost, call, storeVars, clockVars, outcomeVars,
                   ownerVars, fenceVars>>

\* Cancelled while waiting for a tick, or while a renewal is under way: the
\* latter is drained before the task ends.
HeartbeatCancelled(w) ==
    /\ phase[w] = "joining"
    /\ \/ /\ hb[w] = "waiting"
          /\ hb' = [hb EXCEPT ![w] = "ended"]
          /\ UNCHANGED mode
       \/ /\ hb[w] \in {"queued", "renewing"}
          /\ mode[w] = "select"
          /\ mode' = [mode EXCEPT ![w] = "cancelled"]
          /\ UNCHANGED hb
    /\ UNCHANGED <<current, deadline, lost, call, storeVars, clockVars, outcomeVars,
                   ownerVars, fenceVars>>

\* The token the renewal set out from reaches its deadline first.
HeartbeatExpired(w) ==
    /\ hb[w] \in {"queued", "renewing"}
    /\ mode[w] = "select"
    /\ now >= deadline[w]
    /\ mode' = [mode EXCEPT ![w] = "expired"]
    /\ revoked' = [revoked EXCEPT ![w] = TRUE]
    /\ lost' = [lost EXCEPT ![w] = TRUE]
    /\ UNCHANGED <<hb, current, deadline, state, call, storeVars, clockVars,
                   outcomeVars, ownerVars>>

\* Mutant of Renewed: a refusal is taken for a transient failure.
RenewedAnyway(w, result, tok) ==
    /\ hb' = [hb EXCEPT ![w] = IF mode[w] = "select" THEN "waiting" ELSE "ended"]
    /\ mode' = [mode EXCEPT ![w] = "select"]
    /\ deadline' = [deadline EXCEPT ![w] = 0]
    /\ UNCHANGED <<lost, state>>

\* The heartbeat's reaction to a renewal's result; tok is what renew() leaves in
\* the fence.  In the "expired" branch invalidate() follows: it takes the token
\* away unless the renewal replaced it.
Renewed(w, result, tok) ==
    /\ hb' = [hb EXCEPT ![w] =
                CASE result = "err" -> "failed"
                  [] result = "true" /\ mode[w] = "select" -> "waiting"
                  [] OTHER -> "ended"]
    /\ lost' = [lost EXCEPT ![w] = @ \/ (mode[w] = "select" /\ result # "true")]
    /\ mode' = [mode EXCEPT ![w] = "select"]
    /\ deadline' = [deadline EXCEPT ![w] = 0]
    /\ state' = [state EXCEPT ![w] =
                IF mode[w] = "expired" /\ result # "err" /\ tok = current[w]
                  THEN NoLease ELSE tok]

\* PublicationFence::renew up to the store call, once it has the write lock.
Renew(w) ==
    /\ hb[w] = "queued"
    /\ LockFree(w)
    /\ LET exp == Clock(NodeOf[w]) + TTL IN
         \/ /\ revoked[w] \/ state[w] = NoLease
            /\ Renewed(w, "false", state[w])
            /\ UNCHANGED call
         \/ /\ ~revoked[w] /\ state[w] # NoLease
            /\ exp <= state[w].exp               \* validate_lease_renewal
            /\ Renewed(w, "err", NoLease)
            /\ UNCHANGED call
         \/ /\ ~revoked[w] /\ state[w] # NoLease
            /\ exp > state[w].exp
            /\ Ask(w, "heartbeat", "renew", state[w], exp)
            /\ hb' = [hb EXCEPT ![w] = "renewing"]
            /\ UNCHANGED <<lost, state, mode, deadline>>
    /\ UNCHANGED <<current, revoked, storeVars, clockVars, outcomeVars, ownerVars>>

\* PublicationFence::renew from the store's answer on.
RenewAnswered(w) ==
    /\ hb[w] = "renewing"
    /\ \/ /\ call[w]["heartbeat"].st = "accepted"
          /\ LET late == Clock(NodeOf[w]) >= state[w].exp IN
               /\ Renewed(w, IF revoked[w] \/ late THEN "false" ELSE "true",
                          call[w]["heartbeat"].tok)
               /\ revoked' = [revoked EXCEPT ![w] = @ \/ late]
       \/ /\ call[w]["heartbeat"].st = "refused"
          /\ Renewed(w, "false", NoLease)
          /\ UNCHANGED revoked
    /\ call' = [call EXCEPT ![w]["heartbeat"] = NoCall]
    /\ UNCHANGED <<current, storeVars, clockVars, outcomeVars, ownerVars>>

RenewFailed(w) ==
    /\ hb[w] = "renewing"
    /\ Abandon({w}, {"heartbeat"})
    /\ Renewed(w, "err", NoLease)
    /\ call' = [call EXCEPT ![w]["heartbeat"] = NoCall]
    /\ UNCHANGED <<current, revoked, row, removed, grantee, log, clockVars,
                   outcomeVars, ownerVars>>

-----------------------------------------------------------------------------
(* The publisher: PublicationStore::fenced_call.                           *)

\* Mutant of SuccessorExpiry: the predecessor's expiry is not a minimum.
SuccessorFromNow(w) == Clock(NodeOf[w]) + TTL

\* Lease::publication_successor never shortens the authority window.
SuccessorExpiry(w) == Later(Clock(NodeOf[w]) + TTL, state[w].exp + 1)

Publish(w) ==
    /\ phase[w] \notin {"idle", "acquiring"}
    /\ ~revoked[w]
    /\ LockFree(w)
    /\ state[w] # NoLease
    /\ \/ /\ state[w].exp <= Clock(NodeOf[w])
          /\ state' = [state EXCEPT ![w] = NoLease]
          /\ erred' = erred \cup {w}
          /\ UNCHANGED call
       \/ /\ state[w].exp > Clock(NodeOf[w])
          /\ state[w].rev < CounterMax
          /\ Ask(w, "publisher", "publish", state[w], SuccessorExpiry(w))
          /\ UNCHANGED <<state, erred>>
    /\ UNCHANGED <<dropped, revoked, storeVars, clockVars, ownerVars,
                   heartbeatVars>>

\* The answer: the successor takes the token's place, or the fence is emptied and
\* the caller gets an error.
PublishAnswered(w) ==
    /\ call[w]["publisher"].st \in {"accepted", "refused"}
    /\ state' = [state EXCEPT ![w] =
          IF call[w]["publisher"].st = "accepted" THEN call[w]["publisher"].tok ELSE NoLease]
    /\ erred' = IF call[w]["publisher"].st = "accepted" THEN erred ELSE erred \cup {w}
    /\ call' = [call EXCEPT ![w]["publisher"] = NoCall]
    /\ UNCHANGED <<dropped, revoked, storeVars, clockVars, ownerVars,
                   heartbeatVars>>

\* The store call fails or times out inside fenced_call.
PublishFailed(w) ==
    /\ call[w]["publisher"] # NoCall
    /\ Abandon({w}, {"publisher"})
    /\ state' = [state EXCEPT ![w] = NoLease]
    /\ erred' = erred \cup {w}
    /\ call' = [call EXCEPT ![w]["publisher"] = NoCall]
    /\ UNCHANGED <<dropped, revoked, row, removed, grantee, log, clockVars,
                   ownerVars, heartbeatVars>>

\* Mutant of PublishDropped: a drop guard empties the fence, and nobody is told.
PublishDroppedEmptying(w) ==
    /\ call[w]["publisher"] # NoCall
    /\ Abandon({w}, {"publisher"})
    /\ state' = [state EXCEPT ![w] = NoLease]
    /\ call' = [call EXCEPT ![w]["publisher"] = NoCall]
    /\ dropped' = dropped \cup {state[w]}
    /\ UNCHANGED <<erred, revoked, row, removed, grantee, log, clockVars,
                   ownerVars, heartbeatVars>>

\* The job's future is dropped while fenced_call waits (an aborted pass drops its
\* work before its lease): the lock is free again, the predecessor stays in the
\* fence, and no error reaches anybody.
PublishDropped(w) ==
    /\ call[w]["publisher"] # NoCall
    /\ Abandon({w}, {"publisher"})
    /\ call' = [call EXCEPT ![w]["publisher"] = NoCall]
    /\ dropped' = dropped \cup {state[w]}
    /\ UNCHANGED <<erred, state, revoked, row, removed, grantee, log, clockVars,
                   ownerVars, heartbeatVars>>

-----------------------------------------------------------------------------

Init ==
    /\ row = NoLease
    /\ removed = {}
    /\ now = 0
    /\ skew = [n \in Node |-> 0]
    /\ stray = {}
    /\ call = [w \in Worker |-> [t \in Task |-> NoCall]]
    /\ phase = [w \in Worker |-> "idle"]
    /\ state = [w \in Worker |-> NoLease]
    /\ revoked = [w \in Worker |-> TRUE]
    /\ lost = [w \in Worker |-> FALSE]
    /\ hb = [w \in Worker |-> "ended"]
    /\ mode = [w \in Worker |-> "select"]
    /\ current = [w \in Worker |-> NoLease]
    /\ deadline = [w \in Worker |-> 0]
    /\ attempt = [w \in Worker |-> 0]
    /\ grantee = NoWorker
    /\ log = <<>>
    /\ erred = {}
    /\ dropped = {}

OwnerStep(w) ==
    \/ Acquire(w) \/ Acquired(w) \/ NotAcquired(w)
    \/ Release(w) \/ Joined(w) \/ Released(w) \/ ReleaseFailed(w) \/ Drop(w)

HeartbeatStep(w) ==
    \/ Heartbeat(w) \/ HeartbeatCancelled(w) \/ HeartbeatExpired(w)
    \/ Renew(w) \/ RenewAnswered(w) \/ RenewFailed(w)

PublisherStep(w) ==
    \/ Publish(w) \/ PublishAnswered(w) \/ PublishFailed(w) \/ PublishDropped(w)

Next ==
    \/ Tick
    \/ \E n \in Node : AdjustClock(n) \/ BeginRemoval(n) \/ RollbackRemoval(n) \/ Crash(n)
    \/ \E w \in Worker : OwnerStep(w) \/ HeartbeatStep(w) \/ PublisherStep(w)
    \/ \E w \in Worker, t \in Task : Serve(w, t)
    \/ \E r \in stray : ServeStray(r)

Spec == Init /\ [][Next]_vars

-----------------------------------------------------------------------------
(* Fairness.  The store answers or the client's timeout fires; the tasks   *)
(* of a live process are scheduled; an interval timer keeps ticking; the   *)
(* FIFO lock serves every waiter.  Nothing forces a job to publish, to     *)
(* release, to be dropped or to crash.                                     *)

Fairness ==
    \A w \in Worker :
        /\ WF_vars(Acquired(w)) /\ WF_vars(NotAcquired(w))
        /\ WF_vars(Joined(w)) /\ WF_vars(Released(w) \/ ReleaseFailed(w))
        /\ SF_vars(Heartbeat(w) \/ HeartbeatCancelled(w))
        /\ SF_vars(Renew(w))
        /\ WF_vars(RenewAnswered(w) \/ RenewFailed(w))
        /\ WF_vars(PublishAnswered(w) \/ PublishFailed(w))

FairSpec == Spec /\ Fairness

-----------------------------------------------------------------------------
(* Properties.                                                             *)

Call ==
    {NoCall, Refused} \cup [st : {"sent"}, req : Request] \cup [st : {"accepted"}, tok : Lease]

\* Type correctness of the row, the tokens and the requests; in it, no fence and no
\* revision ever passes the largest integer its column can hold (CounterMax).
TypeOK ==
    /\ row \in Lease
    /\ removed \subseteq Node
    /\ now \in Nat
    /\ skew \in [Node -> 0 .. MaxSkew]
    /\ stray \subseteq Request
    /\ call \in [Worker -> [Task -> Call]]
    /\ phase \in [Worker -> Phase]
    /\ state \in [Worker -> Lease]
    /\ revoked \in [Worker -> BOOLEAN]
    /\ lost \in [Worker -> BOOLEAN]
    /\ hb \in [Worker -> {"waiting", "queued", "renewing", "ended", "failed"}]
    /\ mode \in [Worker -> {"select", "cancelled", "expired"}]
    /\ current \in [Worker -> Lease]
    /\ deadline \in [Worker -> Nat]
    /\ attempt \in [Worker -> Nat]
    /\ grantee \in Worker \cup {NoWorker}
    /\ log \in Seq(Publication)
    /\ erred \subseteq Worker
    /\ dropped \subseteq Lease

\* The lease protocol implements fenced publication: the row's fence is the number
\* granted, and its grantee the holder until a release or a removal closes it.
Promise == INSTANCE FencedPublication WITH fence <- row.fence, holder <- grantee

Implements == Promise!Spec

\* The catalogue never sees a superseded job: committed publications follow the
\* order of the fences, and one fence publishes for one worker only, whatever is
\* delayed, retried or executed after its caller has gone.
PublicationsInOrder == Promise!PublicationsInOrder

\* Why it holds, and what the proof carries through every step: a worker's token
\* is never ahead of the row; under the row's own fence it belongs to the worker
\* the fence was granted to; and once the fence is closed it matches no longer.
BehindRow(w, tok, r, granted) ==
    /\ tok.owner = NodeOf[w]
    /\ tok.fence <= r.fence
    /\ tok.fence = r.fence =>
         /\ tok.rev <= r.rev
         /\ granted \in {w, NoWorker}
         /\ granted = NoWorker => tok.owner # r.owner \/ tok.rev < r.rev

Behind(w, tok) == BehindRow(w, tok, row, grantee)

RequestSound(r) ==
    /\ r.op \in {"renew", "publish"} => Behind(r.by, r.tok)
    /\ r.op = "publish" => r.tok.rev < CounterMax

TokensBehindRow ==
    /\ \A w \in Worker : state[w] # NoLease => Behind(w, state[w])
    /\ \A r \in stray : RequestSound(r)
    /\ \A w \in Worker, t \in Task :
         /\ call[w][t].st = "sent" =>
              call[w][t].req.by = w /\ RequestSound(call[w][t].req)
         /\ call[w][t].st = "accepted" /\ call[w][t].tok # NoLease =>
              Behind(w, call[w][t].tok)

\* A request presents the exact row, unless somebody else has moved it on or a
\* publication the job itself dropped had presented the same token: the lock a
\* renewal and a publication hold across their store call, and the fence an error
\* empties, keep a job from fencing itself off with a token its own other task has
\* replaced.  Only what it dropped at the await can do that.
Superseded(tok) == row.fence # tok.fence \/ row.owner # tok.owner

NeverSelfFenced ==
    \A w \in Worker, t \in {"heartbeat", "publisher"} :
        call[w][t].st = "sent" =>
            LET tok == call[w][t].req.tok
            IN  row = tok \/ Superseded(tok) \/ tok \in dropped

\* While a node's removal is recorded no row names it as owner: an acquire or a
\* renewal it sent earlier cannot bring its ownership back.
RemovedOwnsNothing == row.owner \notin removed

\* When release() returns Ok no renewal it dispatched can still reach the store
\* (job_lease.rs: "awaiting it prevents a late Raft write after release returns").
CleanReleaseIsFinal ==
    \A w \in Worker : phase[w] = "ok" =>
        \A r \in stray : r.op = "renew" /\ r.by = w => r.tok.fence # current[w].fence

\* A heartbeat that stops while its job runs on is no secret: the loss token told
\* the job, or the error of the publication that emptied the fence did.
OrphanedJobIsTold ==
    \A w \in Worker :
        phase[w] = "active" /\ hb[w] \in {"ended", "failed"} => lost[w] \/ w \in erred

\* What a lease's end tells is true, whichever of its tasks comes to it first: a
\* clean release leaves no renewal behind, a heartbeat's end is no secret.
EndIsTold == CleanReleaseIsFinal /\ OrphanedJobIsTold

\* Mutant of MayNameArtwork: no safety window.
MayNameArtworkToTheEnd(w) ==
    /\ phase[w] \notin {"idle", "acquiring"}
    /\ ~revoked[w]
    /\ LockFree(w)
    /\ state[w] # NoLease
    /\ state[w].exp > Clock(NodeOf[w])

\* scoped_artwork_filename: the token, a safety window away from its expiry,
\* authorises a file that no transaction fences.
MayNameArtwork(w) ==
    /\ phase[w] \notin {"idle", "acquiring"}
    /\ ~revoked[w]
    /\ LockFree(w)
    /\ state[w] # NoLease
    /\ state[w].exp > Clock(NodeOf[w]) + SafetyWindow

\* With wall clocks that agree to within the safety window, and no node being
\* removed, two jobs never hold that authority together.
ArtworkExclusive ==
    \A v, w \in Worker : MayNameArtwork(v) /\ MayNameArtwork(w) => v = w

\* The holder's authority window only ever grows under its fence, even when its
\* wall clock moves backward between a heartbeat and a publication.
WindowNeverShrinks ==
    [][\A w \in Worker :
         grantee = w /\ grantee' = w /\ row'.fence = row.fence => row'.exp >= row.exp]_vars

\* release() is in its join of the heartbeat or in one of its attempts.
Releasing(w) == phase[w] \in {"joining", "releasing"}

\* A job runs on a lease that was taken over, and its fence does not say so yet.
RunsSuperseded(w) ==
    /\ phase[w] = "active"
    /\ Superseded(current[w])
    /\ ~revoked[w]
    /\ state[w] # NoLease

\* release() returns: the heartbeat it joins, the publication it waits behind
\* and the release it retries never wait for one another.  And a job whose lease
\* was taken over finds out, by its next heartbeat at the latest, or is over.
NobodyLingers ==
    \A w \in Worker :
        Releasing(w) \/ RunsSuperseded(w) ~> ~Releasing(w) /\ ~RunsSuperseded(w)

==============================================================================
