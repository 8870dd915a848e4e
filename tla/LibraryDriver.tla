----------------------------- MODULE LibraryDriver -----------------------------
(***************************************************************************)
(* One pass of a library worker: the driver that decides the order of the  *)
(* pass (plurx-worker-control) and the environment that owns its real      *)
(* resources (plurxd/src/library_work/env.rs).                             *)
(*                                                                         *)
(* A pass starts with a confirmed queue claim (`active') and a physical    *)
(* admission.  It acquires the library's domain lease, binds a publisher   *)
(* to it, runs the scan (the work future), and gives everything back in    *)
(* order.  Either lease may be lost while the pass runs, the machine may   *)
(* come under pressure, and the task may be aborted at any await, which    *)
(* drops what the pending perform() holds and then the environment, field  *)
(* by field.                                                               *)
(***************************************************************************)
EXTENDS Integers, Sequences, FiniteSets

CONSTANTS
    MaxMs,            \* i64::MAX, where saturating_add stops
    MaxTime,          \* bound: how far the clock runs
    RefusedDelay,     \* 5_000: back off from a domain somebody else holds
    InterruptedDelay, \* 1_000: back off from an interruption
    RetryDelay        \* the delays retry_delay_ms can return for this job

ASSUME ConstantAssumption ==
    /\ {MaxMs, MaxTime} \subseteq Nat
    /\ {RefusedDelay, InterruptedDelay} \cup RetryDelay \subseteq Nat \ {0}
    /\ MaxTime <= MaxMs

VARIABLES
    controller,  \* the lifecycle State: where the pass is, and why
    held,        \* Control::held, the driver's account of what the pass owns
    work,        \* Control::work
    pending,     \* the request the environment is performing
    remaining,   \* the requests that follow it
    settlement,  \* Payload::settlement
    slot,        \* the environment's Option fields that are Some
    carried,     \* what the perform() in progress has taken out of them
    future,      \* the work future: not there, running, or finished
    result,      \* what the work future returned
    fired,       \* the cancellation tokens and revocations that have fired
    life,        \* the task: driving, being dropped, or gone
    now,         \* the wall clock
    interrupt,   \* history: the outcome PollWork returned
    domainBackAt,\* history: when the domain was refused or its release returned
    sent         \* history: the settlement the store was asked to record

controlVars == <<controller, held, work, pending, remaining, settlement>>
ownedVars == <<slot, carried, future, result>>
historyVars == <<interrupt, domainBackAt, sent>>
vars == <<controlVars, ownedVars, historyVars, fired, life, now>>

-----------------------------------------------------------------------------
(* The lifecycle: library_lifecycle.rs.                                    *)

Interrupts == {"QueueLoss", "DomainLoss", "Pressure", "Completed"}
SettlementKind == {"Refused", "Interrupted", "Retry", "None"}

In(at, why) == [at |-> at, why |-> why]
State ==
    {In(at, "-") : at \in {"Initial", "Claimed", "DomainAcquired", "Bound", "Terminal"}}
      \cup {In("Processing", i) : i \in Interrupts}
      \cup {In("Releasing", k) : k \in SettlementKind}

NoSettlement == [kind |-> "none", notBefore |-> 0]
SettlementType == [kind : {"none", "Yield", "Retry"}, notBefore : 0 .. MaxMs]

\* Mutants of SaturatingAdd: the sum wraps, or outgrows its width.
WrappingAdd(t, d) == (t + d) % (MaxMs + 1)

UncheckedAdd(t, d) == t + d

SaturatingAdd(t, d) == IF t + d > MaxMs THEN MaxMs ELSE t + d

Outcome(next, effects, settle) ==
    {[next |-> next, effects |-> effects, settlement |-> settle]}
Cleanup == <<"RetireQueue", "DropAdmission">>

\* The end of a pass: settle the queue claim, unless there is nothing to settle.
Ending(settle) ==
    Outcome(In("Terminal", "-"),
            IF settle = NoSettlement THEN Cleanup ELSE <<"Settle", "RetireQueue", "DropAdmission">>,
            settle)

Yield(delay) == [kind |-> "Yield", notBefore |-> SaturatingAdd(now, delay)]
Retry(delay) == [kind |-> "Retry", notBefore |-> SaturatingAdd(now, delay)]

\* Mutant of SettlementOf: a lost claim is retried whatever the work returned.
SettlementOfLoss(why, ok) ==
    CASE why \in {"DomainLoss", "Pressure"} -> "Interrupted"
      [] why = "Completed" /\ ok -> "None"
      [] OTHER -> "Retry"

\* Why the domain is released, once the work has been joined.
SettlementOf(why, ok) ==
    CASE why \in {"DomainLoss", "Pressure"} -> "Interrupted"
      [] ok -> "None"
      [] OTHER -> "Retry"

\* Mutants of Effects: interrupted work is joined without being cancelled, or
\* without being fenced off first.
EffectsUncancelled(why) ==
    IF why = "Completed" THEN <<"JoinWork">> ELSE <<"RevokeDomain", "JoinWork">>

EffectsUnfenced(why) ==
    IF why = "Completed" THEN <<"JoinWork">> ELSE <<"CancelWork", "JoinWork">>

\* What the driver does about the outcome of polling the work.
Effects(why) ==
    IF why = "Completed" THEN <<"JoinWork">>
                         ELSE <<"RevokeDomain", "CancelWork", "JoinWork">>

ReleaseEffects == <<"DropPublisher", "ReleaseDomain">>

\* The outcomes of step(controller, event): none for a stale event.
Step(e) ==
    LET at == controller.at
        why == controller.why
    IN CASE at = "Claimed" /\ e.is = "DomainOutcome" /\ e.ok ->
              Outcome(In("DomainAcquired", "-"), <<"Bind">>, NoSettlement)
         [] at = "Claimed" /\ e.is = "DomainOutcome" /\ ~e.ok ->
              Ending(Yield(RefusedDelay))
         [] at = "DomainAcquired" /\ e.is = "BindOutcome" /\ e.ok ->
              Outcome(In("Bound", "-"), <<"PollWork">>, NoSettlement)
         [] at = "DomainAcquired" /\ e.is = "BindOutcome" /\ ~e.ok ->
              Outcome(In("Releasing", "Refused"), ReleaseEffects, NoSettlement)
         [] at = "Bound" /\ e.is = "Interrupt" ->
              Outcome(In("Processing", e.why), Effects(e.why), NoSettlement)
         [] at = "Processing" /\ e.is = "WorkJoined" ->
              Outcome(In("Releasing", SettlementOf(why, e.ok)), ReleaseEffects,
                      NoSettlement)
         [] at = "Releasing" /\ e.is = "DomainReleased" ->
              CASE why = "Refused" -> Ending(Yield(RefusedDelay))
                [] why = "Interrupted" -> Ending(Yield(InterruptedDelay))
                [] why = "Retry" -> UNION {Ending(Retry(d)) : d \in RetryDelay}
                [] why = "None" -> Ending(NoSettlement)
         [] OTHER -> {}

-----------------------------------------------------------------------------
(* The driver: library_driver.rs.                                          *)

\* emit(): the first of `requests' becomes the pending one.
Emit(requests) ==
    /\ pending' = IF requests = <<>> THEN "none" ELSE Head(requests)
    /\ remaining' = IF requests = <<>> THEN <<>> ELSE Tail(requests)

\* The reply carries no event: go on to the next request.
Continue ==
    /\ Emit(remaining)
    /\ UNCHANGED <<controller, settlement, work>>

\* The reply carries an event: install() what the lifecycle makes of it.
Install(e, joined) ==
    \E o \in Step(e) :
        /\ controller' = o.next
        /\ settlement' = o.settlement
        /\ Emit(o.effects)
        /\ work' = IF pending' = "PollWork" THEN "Running" ELSE joined

\* Control::initial(), after its Start event and first emission.
Init ==
    /\ controller = In("Claimed", "-")
    /\ held = {"admission", "queue"}
    /\ work = "Idle"
    /\ pending = "AcquireDomain"
    /\ remaining = <<>>
    /\ settlement = NoSettlement
    /\ slot = {"admission", "active"}
    /\ carried = {}
    /\ future = "none"
    /\ result = "none"
    /\ fired = {}
    /\ life = "driving"
    /\ now = 0
    /\ interrupt = "none"
    /\ domainBackAt = 0
    /\ sent = NoSettlement

-----------------------------------------------------------------------------
(* The environment: TokioEnvironment::perform, one action per request, two *)
(* where the task can be aborted in between with something taken out.      *)

Performing(request) == life = "driving" /\ pending = request

Verdict(ok) == IF ok THEN "ok" ELSE "failed"

AcquireDomain(acquired) ==
    /\ Performing("AcquireDomain")
    /\ slot' = IF acquired THEN slot \cup {"lease"} ELSE slot
    /\ held' = IF acquired THEN held \cup {"domain"} ELSE held \ {"domain"}
    /\ domainBackAt' = IF acquired THEN domainBackAt ELSE now
    /\ Install([is |-> "DomainOutcome", ok |-> acquired], work)
    /\ UNCHANGED <<carried, future, result, fired, life, now, interrupt, sent>>

\* Mutant of Bind: the driver counts the publisher of an accepted binding only.
BindCountsAccepted(accepted) ==
    /\ Performing("Bind")
    /\ slot' = slot \cup {"publisher"}
    /\ held' = IF accepted THEN held \cup {"publisher"} ELSE held
    /\ Install([is |-> "BindOutcome", ok |-> accepted], work)
    /\ UNCHANGED <<carried, future, result, fired, life, now, historyVars>>

\* The publisher exists whether or not the binding is accepted.
Bind(accepted) ==
    /\ Performing("Bind")
    /\ slot' = slot \cup {"publisher"}
    /\ held' = held \cup {"publisher"}
    /\ Install([is |-> "BindOutcome", ok |-> accepted], work)
    /\ UNCHANGED <<carried, future, result, fired, life, now, historyVars>>

\* poll_work(): the future takes the publisher and a reference to the lease.
StartWork ==
    /\ Performing("PollWork")
    /\ future = "none"
    /\ slot' = (slot \ {"publisher"}) \cup {"work"}
    /\ future' = "running"
    /\ UNCHANGED <<controlVars, carried, result, fired, life, now, historyVars>>

\* The future's own driver (run_source_admitted_probe) looks at the machine too,
\* and cancels the work when it has to give way.
WorkGivesWay ==
    /\ Performing("PollWork")
    /\ future = "running"
    /\ fired' = fired \cup {"preempted", "cancelled"}
    /\ UNCHANGED <<controlVars, ownedVars, life, now, historyVars>>

\* select_work(): queue loss, then domain loss, then the work, then a tick that
\* finds the machine under pressure.
Selected ==
    IF "queueLost" \in fired THEN {"QueueLoss"}
    ELSE IF "domainLost" \in fired THEN {"DomainLoss"}
    ELSE {"Completed", "Pressure"}

PollWork(why, ok) ==
    /\ Performing("PollWork")
    /\ future = "running"
    /\ why \in Selected
    /\ interrupt' = why
    /\ IF why = "Completed"
         THEN /\ future' = "ended"
              /\ result' = Verdict(ok)
              /\ slot' = slot \cup {"completed"}
              /\ Install([is |-> "Interrupt", why |-> why], "Completed")
         ELSE /\ Install([is |-> "Interrupt", why |-> why], work)
              /\ UNCHANGED <<future, result, slot>>
    /\ UNCHANGED <<held, carried, fired, life, now, domainBackAt, sent>>

RevokeDomain ==
    /\ Performing("RevokeDomain")
    /\ fired' = fired \cup {"revoked"}
    /\ Continue
    /\ UNCHANGED <<held, ownedVars, life, now, historyVars>>

CancelWork ==
    /\ Performing("CancelWork")
    /\ fired' = fired \cup {"cancelled"}
    /\ Continue
    /\ UNCHANGED <<held, ownedVars, life, now, historyVars>>

\* A completed future is dropped and its result handed over.
JoinCompleted ==
    /\ Performing("JoinWork")
    /\ "completed" \in slot
    /\ slot' = (slot \ {"work", "completed"}) \cup {"publisher"}
    /\ Install([is |-> "WorkJoined", ok |-> result = "ok"], "Joined")
    /\ UNCHANGED <<held, carried, future, result, fired, life, now, historyVars>>

\* A running one is awaited ...
AwaitWork ==
    /\ Performing("JoinWork")
    /\ "work" \in slot /\ "completed" \notin slot
    /\ slot' = slot \ {"work"}
    /\ carried' = {"work"}
    /\ UNCHANGED <<controlVars, future, result, fired, life, now, historyVars>>

\* ... until it returns its publisher and its verdict.
WorkReturns(ok) ==
    /\ Performing("JoinWork")
    /\ "work" \in carried
    /\ carried' = {}
    /\ slot' = slot \cup {"publisher"}
    /\ future' = "ended"
    /\ result' = Verdict(ok)
    /\ Install([is |-> "WorkJoined", ok |-> ok], "Joined")
    /\ UNCHANGED <<held, fired, life, now, historyVars>>

DropPublisher ==
    /\ Performing("DropPublisher")
    /\ slot' = slot \ {"publisher"}
    /\ held' = held \ {"publisher"}
    /\ Continue
    /\ UNCHANGED <<carried, future, result, fired, life, now, historyVars>>

\* ActiveJobLease::release revokes first; its answer may be an error.
ReleaseDomain ==
    /\ Performing("ReleaseDomain")
    /\ "lease" \in slot
    /\ slot' = slot \ {"lease"}
    /\ carried' = {"lease"}
    /\ fired' = fired \cup {"revoked"}
    /\ UNCHANGED <<controlVars, future, result, life, now, historyVars>>

DomainReleased ==
    /\ Performing("ReleaseDomain")
    /\ "lease" \in carried
    /\ carried' = {}
    /\ held' = held \ {"domain"}
    /\ domainBackAt' = now
    /\ Install([is |-> "DomainReleased"], work)
    /\ UNCHANGED <<slot, future, result, fired, life, now, interrupt, sent>>

\* Mutant of Settle: the loss of the claim is not looked at.
SettleAnyway ==
    /\ Performing("Settle")
    /\ sent' = settlement
    /\ Continue
    /\ UNCHANGED <<held, ownedVars, fired, life, now, interrupt, domainBackAt>>

\* JobFence::settle does nothing once the claim is lost, nor when the work has
\* settled the job itself or the claim's deadline has passed.
Settle ==
    /\ Performing("Settle")
    /\ sent' \in IF "queueLost" \in fired THEN {sent} ELSE {sent, settlement}
    /\ Continue
    /\ UNCHANGED <<held, ownedVars, fired, life, now, interrupt, domainBackAt>>

\* ActiveBackgroundJob::finish fires the loss token before it joins and retires.
RetireQueue ==
    /\ Performing("RetireQueue")
    /\ "active" \in slot
    /\ slot' = slot \ {"active"}
    /\ carried' = {"active"}
    /\ fired' = fired \cup {"queueLost"}
    /\ UNCHANGED <<controlVars, future, result, life, now, historyVars>>

QueueRetired ==
    /\ Performing("RetireQueue")
    /\ "active" \in carried
    /\ carried' = {}
    /\ held' = held \ {"queue"}
    /\ Continue
    /\ UNCHANGED <<slot, future, result, fired, life, now, historyVars>>

DropAdmission ==
    /\ Performing("DropAdmission")
    /\ slot' = slot \ {"admission"}
    /\ held' = held \ {"admission"}
    /\ Continue
    /\ UNCHANGED <<carried, future, result, fired, life, now, historyVars>>

\* run_driver() returns and the environment goes out of scope.
Finish ==
    /\ Performing("none")
    /\ life' = "dropping"
    /\ UNCHANGED <<controlVars, ownedVars, fired, now, historyVars>>

-----------------------------------------------------------------------------
(* What happens to the pass.                                               *)

LoseQueue ==
    /\ life = "driving" /\ "active" \in slot
    /\ fired' = fired \cup {"queueLost"}
    /\ UNCHANGED <<controlVars, ownedVars, life, now, historyVars>>

LoseDomain ==
    /\ life = "driving" /\ "lease" \in slot
    /\ fired' = fired \cup {"domainLost"}
    /\ UNCHANGED <<controlVars, ownedVars, life, now, historyVars>>

Tick ==
    /\ now < MaxTime
    /\ now' = now + 1
    /\ UNCHANGED <<controlVars, ownedVars, fired, life, historyVars>>

\* The task is aborted: the perform() in progress goes first ...
Abort ==
    /\ life = "driving"
    /\ life' = "dropping"
    /\ carried' = {}
    /\ future' = IF "work" \in carried THEN "ended" ELSE future
    /\ fired' = fired \cup (IF "lease" \in carried THEN {"revoked", "domainLost"} ELSE {})
                      \cup (IF "active" \in carried THEN {"queueLost"} ELSE {})
    /\ UNCHANGED <<controlVars, slot, result, now, historyVars>>

\* Mutant of FieldOrder: the queue claim is declared first.
FieldOrderClaimFirst ==
    <<"active", "work", "completed", "publisher", "lease", "admission">>

\* The declaration order of TokioEnvironment's owning fields.
FieldOrder == <<"work", "completed", "publisher", "lease", "admission", "active">>

\* ... then the environment's fields, one at a time.
DropField(f) ==
    /\ life = "dropping"
    /\ f \in slot
    /\ \A i, j \in DOMAIN FieldOrder : FieldOrder[i] = f /\ j < i => FieldOrder[j] \notin slot
    /\ slot' = slot \ {f}
    /\ future' = IF f = "work" THEN "ended" ELSE future
    /\ fired' = fired \cup (CASE f = "lease" -> {"revoked", "domainLost"}
                              [] f = "active" -> {"queueLost"}
                              [] OTHER -> {})
    /\ UNCHANGED <<controlVars, carried, result, life, now, historyVars>>

Dropped ==
    /\ life = "dropping" /\ slot = {}
    /\ life' = "gone"
    /\ UNCHANGED <<controlVars, ownedVars, fired, now, historyVars>>

-----------------------------------------------------------------------------

Drive ==
    \/ \E ok \in BOOLEAN :
         \/ AcquireDomain(ok) \/ Bind(ok)
         \/ \E why \in Interrupts : PollWork(why, ok)
         \/ WorkReturns(ok)
    \/ StartWork \/ RevokeDomain \/ CancelWork
    \/ JoinCompleted \/ AwaitWork
    \/ DropPublisher \/ ReleaseDomain \/ DomainReleased
    \/ Settle \/ RetireQueue \/ QueueRetired \/ DropAdmission
    \/ Finish

Next ==
    \/ Drive
    \/ WorkGivesWay
    \/ LoseQueue \/ LoseDomain \/ Tick
    \/ Abort
    \/ \E f \in slot : DropField(f)
    \/ Dropped

Spec == Init /\ [][Next]_vars

\* Every await but two comes back: store calls time out.  The work ends on its
\* own only if it wants to, but it does return once it has been cancelled or has
\* seen the queue claim go.
Told == fired \cap {"cancelled", "queueLost"} # {}

Answer ==
    \/ \E ok \in BOOLEAN :
         \/ AcquireDomain(ok) \/ Bind(ok)
         \/ \E why \in {"QueueLoss", "DomainLoss"} : PollWork(why, ok)
         \/ WorkReturns(ok) /\ Told
    \/ StartWork \/ RevokeDomain \/ CancelWork
    \/ JoinCompleted \/ AwaitWork
    \/ DropPublisher \/ ReleaseDomain \/ DomainReleased
    \/ Settle \/ RetireQueue \/ QueueRetired \/ DropAdmission
    \/ Finish

FairSpec ==
    /\ Spec
    /\ WF_vars(Answer)
    /\ WF_vars(\E f \in slot : DropField(f))
    /\ WF_vars(Dropped)

-----------------------------------------------------------------------------
(* Properties.                                                             *)

Slots == {"work", "completed", "publisher", "lease", "admission", "active"}
Alive(x) == x \in slot \cup carried

\* Type correctness of the driver, the environment and the task around them.
TypeOK ==
    /\ controller \in State
    /\ held \subseteq {"admission", "queue", "domain", "publisher"}
    /\ work \in {"Idle", "Running", "Completed", "Joined"}
    /\ settlement \in SettlementType /\ sent \in SettlementType
    /\ slot \subseteq Slots /\ carried \subseteq {"work", "lease", "active"}
    /\ future \in {"none", "running", "ended"}
    /\ result \in {"none", "ok", "failed"}
    /\ fired \subseteq {"queueLost", "domainLost", "cancelled", "revoked", "preempted"}
    /\ life \in {"driving", "dropping", "gone"}
    /\ now \in 0 .. MaxTime /\ domainBackAt \in 0 .. MaxTime

\* No expect(), try_unwrap() or InvalidReply of a pass can panic, whatever is lost
\* or finishes when: each request finds the resource it takes, the lease has a
\* single owner when it is released, and the lifecycle accepts the reply.
NeverPanics ==
    life = "driving" =>
        CASE pending = "AcquireDomain" -> controller.at = "Claimed"
          [] pending = "Bind" -> "lease" \in slot /\ controller.at = "DomainAcquired"
          [] pending = "PollWork" ->
                /\ {"lease", "admission"} \subseteq slot
                /\ future = "none" => "publisher" \in slot
                /\ controller.at = "Bound"
          [] pending = "RevokeDomain" -> "lease" \in slot
          [] pending = "JoinWork" -> Alive("work") /\ controller.at = "Processing"
          [] pending = "DropPublisher" -> "publisher" \in slot
          [] pending = "ReleaseDomain" ->
                /\ Alive("lease")
                /\ future # "running"
                /\ controller.at = "Releasing"
                /\ controller.why = "Retry" => result = "failed"
          [] pending = "Settle" -> settlement # NoSettlement
          [] pending = "RetireQueue" -> Alive("active")
          [] pending = "DropAdmission" -> "admission" \in slot
          [] OTHER -> TRUE

\* Control::held, which the code's own proofs argue about, is what the
\* environment really holds, the publisher counted wherever it travels.
MirrorsEnvironment ==
    life = "driving" =>
        /\ "admission" \in held <=> Alive("admission")
        /\ "queue" \in held <=> Alive("active")
        /\ "domain" \in held <=> Alive("lease")
        /\ "publisher" \in held <=>
              "publisher" \in slot \/ "completed" \in slot \/ future = "running"

\* The driver's picture of the environment is right, to the request and the
\* resource: nothing panics, and nothing is held that is not counted.
EnvironmentAsExpected == NeverPanics /\ MirrorsEnvironment

\* Custody is nested, in a pass that finishes and in one that is dropped at any
\* await: work runs, and a publisher lives, only under the domain lease, and the
\* lease is held only under the admission and the queue claim.
CustodyNested ==
    /\ future = "running" => Alive("work") /\ Alive("lease")
    /\ Alive("publisher") \/ Alive("completed") => "lease" \in slot
    /\ Alive("lease") => Alive("admission") /\ Alive("active")

\* The driver never waits for running work it has not both fenced off from the
\* catalogue and told to stop.
InterruptedWorkIsTold ==
    "work" \in carried => {"revoked", "cancelled"} \subseteq fired

\* Work outlives neither what covers it nor an interruption it was not told of.
WorkIsCovered == CustodyNested /\ InterruptedWorkIsTold

\* The queue is told to run the job again only once the domain is out of the
\* way, and for a time after that, so the next pass does not meet this one.
SettledAfterRelease ==
    sent # NoSettlement =>
        /\ ~Alive("lease")
        /\ sent.notBefore > domainBackAt \/ sent.notBefore = MaxMs

\* An attempt is charged as a failure only for work that came back with an error
\* of its own accord: not when the driver saw the domain, the machine or the queue
\* claim taken away from it.
ChargedOnlyForFailure ==
    sent.kind = "Retry" => result = "failed" /\ interrupt = "Completed"

\* What the queue is told of a pass is true: when it may run again, and whether
\* it failed, though a loss may meet the settlement at any await.
SettlementIsTrue == SettledAfterRelease /\ ChargedOnlyForFailure

\* An attempt that gave way to foreground work is not charged as a failure.
PreemptionNotCharged ==
    sent.kind = "Retry" => "preempted" \notin fired

\* A pass that loses its queue claim or its domain lease gives everything back.
LossEndsPass == (fired \cap {"queueLost", "domainLost"} # {}) ~> (slot \cup carried = {})
=============================================================================
