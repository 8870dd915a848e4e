---- MODULE ServingFence ----
(***************************************************************************)
(* Serving authority on one node (plurxd/src/serving_fence.rs) and what    *)
(* hangs on it: the 25 ms poller that publishes losses and recoveries of   *)
(* quorum authority, the owner of the rolling sessions, which gives an     *)
(* outage a grace before it ends them (transcode/manager/control.rs), the  *)
(* buffered responses that wait out an outage (http/hls/response.rs and    *)
(* fence.rs), and the registration of new sessions beside all of it.       *)
(*                                                                         *)
(* The authority word is one atomic store; the count of announced losses   *)
(* is another, and readers look at count, word, count.  Commits hold the   *)
(* read side of an RwLock that a publication takes for writing.  A watch   *)
(* channel keeps only its newest value, so its reader may miss values.     *)
(* What the quorum says at a poll is external.                             *)
(***************************************************************************)
EXTENDS Naturals

CONSTANTS
    Requests,       \* buffered responses of existing sessions, ever again
    Starts,         \* rolling sessions being started, ever again
    Grace,          \* SERVING_FENCE_SESSION_GRACE, in ticks
    MaxLosses,      \* bound: losses of authority
    Punctual,       \* the poller's period is longer than a ready task waits
    None

ASSUME GraceIsPositive == Grace \in Nat \ {0}
ASSUME LossesAreBounded == MaxLosses \in Nat
ASSUME PunctualIsBoolean == Punctual \in BOOLEAN
ASSUME NoneIsApart == None \notin Nat /\ None \notin Starts

VARIABLES
    word,           \* AuthorityWord: ready and the loss generation
    watch,          \* ServingFence.state, the watch channel
    unseen,         \* its newest value has not reached the owner
    publisher,      \* the poller's publication under way
    glance,         \* each response's reading of count, word and count
    request,        \* the life of each response
    start,          \* the life of each session
    registry,       \* who holds the lock of the session registry
    resolution,     \* outage_resolution: how the owner says an outage stands
    owner,          \* serving_fence_loop
    grace,          \* its SessionGrace, and the time since it saw the loss
    swept,          \* history: the generation of the last teardown
    dark            \* history: ticks waited in an outage, and ticks since

vars == <<word, watch, unseen, publisher, glance, request, start, registry,
          resolution, owner, grace, swept, dark>>
authority == <<word, watch, publisher>>
outage == <<resolution, owner, grace, swept, dark>>

Generations == 0..MaxLosses
Words == [ready : BOOLEAN, gen : Generations]
Ticks == 0..Grace
Least(a, b) == IF a <= b THEN a ELSE b

Polling == [pc |-> "poll", desired |-> FALSE]
NoGlance == [at |-> "none", pending |-> 0, word |-> [ready |-> FALSE, gen |-> 0]]
NoRequest == [pc |-> "out", gen |-> 0, after |-> 0, retried |-> FALSE]
NoSession == [pc |-> "out", gen |-> 0]

Init ==
    /\ word = [ready |-> FALSE, gen |-> 0]
    /\ watch = word
    /\ unseen = FALSE
    /\ publisher = Polling
    /\ glance = [r \in Requests |-> NoGlance]
    /\ request = [r \in Requests |-> NoRequest]
    /\ start = [s \in Starts |-> NoSession]
    /\ registry = None
    /\ resolution = [gen |-> 0, state |-> "recovered"]
    /\ owner = [pc |-> "top", gen |-> 0, torn |-> None, known |-> 0]
    /\ grace = [spent |-> 0, since |-> None, elapsed |-> 0]
    /\ swept = 0
    /\ dark = [waited |-> 0, calm |-> 0]

-----------------------------------------------------------------------------
(* Publishing authority. *)

\* loss_transitions_pending: the poller is the only publisher.
Pending == IF publisher.pc # "poll" /\ ~publisher.desired THEN 1 ELSE 0

\* tokio's RwLock is fair: a writer in the queue keeps new readers out.
WriterAhead == publisher.pc \in {"lock", "stored", "sent"}
\* Mutant: a publication does not wait for the commits under way.
NobodyIsWaitedFor == TRUE
ReadersOut == \A r \in Requests : request[r].pc \notin {"guarded", "committing"}

AllRetired == \A s \in Starts : start[s].pc # "fenced"
GraceIsOver == grace.elapsed >= Grace - grace.spent

\* The owner, or a registration inside its lock, waits for nobody.
Prompt ==
    \/ owner.pc \in {"top", "resolve", "recovered", "expired", "bottom"}
    \/ owner.pc = "idle" /\ unseen
    \/ owner.pc = "waiting" /\ (unseen \/ GraceIsOver)
    \/ owner.pc \in {"counting", "sweep"} /\ registry = None
    \/ owner.pc = "stopping" /\ AllRetired
    \/ registry # None

\* A poll decides; a loss is announced before the write lock is asked for.
Poll(desired) ==
    /\ publisher.pc = "poll"
    /\ desired # word.ready
    /\ ~desired => word.gen < MaxLosses
    /\ Punctual => ~Prompt
    /\ publisher' = [pc |-> "lock", desired |-> desired]
    /\ UNCHANGED <<word, watch, unseen, glance, request, start, registry, outage>>

Lost(w) == [ready |-> FALSE, gen |-> w.gen + 1]

\* Under the write lock: ready and the generation change in one store.
Store ==
    /\ publisher.pc = "lock"
    /\ ReadersOut
    /\ word' = IF publisher.desired THEN [word EXCEPT !.ready = TRUE] ELSE Lost(word)
    /\ publisher' = [publisher EXCEPT !.pc = "stored"]
    /\ UNCHANGED <<watch, unseen, glance, request, start, registry, outage>>

Send ==
    /\ publisher.pc = "stored"
    /\ watch' = word
    /\ unseen' = TRUE
    /\ publisher' = [publisher EXCEPT !.pc = "sent"]
    /\ UNCHANGED <<word, glance, request, start, registry, outage>>

\* The lock is dropped before the announcement of a loss is withdrawn.
Unlock ==
    /\ publisher.pc = "sent"
    /\ publisher' = IF publisher.desired THEN Polling ELSE [publisher EXCEPT !.pc = "unlocked"]
    /\ UNCHANGED <<word, watch, unseen, glance, request, start, registry, outage>>

Withdraw ==
    /\ publisher.pc = "unlocked"
    /\ publisher' = Polling
    /\ UNCHANGED <<word, watch, unseen, glance, request, start, registry, outage>>

-----------------------------------------------------------------------------
(* observe(): the count, the word and the count again, until both counts   *)
(* agree.                                                                  *)

Observing(r) == request[r].pc \in {"arriving", "admitting", "guarded", "again"}

ReadCount(r) ==
    /\ Observing(r)
    /\ glance[r].at = "none"
    /\ glance' = [glance EXCEPT ![r] = [@ EXCEPT !.at = "count", !.pending = Pending]]
    /\ UNCHANGED <<authority, unseen, request, start, registry, outage>>

ReadWord(r) ==
    /\ glance[r].at = "count"
    /\ glance' = [glance EXCEPT ![r] = [@ EXCEPT !.at = "word", !.word = word]]
    /\ UNCHANGED <<authority, unseen, request, start, registry, outage>>

ReadAgain(r) ==
    /\ glance[r].at = "word"
    /\ glance[r].pending # Pending
    /\ glance' = [glance EXCEPT ![r] = NoGlance]
    /\ UNCHANGED <<authority, unseen, request, start, registry, outage>>

\* Mutant: the count is not read again after the word.
ObservedOnce(r) == glance[r].at = "word"
\* The second count agrees with the first: the observation is over.
Observed(r) == glance[r].at = "word" /\ glance[r].pending = Pending
LookAway(r) == glance' = [glance EXCEPT ![r] = NoGlance]

Admitted(g) == g.word.ready /\ g.pending = 0
\* outage_baseline_of: the generation last held, when nothing is held now.
OutageBaseline(g) == IF g.word.ready \/ g.word.gen = 0 THEN g.word.gen ELSE g.word.gen - 1
IsCurrent(g, gen) == Admitted(g) /\ g.word.gen = gen

-----------------------------------------------------------------------------
(* A buffered response: held at the gate while the node is fenced, then    *)
(* admitted, committed, and run once more if authority alone refused it.   *)

Waiting(r) == request[r].pc \in {"held", "recovering"}

\* A read of an existing session is held first; other routes are not.
Arrive(r) ==
    /\ request[r].pc = "out"
    /\ \E pc \in {"arriving", "gate"} : request' = [request EXCEPT ![r].pc = pc]
    /\ UNCHANGED <<authority, unseen, glance, start, registry, outage>>

\* hold_for_outage_resolution, and the wait for authority before the retry.
Look(r) ==
    /\ request[r].pc \in {"arriving", "again"}
    /\ Observed(r)
    /\ LookAway(r)
    /\ LET held == request[r].pc = "arriving"
       IN  request' = [request EXCEPT ![r] =
             IF Admitted(glance[r])
             THEN [@ EXCEPT !.pc = IF held THEN "gate" ELSE "admitting",
                            !.after = 0, !.retried = ~held]
             ELSE [@ EXCEPT !.pc = IF held THEN "held" ELSE "recovering",
                            !.after = OutageBaseline(glance[r])]]
    /\ UNCHANGED <<authority, unseen, start, registry, outage>>

\* serving_gate: what is fenced is answered with 503.
Gate(r) ==
    /\ request[r].pc = "gate"
    /\ request' = [request EXCEPT ![r] =
         IF word.ready /\ Pending = 0 THEN [NoRequest EXCEPT !.pc = "admitting"]
                                      ELSE NoRequest]
    /\ UNCHANGED <<authority, unseen, glance, start, registry, outage>>

\* Authority alone refused the run: wait for the outage after gen, once.
Refused(rec, gen) ==
    IF rec.retried THEN NoRequest ELSE [rec EXCEPT !.pc = "recovering", !.gen = 0, !.after = gen]

Admit(r) ==
    /\ request[r].pc = "admitting"
    /\ Observed(r)
    /\ LookAway(r)
    /\ request' = [request EXCEPT ![r] =
         IF Admitted(glance[r])
         THEN [@ EXCEPT !.pc = "admitted", !.gen = glance[r].word.gen]
         ELSE Refused(@, OutageBaseline(glance[r]))]
    /\ UNCHANGED <<authority, unseen, start, registry, outage>>

TakeGuard(r) ==
    /\ request[r].pc = "admitted"
    /\ ~WriterAhead
    /\ request' = [request EXCEPT ![r].pc = "guarded"]
    /\ UNCHANGED <<authority, unseen, glance, start, registry, outage>>

\* commit_guard_before: the guard is kept only if authority is still current.
CheckGuard(r) ==
    /\ request[r].pc = "guarded"
    /\ Observed(r)
    /\ LookAway(r)
    /\ request' = [request EXCEPT ![r] =
         IF IsCurrent(glance[r], @.gen) THEN [@ EXCEPT !.pc = "committing"]
                                        ELSE Refused(@, @.gen)]
    /\ UNCHANGED <<authority, unseen, start, registry, outage>>

Commit(r) ==
    /\ request[r].pc = "committing"
    /\ request' = [request EXCEPT ![r] = NoRequest]
    /\ UNCHANGED <<authority, unseen, glance, start, registry, outage>>

\* wait_for_outage_resolution: newer than what was last held, and over.
Answerable(r) == resolution.gen > request[r].after /\ resolution.state # "pending"

\* The gate is what a hold returns to; a response's wait ends in a 503.
Released(r) ==
    IF request[r].pc = "held" THEN [NoRequest EXCEPT !.pc = "gate"] ELSE NoRequest

Answer(r) ==
    /\ Waiting(r)
    /\ Answerable(r)
    /\ request' = [request EXCEPT ![r] =
         IF resolution.state = "expired" THEN Released(r)
         ELSE [@ EXCEPT !.pc = IF request[r].pc = "held" THEN "arriving" ELSE "again",
                        !.after = 0]]
    /\ UNCHANGED <<authority, unseen, glance, start, registry, outage>>

\* Its own deadline or the outage's expires_at.
TimeOut(r) ==
    /\ Waiting(r) \/ request[r].pc = "admitted"
    /\ request' = [request EXCEPT ![r] = Released(r)]
    /\ UNCHANGED <<authority, unseen, glance, start, registry, outage>>

-----------------------------------------------------------------------------
(* Registering a rolling session (register_session). *)

\* A session is admitted under the generation authority is held in now.
Begin(s) ==
    /\ start[s].pc = "out"
    /\ word.ready /\ Pending = 0
    /\ start' = [start EXCEPT ![s] = [pc |-> "starting", gen |-> word.gen]]
    /\ UNCHANGED <<authority, unseen, glance, request, registry, outage>>

\* Mutant: what was current at the admission is taken for current.
RegistrableOnceAdmitted(gen) == TRUE
Registrable(gen) == word.ready /\ Pending = 0 /\ word.gen = gen

\* Inside the lock that the teardown takes too, the generation is checked
\* again, and then the session is inserted; a loss may be published between.
LockRegistry(s) ==
    /\ start[s].pc = "starting"
    /\ registry = None
    /\ IF Registrable(start[s].gen)
       THEN registry' = s /\ start' = [start EXCEPT ![s].pc = "registering"]
       ELSE registry' = None /\ start' = [start EXCEPT ![s] = NoSession]
    /\ UNCHANGED <<authority, unseen, glance, request, outage>>

Register(s) ==
    /\ start[s].pc = "registering"
    /\ start' = [start EXCEPT ![s].pc = "live"]
    /\ registry' = None
    /\ UNCHANGED <<authority, unseen, glance, request, outage>>

\* A session also ends for reasons of its own.
EndSession(s) ==
    /\ start[s].pc = "live"
    /\ start' = [start EXCEPT ![s] = NoSession]
    /\ UNCHANGED <<authority, unseen, glance, request, registry, outage>>

\* retire_session_until_with_cause, of a session the teardown has fenced.
Retire(s) ==
    /\ start[s].pc = "fenced"
    /\ start' = [start EXCEPT ![s] = NoSession]
    /\ UNCHANGED <<authority, unseen, glance, request, registry, outage>>

-----------------------------------------------------------------------------
(* The owner of running work: serving_fence_loop. *)

Owner(pc) == owner' = [owner EXCEPT !.pc = pc]
Sees == unseen' = FALSE

\* Mutant: every loss gets a grace of its own.
NothingSpent == 0
\* Losses closer than a grace to the last recovery share one budget.
SpentAt == IF grace.since = Grace THEN 0 ELSE grace.spent

\* Mutant: what was expired once needs no telling again.
NotReannounced == resolution
\* A loss after a recovery the owner never saw is expired as well.
Reannounced == IF watch.gen = owner.torn THEN resolution
               ELSE [gen |-> watch.gen, state |-> "expired"]

\* Torn down and still fenced: nothing is resolved until authority is back.
StayTorn ==
    /\ owner.pc = "top"
    /\ owner.torn # None /\ ~watch.ready
    /\ Sees
    /\ resolution' = Reannounced
    /\ owner' = [owner EXCEPT !.pc = "idle", !.torn = watch.gen, !.known = watch.gen]
    /\ UNCHANGED <<authority, glance, request, start, registry, grace, swept, dark>>

\* The outage's resolution is pending from here to the end of its grace.
NoticeLoss ==
    /\ owner.pc = "top"
    /\ owner.torn = None \/ watch.ready
    /\ ~watch.ready \/ watch.gen # owner.known
    /\ Sees
    /\ resolution' = [gen |-> watch.gen, state |-> "pending"]
    /\ owner' = [owner EXCEPT !.pc = "resolve", !.known = watch.gen]
    /\ grace' = [grace EXCEPT !.elapsed = 0]
    /\ UNCHANGED <<authority, glance, request, start, registry, swept, dark>>

NoLoss ==
    /\ owner.pc = "top"
    /\ watch.ready /\ watch.gen = owner.known
    /\ Sees
    /\ Owner("bottom")
    /\ UNCHANGED <<authority, glance, request, start, registry, resolution, grace, swept, dark>>

\* Authority is back inside the grace: what the outage took is charged.
Recover(spent) ==
    /\ owner' = [owner EXCEPT !.pc = "recovered", !.gen = watch.gen]
    /\ grace' = [spent |-> Least(spent + grace.elapsed, Grace), since |-> 0, elapsed |-> 0]

\* resolve_loss_from, on entry and at every change of the watch.
Resolve ==
    /\ owner.pc = "resolve" \/ (owner.pc = "waiting" /\ unseen)
    /\ Sees
    /\ LET spent == IF owner.pc = "resolve" THEN SpentAt ELSE grace.spent
       IN  IF watch.ready THEN Recover(spent)
           ELSE Owner("waiting") /\ grace' = [grace EXCEPT !.spent = spent]
    /\ UNCHANGED <<authority, glance, request, start, registry, resolution, swept, dark>>

Expire ==
    /\ owner.pc = "waiting"
    /\ ~unseen
    /\ GraceIsOver
    /\ Owner("expired")
    /\ grace' = [spent |-> 0, since |-> None, elapsed |-> 0]
    /\ dark' = [waited |-> 0, calm |-> 0]
    /\ UNCHANGED <<authority, unseen, glance, request, start, registry, resolution, swept>>

\* Mutant: the generation is read when the recovery is told.
RecoveryOfNow == [gen |-> watch.gen, state |-> "recovered"]
\* Under the generation that was seen ready, whatever the watch holds now.
RecoveryTold == [gen |-> owner.gen, state |-> "recovered"]

TellRecovered ==
    /\ owner.pc = "recovered"
    /\ resolution' = RecoveryTold
    /\ owner' = [owner EXCEPT !.pc = "counting", !.gen = 0]
    /\ UNCHANGED <<authority, unseen, glance, request, start, registry, grace, swept, dark>>

\* Counting the kept sessions waits for the registry's lock.
CountKept ==
    /\ owner.pc = "counting"
    /\ registry = None
    /\ Owner("bottom")
    /\ UNCHANGED <<authority, unseen, glance, request, start, registry, resolution, grace, swept, dark>>

\* Told first: a held response must not outwait the teardown.
TellExpired ==
    /\ owner.pc = "expired"
    /\ resolution' = [gen |-> watch.gen, state |-> "expired"]
    /\ owner' = [owner EXCEPT !.pc = "sweep", !.gen = watch.gen]
    /\ UNCHANGED <<authority, unseen, glance, request, start, registry, grace, swept, dark>>

\* stop_all_sessions_for_serving_fence: all are fenced under the lock ...
Sweep ==
    /\ owner.pc = "sweep"
    /\ registry = None
    /\ start' = [s \in Starts |->
         IF start[s].pc = "live" THEN [start[s] EXCEPT !.pc = "fenced"] ELSE start[s]]
    /\ swept' = owner.gen
    /\ Owner("stopping")
    /\ UNCHANGED <<authority, unseen, glance, request, registry, resolution, grace, dark>>

\* ... and then retired, each in its own time.
Stopped ==
    /\ owner.pc = "stopping"
    /\ AllRetired
    /\ owner' = [owner EXCEPT !.pc = "bottom", !.gen = 0, !.torn = owner.gen]
    /\ UNCHANGED <<authority, unseen, glance, request, start, registry, resolution, grace, swept, dark>>

\* The watch is read again: whatever happened since is taken as known.
Rearm ==
    /\ owner.pc = "bottom"
    /\ Sees
    /\ owner' = IF watch.ready
                THEN [owner EXCEPT !.pc = "idle", !.torn = None, !.known = watch.gen]
                ELSE [owner EXCEPT !.pc = "top", !.known = watch.gen]
    /\ UNCHANGED <<authority, glance, request, start, registry, resolution, grace, swept, dark>>

Wake ==
    /\ owner.pc = "idle"
    /\ unseen
    /\ Sees
    /\ Owner("top")
    /\ UNCHANGED <<authority, glance, request, start, registry, resolution, grace, swept, dark>>

\* A tick is long against the scheduling of a task that is ready to run.
Tick ==
    /\ ~Prompt
    /\ grace' = [grace EXCEPT
         !.elapsed = IF owner.pc = "waiting" THEN @ + 1 ELSE @,
         !.since = IF @ = None THEN None ELSE Least(@ + 1, Grace)]
    /\ dark' = IF owner.pc = "waiting" THEN [waited |-> dark.waited + 1, calm |-> 0]
               ELSE LET calm == Least(dark.calm + 1, Grace)
                    IN  [waited |-> IF calm = Grace THEN 0 ELSE dark.waited, calm |-> calm]
    /\ UNCHANGED <<authority, unseen, glance, request, start, registry, resolution, owner, swept>>

-----------------------------------------------------------------------------

Publication == Store \/ Send \/ Unlock \/ Withdraw
Observation(r) == ReadCount(r) \/ ReadWord(r) \/ ReadAgain(r)
Deciding(r) == Look(r) \/ Gate(r) \/ Admit(r) \/ CheckGuard(r) \/ Commit(r)
Registering(s) == LockRegistry(s) \/ Register(s)
Resolution == StayTorn \/ NoticeLoss \/ NoLoss \/ Resolve \/ Expire \/ TellRecovered
              \/ CountKept \/ TellExpired \/ Sweep \/ Stopped \/ Rearm \/ Wake

Next ==
    \/ \E desired \in BOOLEAN : Poll(desired)
    \/ Publication
    \/ \E r \in Requests : Arrive(r) \/ Observation(r) \/ Deciding(r) \/ TakeGuard(r) \/ Answer(r) \/ TimeOut(r)
    \/ \E s \in Starts : Begin(s) \/ Registering(s) \/ EndSession(s) \/ Retire(s)
    \/ Resolution
    \/ Tick

Spec == Init /\ [][Next]_vars

-----------------------------------------------------------------------------

OwnerPcs == {"top", "resolve", "waiting", "recovered", "counting", "expired",
             "sweep", "stopping", "bottom", "idle"}
RequestPcs == {"out", "arriving", "held", "gate", "admitting", "admitted",
               "guarded", "committing", "recovering", "again"}
StartPcs == {"out", "starting", "registering", "live", "fenced"}

\* The types.
TypeOK ==
    /\ word \in Words /\ watch \in Words
    /\ unseen \in BOOLEAN
    /\ publisher \in [pc : {"poll", "lock", "stored", "sent", "unlocked"}, desired : BOOLEAN]
    /\ glance \in [Requests -> [at : {"none", "count", "word"}, pending : 0..1, word : Words]]
    /\ request \in [Requests -> [pc : RequestPcs, gen : Generations,
                                 after : Generations, retried : BOOLEAN]]
    /\ start \in [Starts -> [pc : StartPcs, gen : Generations]]
    /\ registry \in Starts \cup {None}
    /\ resolution \in [gen : Generations, state : {"pending", "recovered", "expired"}]
    /\ owner \in [pc : OwnerPcs, gen : Generations,
                  torn : Generations \cup {None}, known : Generations]
    /\ grace \in [spent : Ticks, since : Ticks \cup {None}, elapsed : Ticks]
    /\ swept \in Generations
    /\ dark \in [waited : Nat, calm : Ticks]

\* Whoever waits for the end of an outage waits for one that is there: its loss is
\* in the word already, or announced, or none has been published ever.
\* A torn reading of count and word would hold a response for an outage that is
\* over, or has not come (admit_or_outage_baseline).
LossAnnounced == publisher.pc = "lock" /\ ~publisher.desired

WaitsAreForOutages ==
    \A r \in Requests : Waiting(r) =>
        \/ request[r].after < word.gen
        \/ request[r].after = word.gen /\ (LossAnnounced \/ word.gen = 0)

WellFormed == TypeOK /\ WaitsAreForOutages

\* No commit straddles a loss: while a response commits, authority is held,
\* under the very generation it was admitted in (commit_guard_before).
CommitUnderAuthority ==
    \A r \in Requests : request[r].pc = "committing" =>
        word = [ready |-> TRUE, gen |-> request[r].gen]

\* A recovery on the channel took place: authority came back under just that
\* generation, so no waiter takes it for the end of a later outage.
RecoveryIsReal ==
    resolution.state = "recovered" /\ resolution.gen > 0 =>
        resolution.gen < word.gen \/ (resolution.gen = word.gen /\ word.ready)

\* A flapping quorum does not keep work alive: losses less than a grace apart
\* are waited out for one grace altogether (SessionGrace).
FlappingIsBounded == dark.waited <= Grace

\* No registration slips past a teardown: a session that was admitted before
\* the outage is in the sweep's snapshot or refuses itself.
TeardownIsComplete ==
    \A s \in Starts : start[s].pc = "live" => start[s].gen >= swept

\* The owner sleeps and the node is fenced: the loss there is now has been
\* called expired, so a response that waits for its end is refused at once.
OutageIsTold ==
    owner.pc = "idle" /\ ~unseen /\ ~watch.ready =>
        resolution = [gen |-> watch.gen, state |-> "expired"]

\* The owner has nothing to do, and authority is held: every response that
\* waits for the end of an outage has been told (hold_for_outage_resolution).
EveryOutageIsResolved ==
    owner.pc = "idle" /\ ~unseen /\ publisher.pc = "poll" /\ word.ready /\ word.gen > 0 =>
        \A r \in Requests : Waiting(r) => Answerable(r)

\* An outage that is called expired leaves nothing running that was admitted
\* before it (serving_fence_loop's torn_down).
NoSurvivor ==
    owner.torn # None =>
        \A s \in Starts : start[s].pc = "live" => start[s].gen >= owner.torn
====
