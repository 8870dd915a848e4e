---- MODULE SegmentWait ----
(***************************************************************************)
(* A segment GET that blocks until its segment exists (plurxd/src/         *)
(* waitpool.rs, vod/serve/serve.rs), for one VOD rendition.  A GET takes a *)
(* slot of the wait pool and an interest in the segment's materialise      *)
(* clock, looks for the file again, and then waits for whichever comes     *)
(* first: the producer's publication, a failure, the rendition's end, the  *)
(* clock's watchdog, its own deadline, or the client going away.  Beside   *)
(* it run the producer's sink, the watchdog of every clock, and the        *)
(* driver, which evicts segments to make room.                             *)
(*                                                                         *)
(* Locks: an action is one critical section.  The pool's mutex, the mutex  *)
(* of the clocks (demand_since) and the manifest's are each held within    *)
(* one action; wakeups are sent after the pool's mutex has been released,  *)
(* so a drained waiter's outcome is in flight for a while.                 *)
(***************************************************************************)
EXTENDS Integers, FiniteSets

CONSTANTS
    Request,        \* GETs; one that has ended may come again, as a retry
    Segment,
    Reader,         \* the exact private readers
    Parent,         \* the public sessions whose allowance they spend
    SegmentOf,      \* what a request asks for
    ReaderOf,
    ParentOf,
    PerSessionCap,
    Caps,           \* node-wide caps an administrator may set
    Episode         \* bound: materialise clocks of a segment not yet forgotten

ASSUME RequestsAreAddressed ==
    /\ SegmentOf \in [Request -> Segment]
    /\ ReaderOf \in [Request -> Reader]
    /\ ParentOf \in [Request -> Parent]
ASSUME PoolIsFinite == IsFiniteSet(Request) /\ IsFiniteSet(Parent)
ASSUME CapsArePositive == PerSessionCap \in Nat /\ Caps \subseteq Nat \ {0}

VARIABLES
    parked,         \* State.waiters: registered and not yet drained
    retained,       \* State.retained: whose segment is pinned, whose slot is held
    held,           \* State.per_session, by parent
    total,          \* State.total
    cap,            \* WaitPool.global_cap
    inbox,          \* the oneshot channel of each request
    flight,         \* an outcome drained under the lock and not yet sent
    stage,          \* where the GET stands
    episode,        \* MaterializeDemand: the clock it has an interest in
    overdue,        \* requests whose clock's budget has run out
    clock,          \* demand_since, per segment
    watchdog,       \* the task of each clock
    present,        \* segments the manifest calls materialised
    sink,           \* the producer's sink, per segment
    windows,        \* the driver's snapshot of pinned segments
    driver,
    known,          \* history: GETs there were when the snapshot was taken
    failed, failing,    \* the failure on record; its wake still to come
    closed, closing,    \* the same of the rendition's end
    peak            \* history: the highest cap since the pool was last empty

slots == <<retained, held, total, cap, peak>>
asks == <<parked, inbox, flight, stage, episode>>
clocks == <<clock, overdue, watchdog>>
media == <<present, sink, windows, driver, known>>
health == <<failed, failing, closed, closing>>
vars == <<slots, asks, clocks, media, health>>

\* Ended stands for ProducerFailed and Gone: a GET leaves alike on both.
Outcome == {"Ready", "Expired", "Ended"}
Nothing == "nothing"
ASSUME EpisodesAreDistinct == Nothing \notin Episode
NoClock == [episode |-> Nothing, owners |-> 0, retry |-> FALSE]
\* refused: leaving with the verdict that the segment missed its deadline.
Stage == {"idle", "opening", "waiting", "ready", "owing", "leaving", "refused",
          "unowned"}
Leaving == {"leaving", "refused", "unowned"}
Asleep == {"sleeping", "due", "retaining"}

-----------------------------------------------------------------------------
(* Helpers *)

Larger(a, b) == IF a >= b THEN a ELSE b

\* How much of the cap a session that already holds slots may fill.
GeneralAdmission(c) == Larger(c - Larger(c \div 8, 1), 1)

\* Mutant: everybody may take the last slot.
CeilingForAll(p) == cap
\* The ceiling the request's parent is admitted under.
Ceiling(p) == IF held[p] = 0 THEN cap ELSE GeneralAdmission(cap)

\* register_reader: refusals touch no state, so they are no step at all.
Admits(r) ==
    /\ held[ParentOf[r]] < PerSessionCap
    /\ total < Ceiling(ParentOf[r])

\* Drain waiters under the lock; their outcome is sent afterwards, and comes
\* to nothing when the GET is no longer listening.
Drain(waiters, outcome) ==
    /\ parked' = parked \ waiters
    /\ flight' = [r \in Request |->
          IF r \in parked \cap waiters /\ stage[r] \notin Leaving THEN outcome ELSE flight[r]]
    /\ UNCHANGED <<inbox, stage, episode>>

On(s) == {r \in Request : SegmentOf[r] = s}
Owners(s, e) == {r \in On(s) : episode[r] = e}

\* Mutant: a demand takes whatever clock there is for its own.
RunsAny(s, e) == TRUE
\* Whether the segment's clock is the one started as episode e.
Runs(s, e) == clock[s].episode = e

\* The clock that a request for s joins, or a new one's name: a name is free
\* again when its watchdog has finished and no request holds it.
Joinable(s) ==
    IF clock[s] # NoClock THEN {clock[s].episode}
    ELSE {e \in Episode : watchdog[s][e] = "over" /\ \A r \in On(s) : episode[r] # e}

\* Mutant: whoever joins resets the count.
JoinedAlone(c, e) == [episode |-> e, owners |-> 1, retry |-> FALSE]
\* The clock with one owner more, who is the retry it may have been kept for.
Joined(c, e) == [episode |-> e, owners |-> c.owners + 1, retry |-> FALSE]

Goes(r, to) ==
    /\ stage' = [stage EXCEPT ![r] = to]
    /\ UNCHANGED <<inbox, flight>>

\* The GET has its answer: what may still be on its way to it is dropped.
Leaves(r, to) ==
    /\ stage' = [stage EXCEPT ![r] = to]
    /\ inbox' = [inbox EXCEPT ![r] = Nothing]
    /\ flight' = [flight EXCEPT ![r] = Nothing]

\* The clock of s is cleared, and its drop aborts its watchdog: abort() takes
\* effect at an await, so one that is past its timer may run a section more.
ClearDemand(s) ==
    /\ clock' = [clock EXCEPT ![s] = NoClock]
    /\ watchdog' = [watchdog EXCEPT ![s] =
          [e \in DOMAIN @ |-> IF @[e] \in Asleep THEN "over" ELSE @[e]]]

-----------------------------------------------------------------------------
(* The GET.  Whatever it saw of the segment before it registered is stale   *)
(* by now, so registration asks nothing of it.                              *)

\* Slot and clock are taken in one section of the clocks' mutex.
Register(r) ==
    LET s == SegmentOf[r]
        p == ParentOf[r] IN
    /\ stage[r] = "idle"
    /\ Admits(r)
    /\ parked' = parked \cup {r}
    /\ retained' = retained \cup {r}
    /\ held' = [held EXCEPT ![p] = @ + 1]
    /\ total' = total + 1
    /\ \E e \in Joinable(s) :
          /\ clock' = [clock EXCEPT ![s] = Joined(@, e)]
          /\ episode' = [episode EXCEPT ![r] = e]
          /\ IF clock[s] = NoClock
               THEN /\ watchdog' = [watchdog EXCEPT ![s][e] = "sleeping"]
                    /\ UNCHANGED overdue
               ELSE /\ overdue' = IF watchdog[s][e] = "sleeping" THEN overdue ELSE overdue \cup {r}
                    /\ UNCHANGED watchdog
    /\ Goes(r, "opening")
    /\ UNCHANGED <<cap, peak, media, health>>

\* Mutant: what was found before registering is taken for granted.
ReopenUnlooked(r) ==
    /\ stage[r] = "opening"
    /\ IF failed THEN Leaves(r, "leaving")
       ELSE IF r \in overdue THEN Leaves(r, "refused")
       ELSE Goes(r, "waiting")
    /\ UNCHANGED <<slots, parked, episode, clocks, media, health>>

\* The recheck that closes the lost-wakeup window, under the manifest's lock;
\* then what is on record about the producer, and expired_verdict.
Reopen(r) ==
    /\ stage[r] = "opening"
    /\ IF SegmentOf[r] \in present \/ failed THEN Leaves(r, "leaving")
       ELSE IF r \in overdue THEN Leaves(r, "refused")
       ELSE Goes(r, "waiting")
    /\ UNCHANGED <<slots, parked, episode, clocks, media, health>>

\* A wakeup received in time, or found by try_recv when the deadline fires.
Receive(r) ==
    /\ stage[r] = "waiting"
    /\ CASE inbox[r] = "Ready"   -> Leaves(r, "ready")
         [] inbox[r] = "Expired" -> Leaves(r, "refused")
         [] inbox[r] = "Ended"   -> Leaves(r, "leaving")
         [] OTHER                -> FALSE
    /\ UNCHANGED <<slots, parked, episode, clocks, media, health>>

\* The file is served, or has been evicted meanwhile and is pending again.
OpenReady(r) ==
    /\ stage[r] = "ready"
    /\ Leaves(r, "leaving")
    /\ UNCHANGED <<slots, parked, episode, clocks, media, health>>

\* The request's own deadline, with nothing in the channel; expired_verdict.
Deadline(r) ==
    /\ stage[r] = "waiting"
    /\ inbox[r] = Nothing
    /\ IF r \in overdue THEN Leaves(r, "refused") ELSE Goes(r, "owing")
    /\ UNCHANGED <<slots, parked, episode, clocks, media, health>>

\* retry_pending: the clock may outlive its owners for the client's retry.
LeaveToRetry(r) ==
    LET s == SegmentOf[r] IN
    /\ stage[r] = "owing"
    /\ clock' = IF Runs(s, episode[r]) THEN [clock EXCEPT ![s].retry = TRUE] ELSE clock
    /\ Leaves(r, "leaving")
    /\ UNCHANGED <<slots, parked, episode, overdue, watchdog, media, health>>

\* The client goes away at an await: the future and its guards are dropped.
Disconnect(r) ==
    /\ stage[r] \in {"opening", "waiting", "ready"}
    /\ Leaves(r, "leaving")
    /\ UNCHANGED <<slots, parked, episode, clocks, media, health>>

\* MaterializeDemand is dropped first.  Its clock goes with the last owner,
\* unless it is kept for a retry; of another episode it leaves no trace.
DropDemand(r) ==
    LET s == SegmentOf[r]
        owns == Runs(s, episode[r])
        last == clock[s].owners = 1 /\ ~clock[s].retry IN
    /\ stage[r] \in {"leaving", "refused"}
    /\ IF owns /\ last
         THEN ClearDemand(s)
         ELSE /\ clock' = IF owns THEN [clock EXCEPT ![s].owners = @ - 1] ELSE clock
              /\ UNCHANGED watchdog
    /\ episode' = [episode EXCEPT ![r] = Nothing]
    /\ overdue' = overdue \ {r}
    /\ Goes(r, "unowned")
    /\ UNCHANGED <<slots, parked, media, health>>

\* SlotGuard::drop: the slot, the pin, and what is left of the demand.
DropSlot(r) ==
    /\ stage[r] = "unowned"
    /\ parked' = parked \ {r}
    /\ retained' = retained \ {r}
    /\ held' = [held EXCEPT ![ParentOf[r]] = @ - 1]
    /\ total' = total - 1
    /\ peak' = IF total = 1 THEN cap ELSE peak
    /\ known' = known \ {r}
    /\ Goes(r, "idle")
    /\ UNCHANGED <<cap, episode, clocks, present, sink, windows, driver, health>>

-----------------------------------------------------------------------------
(* Waking                                                                   *)

Send(r) ==
    /\ flight[r] # Nothing
    /\ inbox' = [inbox EXCEPT ![r] = flight[r]]
    /\ flight' = [flight EXCEPT ![r] = Nothing]
    /\ UNCHANGED <<slots, parked, stage, episode, clocks, media, health>>

\* record_failure: the first cause stays; every one wakes the rendition.
RecordFailure ==
    /\ ~failing
    /\ failed' = TRUE
    /\ failing' = TRUE
    /\ UNCHANGED <<slots, asks, clocks, media, closed, closing>>

WakeFailed ==
    /\ failing
    /\ failing' = FALSE
    /\ Drain(Request, "Ended")
    /\ UNCHANGED <<slots, clocks, media, failed, closed, closing>>

\* The rendition ends: closed and the epoch first, the waiters afterwards.
Close ==
    /\ ~closed
    /\ closed' = TRUE
    /\ closing' = TRUE
    /\ UNCHANGED <<slots, asks, clocks, media, failed, failing>>

WakeClosed ==
    /\ closing
    /\ closing' = FALSE
    /\ Drain(Request, "Ended")
    /\ UNCHANGED <<slots, clocks, media, failed, failing, closed>>

\* No generation can be placed at this entry: its waiters alone are told.
FailUnplaced(s) ==
    /\ On(s) \cap parked # {}
    /\ Drain(On(s), "Ended")
    /\ UNCHANGED <<slots, clocks, media, health>>

\* retire_session: a reader detaches, and so do the GETs it left parked.
RetireReader(v) ==
    LET its == {r \in parked : ReaderOf[r] = v} IN
    /\ its # {}
    /\ Drain(its, "Ended")
    /\ UNCHANGED <<slots, clocks, media, health>>

\* An administrator's cap applies to the next admission; nobody is evicted.
SetGlobalCap(c) ==
    /\ cap' = c
    /\ peak' = IF total = 0 THEN c ELSE Larger(peak, c)
    /\ UNCHANGED <<retained, held, total, asks, clocks, media, health>>

-----------------------------------------------------------------------------
(* The producer's sink publishes a segment, or walks over one that exists.  *)

\* Mutant: the clock is left to run.
PublishUnderClock(s) ==
    /\ sink[s] = "idle"
    /\ ~closed
    /\ sink' = [sink EXCEPT ![s] = "published"]
    /\ present' = present \cup {s}
    /\ UNCHANGED <<slots, asks, clocks, windows, driver, known, health>>

\* Under the build gate, which the driver's sweep takes as well, and then the
\* manifest's lock, unless the epoch has been superseded: the bytes, the claim,
\* and the end of the segment's clock.  The entry is pinned from here on.
Publish(s) ==
    /\ sink[s] = "idle"
    /\ ~closed
    /\ sink' = [sink EXCEPT ![s] = "published"]
    /\ present' = present \cup {s}
    /\ ClearDemand(s)
    /\ UNCHANGED <<slots, asks, overdue, windows, driver, known, health>>

Satisfy(s) ==
    /\ sink[s] = "published"
    /\ sink' = [sink EXCEPT ![s] = "satisfied"]
    /\ Drain(On(s), "Ready")
    /\ UNCHANGED <<slots, clocks, present, windows, driver, known, health>>

\* The sink returns, and lets go of the entry, when all of them have been sent.
SinkReturn(s) ==
    /\ sink[s] = "satisfied"
    /\ \A r \in On(s) : flight[r] # "Ready"
    /\ sink' = [sink EXCEPT ![s] = "idle"]
    /\ UNCHANGED <<slots, asks, clocks, present, windows, driver, known, health>>

-----------------------------------------------------------------------------
(* The driver makes room.                                                   *)

\* Mutant: only one that still waits pins its segment.
PinningWaiting == parked
\* WaitPool::retained: a GET pins its segment until it has left.
Pinning == retained

\* eviction_windows: what the readers' windows add is left to Sweep's choice.
Snapshot ==
    /\ driver = "idle"
    /\ ~closed /\ ~failed
    /\ windows' = {SegmentOf[r] : r \in Pinning}
    /\ known' = retained
    /\ driver' = "planned"
    /\ UNCHANGED <<slots, asks, clocks, present, sink, health>>

\* make_room, under the gate and the manifest's lock: whatever is neither in the
\* snapshot's windows nor an entry that the sink has pinned may go.
Sweep ==
    /\ driver = "planned"
    /\ \E victims \in SUBSET {s \in present \ windows : sink[s] = "idle"} :
          present' = present \ victims
    /\ windows' = {} /\ known' = {}
    /\ driver' = "idle"
    /\ UNCHANGED <<slots, asks, clocks, sink, health>>

-----------------------------------------------------------------------------
(* Materialise clocks and their watchdogs                                   *)

\* The budget of a clock runs out, for its watchdog and for whoever joined it:
\* all have the same budget, so the running clock's is the last to.
Elapse(s, e) ==
    /\ watchdog[s][e] = "sleeping" \/ ~(Owners(s, e) \subseteq overdue)
    /\ Runs(s, e) => \A r \in On(s) : episode[r] \in {e, Nothing} \/ r \in overdue
    /\ overdue' = overdue \cup Owners(s, e)
    /\ watchdog' = IF watchdog[s][e] = "sleeping"
                     THEN [watchdog EXCEPT ![s][e] = "due"] ELSE watchdog
    /\ UNCHANGED <<slots, asks, clock, media, health>>

Becomes(s, e, to) == watchdog' = [watchdog EXCEPT ![s][e] = to]

\* Its timer fires: a rendition that has ended or failed has been answered.
WatchdogWake(s, e) ==
    /\ watchdog[s][e] = "due"
    /\ IF closed \/ failed
         THEN ClearDemand(s)
         ELSE Becomes(s, e, "inspecting") /\ UNCHANGED clock
    /\ UNCHANGED <<slots, asks, overdue, media, health>>

\* Under the manifest's lock, as the sink publishes.  The clock that a late
\* look at a segment clears may be another episode's.
WatchdogInspect(s, e) ==
    /\ watchdog[s][e] = "inspecting"
    /\ IF s \in present
         THEN /\ clock' = [clock EXCEPT ![s] = NoClock]
              /\ watchdog' = [watchdog EXCEPT ![s] =
                    [d \in DOMAIN @ |->
                        IF d = e \/ @[d] \in Asleep THEN "over" ELSE @[d]]]
         ELSE /\ Becomes(s, e, IF Runs(s, e) /\ ~failed THEN "judging" ELSE "over")
              /\ UNCHANGED clock
    /\ UNCHANGED <<slots, asks, overdue, media, health>>

\* Mutant: whoever waits for the segment by now is woken.
WatchdogExpireAny(s, e) ==
    /\ watchdog[s][e] = "judging"
    /\ Becomes(s, e, "retaining")
    /\ Drain(On(s), "Expired")
    /\ UNCHANGED <<slots, clock, overdue, media, health>>

\* It has asked the producer's slot for the cause: expire_entry inside the
\* clocks' mutex, and only for the same episode.
WatchdogExpire(s, e) ==
    /\ watchdog[s][e] = "judging"
    /\ IF Runs(s, e)
         THEN Becomes(s, e, "retaining") /\ Drain(On(s), "Expired")
         ELSE Becomes(s, e, "over") /\ UNCHANGED <<parked, inbox, flight, stage, episode>>
    /\ UNCHANGED <<slots, clock, overdue, media, health>>

\* The expiry has been kept for a retry, and is forgotten with nobody left.
WatchdogForget(s, e) ==
    /\ watchdog[s][e] = "retaining"
    /\ Becomes(s, e, "over")
    /\ clock' = IF Runs(s, e) /\ clock[s].owners = 0
                  THEN [clock EXCEPT ![s] = NoClock] ELSE clock
    /\ UNCHANGED <<slots, asks, overdue, media, health>>

WatchdogAborted(s, e) ==
    /\ watchdog[s][e] \in {"inspecting", "judging"}
    /\ ~Runs(s, e)
    /\ Becomes(s, e, "over")
    /\ UNCHANGED <<slots, asks, clock, overdue, media, health>>

-----------------------------------------------------------------------------
(* The specification                                                        *)

Init ==
    /\ parked = {} /\ retained = {} /\ total = 0
    /\ held = [p \in Parent |-> 0]
    /\ cap \in Caps /\ peak = cap
    /\ inbox = [r \in Request |-> Nothing] /\ flight = inbox
    /\ stage = [r \in Request |-> "idle"]
    /\ episode = [r \in Request |-> Nothing] /\ overdue = {}
    /\ clock = [s \in Segment |-> NoClock]
    /\ watchdog = [s \in Segment |-> [e \in Episode |-> "over"]]
    /\ present = {} /\ windows = {} /\ known = {}
    /\ sink = [s \in Segment |-> "idle"] /\ driver = "idle"
    /\ failed = FALSE /\ failing = FALSE /\ closed = FALSE /\ closing = FALSE

Get(r) ==
    \/ Register(r) \/ Reopen(r)
    \/ Receive(r) \/ OpenReady(r) \/ Deadline(r)
    \/ LeaveToRetry(r) \/ Disconnect(r) \/ DropDemand(r) \/ DropSlot(r)
    \/ Send(r)

Produce(s) ==
    \/ Publish(s) \/ Satisfy(s) \/ SinkReturn(s) \/ FailUnplaced(s)

Guard(s, e) ==
    \/ Elapse(s, e) \/ WatchdogWake(s, e) \/ WatchdogInspect(s, e)
    \/ WatchdogExpire(s, e) \/ WatchdogForget(s, e) \/ WatchdogAborted(s, e)

Lifecycle == RecordFailure \/ WakeFailed \/ Close \/ WakeClosed

MakeRoom == Snapshot \/ Sweep

Next ==
    \/ \E r \in Request : Get(r)
    \/ \E s \in Segment : Produce(s)
    \/ \E s \in Segment : \E e \in Episode : Guard(s, e)
    \/ \E v \in Reader : RetireReader(v)
    \/ \E c \in Caps : SetGlobalCap(c)
    \/ Lifecycle
    \/ MakeRoom

Spec == Init /\ [][Next]_vars

-----------------------------------------------------------------------------
(* Properties                                                               *)

\* Every variable has its type.
TypeOK ==
    /\ parked \subseteq Request /\ retained \subseteq Request
    /\ held \in [Parent -> Nat] /\ total \in Nat
    /\ cap \in Caps /\ peak \in Caps
    /\ inbox \in [Request -> Outcome \cup {Nothing}]
    /\ flight \in [Request -> Outcome \cup {Nothing}]
    /\ stage \in [Request -> Stage]
    /\ overdue \subseteq Request
    /\ episode \in [Request -> Episode \cup {Nothing}]
    /\ clock \in [Segment -> [episode : Episode \cup {Nothing}, owners : Nat, retry : BOOLEAN]]
    /\ watchdog \in [Segment -> [Episode ->
          {"sleeping", "due", "inspecting", "judging", "retaining", "over"}]]
    /\ present \subseteq Segment /\ windows \subseteq Segment /\ known \subseteq Request
    /\ sink \in [Segment -> {"idle", "published", "satisfied"}]
    /\ driver \in {"idle", "planned"}
    /\ failed \in BOOLEAN /\ failing \in BOOLEAN /\ closed \in BOOLEAN
    /\ closing \in BOOLEAN

\* The counters are exactly what the GETs hold, however they ended.  A slot is
\* held from admission until the GET has left, whether it was woken, timed out
\* or was dropped; and a running clock counts the GETs that joined it, through
\* retries that join it late and clocks that end under their owners
\* (register_reader, SlotGuard::drop, State::release, drain_key,
\* arm_materialize_watchdog_locked, MaterializeDemand::drop).
CountersExact ==
    /\ retained = {r \in Request : stage[r] # "idle"}
    /\ parked \subseteq retained
    /\ total = Cardinality(retained)
    /\ \A p \in Parent : held[p] = Cardinality({r \in retained : ParentOf[r] = p})
    /\ \A s \in Segment :
          clock[s].owners = IF clock[s] = NoClock THEN 0
                            ELSE Cardinality(Owners(s, clock[s].episode))

\* Whatever the cap was meanwhile, the slots beyond the general allowance are
\* footholds: a pool that turns a newcomer away is full of other viewers, not
\* of one viewer's requests (general_admission, set_global_cap).
NewcomerReserve ==
    total > 0 =>
      total <= GeneralAdmission(peak) + Cardinality({p \in Parent : held[p] > 0}) - 1

\* No wakeup is lost between the recheck and the wait: a GET that sleeps with
\* nothing on its way to it sleeps for a reason.  Its segment is missing, or
\* the sink has yet to wake it; a failure on record has yet to wake it; and
\* the same of the end, unless it registered after that (Register, Reopen,
\* Publish, Satisfy, record_failure).
NoMissedAnswer ==
    \A r \in Request :
      stage[r] = "waiting" /\ inbox[r] = Nothing /\ flight[r] = Nothing =>
        /\ r \in parked
        /\ SegmentOf[r] \in present => sink[SegmentOf[r]] = "published"
        /\ failed => failing

\* No GET is told that its segment missed the materialise deadline before the
\* clock it joined has run out, not even by the watchdog of an older clock for
\* the same segment (MaterializeClock.started, expire_entry under the lock).
NoEarlyVerdict ==
    \A r \in Request :
      "Expired" \in {inbox[r], flight[r]} \/ stage[r] = "refused" => r \in overdue

\* The watchdog never expires a segment that is there: its look at the
\* manifest and its wakeup are two sections, and a publication in between ends
\* the clock (shared.rs: "closing the deadline/materialization race").
ExpiryIsForMissingMedia ==
    [][\A r \in Request :
         flight[r] # "Expired" /\ flight'[r] = "Expired" => SegmentOf[r] \notin present]_vars

\* A GET that was there when the driver chose what it may evict, and has been
\* woken since, finds its file (waitpool.rs: "a just-woken request still has to
\* open its file before eviction can safely unlink it").
PinHolds ==
    [][\A r \in known :
         (inbox[r] = "Ready" \/ stage[r] = "ready") /\ SegmentOf[r] \in present
         => SegmentOf[r] \in present']_vars
====
