---- MODULE SegmentWaitProofs ----
(***************************************************************************)
(* For any sets of GETs, segments, readers and viewers, any caps and any   *)
(* number of clocks: the safety properties of SegmentWait.                 *)
(***************************************************************************)
EXTENDS SegmentWait, FiniteSetTheorems, TLAPS

-----------------------------------------------------------------------------
(* Type correctness                                                         *)

\* Larger picks one of its arguments.
LEMMA LargerOfTwo ==
    ASSUME NEW S, NEW a \in S, NEW b \in S
    PROVE  Larger(a, b) \in S
BY DEF Larger

\* The fields of a clock.
LEMMA ClockTyped ==
    ASSUME TypeOK, NEW s \in Segment
    PROVE  /\ clock[s].episode \in Episode \cup {Nothing}
           /\ clock[s].owners \in Nat
           /\ clock[s].retry \in BOOLEAN
           /\ clock[s] = [episode |-> clock[s].episode, owners |-> clock[s].owners,
                          retry |-> clock[s].retry]
BY DEF TypeOK

\* A clock keeps its name when its owners or its retry change.
LEMMA KeepsName ==
    ASSUME TypeOK, NEW s \in Segment, NEW n, NEW t \in Segment,
           \/ clock' = [clock EXCEPT ![s].owners = n]
           \/ clock' = [clock EXCEPT ![s].retry = n]
    PROVE  clock'[t].episode = clock[t].episode
<1>1. /\ [clock[s] EXCEPT !.owners = n].episode = clock[s].episode
      /\ [clock[s] EXCEPT !.retry = n].episode = clock[s].episode
  BY DEF TypeOK
<1>2. CASE t = s
  BY <1>1, <1>2 DEF TypeOK
<1>3. CASE t # s
  BY <1>3 DEF TypeOK
<1> QED
  BY <1>2, <1>3

\* A wait taken as it is drained, or left, is a wait.
LEMMA AnswersTyped ==
    ASSUME TypeOK
    PROVE  /\ \A W, o : o \in Outcome /\ Drain(W, o) =>
                /\ parked' \subseteq Request
                /\ flight' \in [Request -> Outcome \cup {Nothing}]
                /\ UNCHANGED <<inbox, stage, episode>>
           /\ \A r \in Request, to \in Stage : Goes(r, to) =>
                /\ stage' \in [Request -> Stage]
                /\ UNCHANGED <<inbox, flight>>
           /\ \A r \in Request, to \in Stage : Leaves(r, to) =>
                /\ stage' \in [Request -> Stage]
                /\ inbox' \in [Request -> Outcome \cup {Nothing}]
                /\ flight' \in [Request -> Outcome \cup {Nothing}]
<1>1. ASSUME NEW W, NEW o \in Outcome, Drain(W, o)
      PROVE  /\ parked' \subseteq Request
             /\ flight' \in [Request -> Outcome \cup {Nothing}]
             /\ UNCHANGED <<inbox, stage, episode>>
  BY <1>1 DEF Drain, TypeOK
<1>2. ASSUME NEW r \in Request, NEW to \in Stage, Goes(r, to)
      PROVE  /\ stage' \in [Request -> Stage]
             /\ UNCHANGED <<inbox, flight>>
  BY <1>2 DEF Goes, TypeOK
<1>3. ASSUME NEW r \in Request, NEW to \in Stage, Leaves(r, to)
      PROVE  /\ stage' \in [Request -> Stage]
             /\ inbox' \in [Request -> Outcome \cup {Nothing}]
             /\ flight' \in [Request -> Outcome \cup {Nothing}]
  BY <1>3 DEF Leaves, TypeOK
<1> QED
  BY <1>1, <1>2, <1>3

\* A clock that is cleared, and a watchdog that moves on, keep their types.
LEMMA ClearTyped ==
    ASSUME TypeOK, NEW s \in Segment, ClearDemand(s)
    PROVE  /\ clock' \in [Segment -> [episode : Episode \cup {Nothing}, owners : Nat,
                                      retry : BOOLEAN]]
           /\ watchdog' \in [Segment -> [Episode ->
                {"sleeping", "due", "inspecting", "judging", "retaining", "over"}]]
BY DEF ClearDemand, NoClock, TypeOK

LEMMA BecomesTyped ==
    ASSUME TypeOK, NEW s \in Segment, NEW e \in Episode,
           NEW to \in {"sleeping", "due", "inspecting", "judging", "retaining", "over"},
           Becomes(s, e, to)
    PROVE  watchdog' \in [Segment -> [Episode ->
                {"sleeping", "due", "inspecting", "judging", "retaining", "over"}]]
BY DEF Becomes, TypeOK

\* The first state is well typed.
LEMMA InitTyped ==
    ASSUME Init
    PROVE  TypeOK
<1>1. /\ parked \subseteq Request /\ retained \subseteq Request
      /\ held \in [Parent -> Nat] /\ total \in Nat
      /\ cap \in Caps /\ peak \in Caps
  BY DEF Init
<1>2. /\ inbox \in [Request -> Outcome \cup {Nothing}]
      /\ flight \in [Request -> Outcome \cup {Nothing}]
      /\ stage \in [Request -> Stage]
      /\ overdue \subseteq Request
      /\ episode \in [Request -> Episode \cup {Nothing}]
  BY DEF Init, Stage
<1>3. clock \in [Segment -> [episode : Episode \cup {Nothing}, owners : Nat, retry : BOOLEAN]]
  BY DEF Init, NoClock
<1> QED
  BY <1>1, <1>2, <1>3 DEF Init, TypeOK

-----------------------------------------------------------------------------
(* What the counts rest on                                                  *)

\* A GET has an interest in a clock from its registration until it drops it.
Owned ==
    \A r \in Request : episode[r] = Nothing <=> stage[r] \in {"idle", "unowned"}

\* A clock that runs has a name.
Named ==
    \A s \in Segment : clock[s].episode = Nothing => clock[s] = NoClock

\* The counts, and what they need to be kept.
Books == TypeOK /\ CountersExact /\ Owned /\ Named

\* The GETs that hold slots, and those with an interest in a clock, are finitely many.
LEMMA Finite ==
    ASSUME Books
    PROVE  /\ IsFiniteSet(retained)
           /\ \A p \in Parent : IsFiniteSet({r \in retained : ParentOf[r] = p})
           /\ \A s \in Segment : \A e : IsFiniteSet(Owners(s, e))
BY PoolIsFinite, FS_Subset DEF Books, TypeOK, Owners, On

\* Who holds a slot, or an interest in the running clock, is counted: no count
\* can fall below zero.
LEMMA Counted ==
    ASSUME Books, NEW r \in Request
    PROVE  /\ stage[r] # "idle" => total > 0 /\ held[ParentOf[r]] > 0
           /\ stage[r] \notin {"idle", "unowned"} /\ Runs(SegmentOf[r], episode[r])
                => clock[SegmentOf[r]].owners > 0
<1> DEFINE s == SegmentOf[r]
           p == ParentOf[r]
<1>1. s \in Segment /\ p \in Parent
  BY RequestsAreAddressed
<1>2. ASSUME NEW S, IsFiniteSet(S), r \in S
      PROVE  Cardinality(S) \in Nat /\ Cardinality(S) > 0
  BY <1>2, FS_CardinalityType, FS_EmptySet
<1>3. ASSUME stage[r] # "idle" PROVE total > 0 /\ held[p] > 0
  BY <1>1, <1>2, <1>3, Finite DEF Books, CountersExact
<1>4. ASSUME stage[r] \notin {"idle", "unowned"}, Runs(s, episode[r])
      PROVE  clock[s].owners > 0
  <2>1. clock[s].episode # Nothing /\ clock[s] # NoClock
    BY <1>1, <1>4 DEF Books, Owned, Runs, NoClock
  <2>2. r \in Owners(s, clock[s].episode)
    BY <1>4 DEF Owners, On, Runs
  <2> QED
    BY <1>1, <1>2, <2>1, <2>2, Finite DEF Books, CountersExact
<1> QED
  BY <1>3, <1>4

\* Types are kept; for the counts this needs that they are exact.
LEMMA TypeKept ==
    ASSUME Books, [Next]_vars
    PROVE  TypeOK'
<1> USE RequestsAreAddressed, CapsArePositive DEF Books
<1>0. CASE UNCHANGED vars
  BY <1>0 DEF vars, slots, asks, clocks, media, health, TypeOK
<1>1. ASSUME NEW r \in Request, Register(r) PROVE TypeOK'
  <2> DEFINE s == SegmentOf[r]
             p == ParentOf[r]
  <2>1. /\ s \in Segment /\ p \in Parent
    OBVIOUS
  <2>2. /\ parked' \subseteq Request /\ retained' \subseteq Request
        /\ held' \in [Parent -> Nat] /\ total' \in Nat
    BY <1>1, <2>1 DEF Register, TypeOK
  <2>3. PICK e \in Joinable(s) :
          /\ clock' = [clock EXCEPT ![s] = Joined(@, e)]
          /\ episode' = [episode EXCEPT ![r] = e]
          /\ IF clock[s] = NoClock
               THEN /\ watchdog' = [watchdog EXCEPT ![s][e] = "sleeping"]
                    /\ UNCHANGED overdue
               ELSE /\ overdue' = IF watchdog[s][e] = "sleeping" THEN overdue ELSE overdue \cup {r}
                    /\ UNCHANGED watchdog
    BY <1>1 DEF Register
  <2>4. /\ e \in Episode \cup {Nothing}
        /\ clock[s] = NoClock => e \in Episode
        /\ Joined(clock[s], e) \in
             [episode : Episode \cup {Nothing}, owners : Nat, retry : BOOLEAN]
    <3>1. e \in Episode \cup {Nothing} /\ (clock[s] = NoClock => e \in Episode)
      BY <2>1, <2>3, ClockTyped DEF Joinable
    <3>2. clock[s].owners + 1 \in Nat
      <4>1. clock[s].owners \in Nat
        BY <2>1, ClockTyped
      <4> QED
        BY <4>1
    <3> QED
      BY <3>1, <3>2 DEF Joined
  <2>5. /\ clock' \in [Segment -> [episode : Episode \cup {Nothing}, owners : Nat, retry : BOOLEAN]]
        /\ episode' \in [Request -> Episode \cup {Nothing}]
        /\ overdue' \subseteq Request
    BY <2>1, <2>3, <2>4 DEF TypeOK
  <2>6. watchdog' \in [Segment -> [Episode ->
          {"sleeping", "due", "inspecting", "judging", "retaining", "over"}]]
    BY <2>1, <2>3, <2>4, BecomesTyped DEF Becomes, TypeOK
  <2>7. stage' \in [Request -> Stage] /\ UNCHANGED <<inbox, flight>>
    BY <1>1, AnswersTyped DEF Register, Stage
  <2> QED
    BY <1>1, <2>2, <2>5, <2>6, <2>7 DEF Register, media, health, TypeOK
<1>2. ASSUME NEW r \in Request, Reopen(r) PROVE TypeOK'
  BY <1>2, AnswersTyped DEF Reopen, slots, clocks, media, health, Stage, TypeOK
<1>3. ASSUME NEW r \in Request, Receive(r) PROVE TypeOK'
  BY <1>3, AnswersTyped DEF Receive, slots, clocks, media, health, Stage, TypeOK
<1>4. ASSUME NEW r \in Request, OpenReady(r) PROVE TypeOK'
  BY <1>4, AnswersTyped DEF OpenReady, slots, clocks, media, health, Stage, TypeOK
<1>5. ASSUME NEW r \in Request, Deadline(r) PROVE TypeOK'
  BY <1>5, AnswersTyped DEF Deadline, slots, clocks, media, health, Stage, TypeOK
<1>6. ASSUME NEW r \in Request, LeaveToRetry(r) PROVE TypeOK'
  BY <1>6, AnswersTyped DEF LeaveToRetry, slots, clocks, media, health, Stage, TypeOK
<1>7. ASSUME NEW r \in Request, Disconnect(r) PROVE TypeOK'
  BY <1>7, AnswersTyped DEF Disconnect, slots, clocks, media, health, Stage, TypeOK
<1>8. ASSUME NEW r \in Request, DropDemand(r) PROVE TypeOK'
  <2> DEFINE s == SegmentOf[r]
  <2>0. s \in Segment
    OBVIOUS
  <2>1. clock' \in [Segment -> [episode : Episode \cup {Nothing}, owners : Nat, retry : BOOLEAN]]
    <3>1. CASE Runs(s, episode[r]) /\ clock[s].owners = 1 /\ ~clock[s].retry
      BY <1>8, <2>0, <3>1, ClearTyped DEF DropDemand
    <3>2. CASE Runs(s, episode[r]) /\ ~(clock[s].owners = 1 /\ ~clock[s].retry)
      <4>1. clock[s].owners \in Nat /\ clock[s].owners > 0
        BY <1>8, <2>0, <3>2, Counted, ClockTyped DEF DropDemand
      <4>2. clock[s].owners - 1 \in Nat
        BY <4>1
      <4>3. clock' = [clock EXCEPT ![s].owners = clock[s].owners - 1]
        BY <1>8, <3>2 DEF DropDemand
      <4> QED
        BY <2>0, <4>2, <4>3 DEF TypeOK
    <3>3. CASE ~Runs(s, episode[r])
      BY <1>8, <3>3 DEF DropDemand, TypeOK
    <3> QED
      BY <3>1, <3>2, <3>3
  <2>2. watchdog' \in [Segment -> [Episode ->
          {"sleeping", "due", "inspecting", "judging", "retaining", "over"}]]
    BY <1>8, ClearTyped DEF DropDemand, TypeOK
  <2>3. stage' \in [Request -> Stage] /\ UNCHANGED <<inbox, flight>>
    BY <1>8, AnswersTyped DEF DropDemand, Stage
  <2> QED
    BY <1>8, <2>1, <2>2, <2>3 DEF DropDemand, slots, media, health, TypeOK
<1>9. ASSUME NEW r \in Request, DropSlot(r) PROVE TypeOK'
  <2>1. total' \in Nat /\ held' \in [Parent -> Nat]
    <3>1. total > 0 /\ held[ParentOf[r]] > 0
      BY <1>9, Counted DEF DropSlot
    <3>2. total - 1 \in Nat /\ held[ParentOf[r]] - 1 \in Nat
      BY <3>1 DEF TypeOK
    <3> QED
      BY <1>9, <3>2 DEF DropSlot, TypeOK
  <2>2. stage' \in [Request -> Stage] /\ UNCHANGED <<inbox, flight>>
    BY <1>9, AnswersTyped DEF DropSlot, Stage
  <2> QED
    BY <1>9, <2>1, <2>2 DEF DropSlot, clocks, health, TypeOK
<1>10. ASSUME NEW r \in Request, Send(r) PROVE TypeOK'
  BY <1>10 DEF Send, slots, clocks, media, health, TypeOK
<1>11. CASE Lifecycle
  BY <1>11, AnswersTyped DEF Lifecycle, RecordFailure, WakeFailed, Close, WakeClosed,
     Outcome, slots, asks, clocks, media, health, TypeOK
<1>12. ASSUME NEW s \in Segment, Publish(s) PROVE TypeOK'
  BY <1>12, ClearTyped DEF Publish, slots, asks, clocks, media, health, TypeOK
<1>13. ASSUME NEW s \in Segment, Satisfy(s) PROVE TypeOK'
  BY <1>13, AnswersTyped DEF Satisfy, Outcome, slots, asks, clocks, media, health, TypeOK
<1>14. ASSUME NEW s \in Segment, SinkReturn(s) PROVE TypeOK'
  BY <1>14 DEF SinkReturn, slots, asks, clocks, media, health, TypeOK
<1>15. ASSUME NEW s \in Segment, FailUnplaced(s) PROVE TypeOK'
  BY <1>15, AnswersTyped DEF FailUnplaced, Outcome, slots, asks, clocks, media, health, TypeOK
<1>16. ASSUME NEW v \in Reader, RetireReader(v) PROVE TypeOK'
  BY <1>16, AnswersTyped DEF RetireReader, Outcome, slots, asks, clocks, media, health, TypeOK
<1>17. ASSUME NEW c \in Caps, SetGlobalCap(c) PROVE TypeOK'
  BY <1>17, LargerOfTwo DEF SetGlobalCap, slots, asks, clocks, media, health, TypeOK
<1>18. CASE MakeRoom
  BY <1>18 DEF MakeRoom, Snapshot, Sweep, Pinning, slots, asks, clocks, media, health, TypeOK
<1>19. ASSUME NEW s \in Segment, NEW e \in Episode, Elapse(s, e) PROVE TypeOK'
  BY <1>19 DEF Elapse, Owners, On, slots, asks, clocks, media, health, TypeOK
<1>20. ASSUME NEW s \in Segment, NEW e \in Episode, WatchdogWake(s, e) PROVE TypeOK'
  BY <1>20, ClearTyped, BecomesTyped DEF WatchdogWake, slots, asks, clocks, media, health, TypeOK
<1>21. ASSUME NEW s \in Segment, NEW e \in Episode, WatchdogInspect(s, e) PROVE TypeOK'
  <2>1. clock' \in [Segment -> [episode : Episode \cup {Nothing}, owners : Nat, retry : BOOLEAN]]
    <3>1. NoClock \in [episode : Episode \cup {Nothing}, owners : Nat, retry : BOOLEAN]
      BY DEF NoClock
    <3> QED
      BY <1>21, <3>1 DEF WatchdogInspect, TypeOK
  <2>2. watchdog' \in [Segment -> [Episode ->
          {"sleeping", "due", "inspecting", "judging", "retaining", "over"}]]
    <3>1. CASE s \in present
      <4> DEFINE w == [d \in DOMAIN watchdog[s] |->
                        IF d = e \/ watchdog[s][d] \in Asleep THEN "over" ELSE watchdog[s][d]]
      <4>1. w \in [Episode ->
              {"sleeping", "due", "inspecting", "judging", "retaining", "over"}]
        BY DEF TypeOK
      <4>2. watchdog' = [watchdog EXCEPT ![s] = w]
        BY <1>21, <3>1 DEF WatchdogInspect
      <4> QED
        BY <4>1, <4>2 DEF TypeOK
    <3>2. CASE s \notin present
      BY <1>21, <3>2, BecomesTyped DEF WatchdogInspect
    <3> QED
      BY <3>1, <3>2
  <2> QED
    BY <1>21, <2>1, <2>2 DEF WatchdogInspect, slots, asks, media, health, TypeOK
<1>22. ASSUME NEW s \in Segment, NEW e \in Episode, WatchdogExpire(s, e) PROVE TypeOK'
  BY <1>22, AnswersTyped, BecomesTyped DEF WatchdogExpire, Outcome, slots, asks, clocks, media, health, TypeOK
<1>23. ASSUME NEW s \in Segment, NEW e \in Episode, WatchdogForget(s, e) PROVE TypeOK'
  BY <1>23, BecomesTyped DEF WatchdogForget, NoClock, slots, asks, clocks, media, health, TypeOK
<1>24. ASSUME NEW s \in Segment, NEW e \in Episode, WatchdogAborted(s, e) PROVE TypeOK'
  BY <1>24, BecomesTyped DEF WatchdogAborted, slots, asks, clocks, media, health, TypeOK
<1> QED
  BY <1>0, <1>1, <1>2, <1>3, <1>4, <1>5, <1>6, <1>7, <1>8, <1>9, <1>10, <1>11, <1>12,
     <1>13, <1>14, <1>15, <1>16, <1>17, <1>18, <1>19, <1>20, <1>21, <1>22, <1>23, <1>24
     DEF Next, Get, Produce, Guard

\* A GET's way through its stages leaves it in possession of what it holds.
LEMMA Answered ==
    ASSUME TypeOK, NEW r \in Request, NEW to \in Stage,
           stage[r] \notin {"idle", "unowned"}, to \notin {"idle", "unowned"},
           Goes(r, to) \/ Leaves(r, to)
    PROVE  \A q \in Request :
             /\ stage'[q] = "idle" <=> stage[q] = "idle"
             /\ stage'[q] \in {"idle", "unowned"} <=> stage[q] \in {"idle", "unowned"}
BY DEF Goes, Leaves, TypeOK

\* Slots come with registration and go with the guard's drop.
SlotsStay ==
    /\ UNCHANGED <<retained, held, total>>
    /\ parked' \subseteq parked
    /\ \A q \in Request : stage'[q] = "idle" <=> stage[q] = "idle"

\* Interest in a clock comes with registration and goes with the demand's drop;
\* other steps may end a clock, and change neither its name nor its owners.
ClocksStay ==
    /\ UNCHANGED episode
    /\ \A q \in Request :
         stage'[q] \in {"idle", "unowned"} <=> stage[q] \in {"idle", "unowned"}
    /\ \A s \in Segment :
         \/ clock'[s] = NoClock
         \/ /\ clock[s] # NoClock
            /\ clock'[s].episode = clock[s].episode
            /\ clock'[s].owners = clock[s].owners

LEMMA ClearStays ==
    ASSUME TypeOK, NEW s \in Segment, ClearDemand(s)
    PROVE  \A t \in Segment : clock'[t] = NoClock \/ clock'[t] = clock[t]
BY DEF ClearDemand, TypeOK

\* The steps of a GET between registration and the drop of its guards.
LEMMA AnsweringStays ==
    ASSUME Books, NEW r \in Request,
           Reopen(r) \/ Receive(r) \/ OpenReady(r) \/ Deadline(r) \/ LeaveToRetry(r)
             \/ Disconnect(r) \/ Send(r)
    PROVE  SlotsStay /\ ClocksStay
<1> USE RequestsAreAddressed DEF Books
<1>1. ASSUME Reopen(r) \/ Receive(r) \/ OpenReady(r) \/ Deadline(r) \/ Disconnect(r)
      PROVE  SlotsStay /\ ClocksStay
  <2>1. /\ UNCHANGED <<retained, held, total, parked, episode, clock>>
        /\ \E to \in Stage \ {"idle", "unowned"} : Goes(r, to) \/ Leaves(r, to)
        /\ stage[r] \notin {"idle", "unowned"}
    BY <1>1 DEF Reopen, Receive, OpenReady, Deadline, Disconnect, slots, clocks, Stage
  <2> QED
    BY <2>1, Answered DEF SlotsStay, ClocksStay
<1>2. ASSUME LeaveToRetry(r) PROVE SlotsStay /\ ClocksStay
  <2>1. /\ UNCHANGED <<retained, held, total, parked, episode>>
        /\ Leaves(r, "leaving") /\ stage[r] = "owing"
    BY <1>2 DEF LeaveToRetry, slots
  <2>2. \A s \in Segment :
          \/ clock'[s] = clock[s]
          \/ /\ clock[s] # NoClock
             /\ clock'[s].episode = clock[s].episode
             /\ clock'[s].owners = clock[s].owners
    <3>1. episode[r] # Nothing
      BY <2>1 DEF Owned
    <3> QED
      BY <1>2, <3>1 DEF LeaveToRetry, Runs, NoClock, TypeOK
  <2> QED
    BY <2>1, <2>2, Answered DEF SlotsStay, ClocksStay, Stage
<1>3. ASSUME Send(r) PROVE SlotsStay /\ ClocksStay
  BY <1>3 DEF Send, slots, clocks, SlotsStay, ClocksStay
<1> QED
  BY <1>1, <1>2, <1>3

\* What goes on around the GETs.
LEMMA OthersStay ==
    ASSUME Books, UNCHANGED vars \/ Lifecycle \/ MakeRoom
             \/ (\E s \in Segment : Produce(s))
             \/ (\E s \in Segment : \E e \in Episode : Guard(s, e))
             \/ (\E v \in Reader : RetireReader(v))
             \/ (\E c \in Caps : SetGlobalCap(c))
    PROVE  SlotsStay /\ ClocksStay
<1> USE DEF Books
<1>1. CASE UNCHANGED vars
  BY <1>1 DEF vars, slots, asks, clocks, SlotsStay, ClocksStay
<1>2. CASE Lifecycle \/ (\E v \in Reader : RetireReader(v)) \/ (\E c \in Caps : SetGlobalCap(c))
  BY <1>2 DEF Lifecycle, RecordFailure, WakeFailed, Close, WakeClosed, RetireReader, SetGlobalCap,
     Drain, slots, asks, clocks, SlotsStay, ClocksStay
<1>3. CASE MakeRoom
  BY <1>3 DEF MakeRoom, Snapshot, Sweep, slots, asks, clocks, SlotsStay, ClocksStay
<1>4. ASSUME NEW s \in Segment, Produce(s) PROVE SlotsStay /\ ClocksStay
  <2>1. CASE Publish(s)
    BY <2>1, ClearStays DEF Publish, slots, asks, SlotsStay, ClocksStay
  <2>2. CASE Satisfy(s) \/ SinkReturn(s) \/ FailUnplaced(s)
    BY <2>2 DEF Satisfy, SinkReturn, FailUnplaced, Drain, slots, asks, clocks, SlotsStay, ClocksStay
  <2> QED
    BY <1>4, <2>1, <2>2 DEF Produce
<1>5. ASSUME NEW s \in Segment, NEW e \in Episode, Guard(s, e) PROVE SlotsStay /\ ClocksStay
  <2>1. CASE Elapse(s, e) \/ WatchdogAborted(s, e)
    BY <2>1 DEF Elapse, WatchdogAborted, slots, asks, SlotsStay, ClocksStay
  <2>2. CASE WatchdogWake(s, e)
    BY <2>2, ClearStays DEF WatchdogWake, slots, asks, SlotsStay, ClocksStay
  <2>3. CASE WatchdogInspect(s, e) \/ WatchdogForget(s, e)
    BY <2>3 DEF WatchdogInspect, WatchdogForget, slots, asks, SlotsStay, ClocksStay, TypeOK
  <2>4. CASE WatchdogExpire(s, e)
    BY <2>4 DEF WatchdogExpire, Drain, slots, SlotsStay, ClocksStay
  <2> QED
    BY <1>5, <2>1, <2>2, <2>3, <2>4 DEF Guard
<1> QED
  BY <1>1, <1>2, <1>3, <1>4, <1>5

\* So only three steps touch the books.
LEMMA BooksMove ==
    ASSUME Books, [Next]_vars
    PROVE  \/ \E r \in Request : Register(r) \/ DropDemand(r) \/ DropSlot(r)
           \/ SlotsStay /\ ClocksStay
BY AnsweringStays, OthersStay DEF Next, Get

\* The parts of CountersExact.
SlotsExact ==
    /\ retained = {r \in Request : stage[r] # "idle"}
    /\ parked \subseteq retained
    /\ total = Cardinality(retained)
    /\ \A p \in Parent : held[p] = Cardinality({r \in retained : ParentOf[r] = p})

\* Owners, of a given assignment of clocks to requests.
Holders(of, s, e) == {r \in On(s) : of[r] = e}

OwnersExact ==
    \A s \in Segment :
        clock[s].owners = IF clock[s] = NoClock THEN 0
                          ELSE Cardinality(Holders(episode, s, clock[s].episode))

\* Registration adds one to the slots, the viewer's allowance and the owners.
LEMMA RegisterBooks ==
    ASSUME Books, NEW r \in Request, Register(r)
    PROVE  SlotsExact' /\ OwnersExact' /\ Owned' /\ Named'
<1> DEFINE s == SegmentOf[r]
           p == ParentOf[r]
<1> USE RequestsAreAddressed, EpisodesAreDistinct DEF Books
<1>1. /\ s \in Segment /\ p \in Parent /\ stage[r] = "idle" /\ episode[r] = Nothing
      /\ stage' = [stage EXCEPT ![r] = "opening"]
      /\ r \notin retained
  BY DEF Register, Goes, Owned, CountersExact
<1>2. PICK e \in Joinable(s) :
        /\ clock' = [clock EXCEPT ![s] = Joined(@, e)]
        /\ episode' = [episode EXCEPT ![r] = e]
  BY DEF Register
<1>3. /\ e \in Episode
      /\ clock[s] # NoClock => e = clock[s].episode
      /\ clock[s] = NoClock => Owners(s, e) = {}
  <2>1. CASE clock[s] = NoClock
    BY <1>1, <1>2, <2>1 DEF Joinable, Owners, On
  <2>2. CASE clock[s] # NoClock
    BY <1>1, <1>2, <2>2, ClockTyped DEF Joinable, Named
  <2> QED
    BY <2>1, <2>2
<1>4. SlotsExact'
  <2>1. /\ retained' = retained \cup {r} /\ parked' = parked \cup {r}
        /\ total' = total + 1 /\ held' = [held EXCEPT ![p] = held[p] + 1]
    BY DEF Register
  <2>2. retained' = {q \in Request : stage'[q] # "idle"} /\ parked' \subseteq retained'
    BY <1>1, <2>1 DEF CountersExact, TypeOK
  <2>3. total' = Cardinality(retained')
    BY <1>1, <2>1, Finite, FS_AddElement DEF CountersExact
  <2>4. ASSUME NEW v \in Parent
        PROVE  held'[v] = Cardinality({q \in retained' : ParentOf[q] = v})
    <3> DEFINE Q == {q \in retained : ParentOf[q] = v}
    <3>1. IsFiniteSet(Q) /\ held[v] = Cardinality(Q)
      BY Finite DEF CountersExact
    <3>2. CASE v = p
      <4>1. {q \in retained' : ParentOf[q] = v} = Q \cup {r} /\ r \notin Q
        BY <1>1, <2>1, <3>2
      <4>2. Cardinality(Q \cup {r}) = Cardinality(Q) + 1
        BY <3>1, <4>1, FS_AddElement
      <4>3. held'[v] = held[v] + 1
        BY <1>1, <2>1, <3>2 DEF TypeOK
      <4> QED
        BY <3>1, <4>1, <4>2, <4>3
    <3>3. CASE v # p
      <4>1. {q \in retained' : ParentOf[q] = v} = Q
        BY <2>1, <3>3
      <4>2. held'[v] = held[v]
        BY <1>1, <2>1, <3>3 DEF TypeOK
      <4> QED
        BY <3>1, <4>1, <4>2
    <3> QED
      BY <3>2, <3>3
  <2> QED
    BY <2>2, <2>3, <2>4 DEF SlotsExact
<1>5. Owned'
  BY <1>1, <1>2, <1>3 DEF Owned, TypeOK
<1>6. Named'
  BY <1>1, <1>2, <1>3 DEF Named, Joined, TypeOK
<1>7. OwnersExact'
  <2> SUFFICES ASSUME NEW t \in Segment
               PROVE  clock'[t].owners = IF clock'[t] = NoClock THEN 0
                        ELSE Cardinality(Holders(episode', t, clock'[t].episode))
    BY DEF OwnersExact
  <2>1. CASE t = s
    <3>1. clock'[s] = Joined(clock[s], e)
      BY <1>1, <1>2 DEF TypeOK
    <3>2. clock'[s] # NoClock /\ clock'[s].episode = e /\ clock'[s].owners = clock[s].owners + 1
      BY <1>3, <3>1 DEF Joined, NoClock
    <3>3. Holders(episode', s, e) = Owners(s, e) \cup {r} /\ r \notin Owners(s, e)
      BY <1>1, <1>2, <1>3 DEF Holders, Owners, On, TypeOK
    <3>4. clock[s].owners = Cardinality(Owners(s, e))
      BY <1>1, <1>3, FS_EmptySet DEF CountersExact
    <3>5. Cardinality(Holders(episode', s, e)) = Cardinality(Owners(s, e)) + 1
      BY <1>1, <3>3, Finite, FS_AddElement
    <3> QED
      BY <2>1, <3>2, <3>4, <3>5
  <2>2. CASE t # s
    <3>1. clock'[t] = clock[t]
      BY <1>2, <2>2 DEF TypeOK
    <3>2. Holders(episode', t, clock[t].episode) = Owners(t, clock[t].episode)
      BY <1>2, <2>2, <3>1 DEF Holders, Owners, On, TypeOK
    <3> QED
      BY <3>1, <3>2 DEF CountersExact
  <2> QED
    BY <2>1, <2>2
<1> QED
  BY <1>4, <1>5, <1>6, <1>7

\* The demand's drop takes its owner away, or ends the clock with the last.
LEMMA DropDemandBooks ==
    ASSUME Books, NEW r \in Request, DropDemand(r)
    PROVE  SlotsExact' /\ OwnersExact' /\ Owned' /\ Named'
<1> DEFINE s == SegmentOf[r]
           e == episode[r]
<1> USE RequestsAreAddressed, EpisodesAreDistinct DEF Books
<1>1. /\ s \in Segment /\ stage[r] \in {"leaving", "refused"} /\ e \in Episode
      /\ stage' = [stage EXCEPT ![r] = "unowned"]
      /\ episode' = [episode EXCEPT ![r] = Nothing]
      /\ UNCHANGED <<parked, retained, held, total>>
  BY DEF DropDemand, Goes, Owned, TypeOK, slots
<1>2. SlotsExact'
  BY <1>1 DEF SlotsExact, CountersExact, TypeOK
<1>3. Owned'
  BY <1>1 DEF Owned, TypeOK
<1>4. \/ /\ Runs(s, e)
         /\ clock' = [clock EXCEPT ![s] = NoClock]
      \/ /\ Runs(s, e)
         /\ clock' = [clock EXCEPT ![s].owners = clock[s].owners - 1]
      \/ /\ ~Runs(s, e)
         /\ clock' = clock
  BY DEF DropDemand, ClearDemand
<1>5. Named'
  <2> SUFFICES ASSUME NEW t \in Segment, clock'[t].episode = Nothing
               PROVE  clock'[t] = NoClock
    BY DEF Named
  <2>1. clock'[t] = NoClock \/ (t = s /\ clock'[t].episode = e) \/ clock'[t] = clock[t]
    BY <1>1, <1>4 DEF Runs, TypeOK
  <2> QED
    BY <1>1, <2>1 DEF Named
<1>6. OwnersExact'
  <2> SUFFICES ASSUME NEW t \in Segment
               PROVE  clock'[t].owners = IF clock'[t] = NoClock THEN 0
                        ELSE Cardinality(Holders(episode', t, clock'[t].episode))
    BY DEF OwnersExact
  <2>1. CASE clock'[t] = NoClock
    BY <2>1 DEF NoClock
  <2>2. CASE clock'[t] # NoClock /\ ~(t = s /\ Runs(s, e))
    <3>1. clock'[t] = clock[t]
      BY <1>1, <1>4, <2>2 DEF TypeOK
    <3>2. Holders(episode', t, clock[t].episode) = Owners(t, clock[t].episode)
      <4>1. clock[t].episode # Nothing
        BY <2>2, <3>1 DEF Named
      <4> QED
        BY <1>1, <2>2, <3>1, <4>1 DEF Holders, Owners, On, Runs, TypeOK
    <3> QED
      BY <2>2, <3>1, <3>2 DEF CountersExact
  <2>3. CASE clock'[t] # NoClock /\ t = s /\ Runs(s, e)
    <3>1. /\ clock'[s].owners = clock[s].owners - 1 /\ clock'[s].episode = e
      BY <1>1, <1>4, <2>3 DEF Runs, TypeOK
    <3>2. Holders(episode', s, e) = Owners(s, e) \ {r} /\ r \in Owners(s, e)
      BY <1>1 DEF Holders, Owners, On, TypeOK
    <3>3. clock[s].owners = Cardinality(Owners(s, e))
      BY <1>1, <2>3 DEF Runs, NoClock, CountersExact
    <3>4. Cardinality(Holders(episode', s, e)) = Cardinality(Owners(s, e)) - 1
      <4>1. IsFiniteSet(Owners(s, e))
        BY <1>1, Finite
      <4>2. Cardinality(Owners(s, e) \ {r}) = Cardinality(Owners(s, e)) - 1
        BY <3>2, <4>1, FS_RemoveElement
      <4> QED
        BY <3>2, <4>2
    <3> QED
      BY <2>3, <3>1, <3>3, <3>4
  <2> QED
    BY <2>1, <2>2, <2>3
<1> QED
  BY <1>2, <1>3, <1>5, <1>6

\* The guard's drop gives the slot back.
LEMMA DropSlotBooks ==
    ASSUME Books, NEW r \in Request, DropSlot(r)
    PROVE  SlotsExact' /\ OwnersExact' /\ Owned' /\ Named'
<1> DEFINE p == ParentOf[r]
<1> USE RequestsAreAddressed DEF Books
<1>1. /\ p \in Parent /\ stage[r] = "unowned" /\ r \in retained
      /\ stage' = [stage EXCEPT ![r] = "idle"]
      /\ UNCHANGED <<episode, clock>>
  BY DEF DropSlot, Goes, CountersExact, clocks
<1>2. Owned' /\ Named' /\ OwnersExact'
  <2>1. Owned' /\ Named'
    BY <1>1 DEF Owned, Named, NoClock, TypeOK
  <2>2. OwnersExact'
    BY <1>1 DEF OwnersExact, CountersExact, Holders, Owners, On, NoClock
  <2> QED
    BY <2>1, <2>2
<1>3. SlotsExact'
  <2>1. /\ retained' = retained \ {r} /\ parked' = parked \ {r}
        /\ total' = total - 1 /\ held' = [held EXCEPT ![p] = held[p] - 1]
    BY DEF DropSlot
  <2>2. retained' = {q \in Request : stage'[q] # "idle"} /\ parked' \subseteq retained'
    BY <1>1, <2>1 DEF CountersExact, TypeOK
  <2>3. total' = Cardinality(retained')
    BY <1>1, <2>1, Finite, FS_RemoveElement DEF CountersExact
  <2>4. ASSUME NEW v \in Parent
        PROVE  held'[v] = Cardinality({q \in retained' : ParentOf[q] = v})
    <3> DEFINE Q == {q \in retained : ParentOf[q] = v}
    <3>1. IsFiniteSet(Q) /\ held[v] = Cardinality(Q)
      BY Finite DEF CountersExact
    <3>2. CASE v = p
      <4>1. {q \in retained' : ParentOf[q] = v} = Q \ {r} /\ r \in Q
        BY <1>1, <2>1, <3>2
      <4>2. Cardinality(Q \ {r}) = Cardinality(Q) - 1
        BY <3>1, <4>1, FS_RemoveElement
      <4>3. held'[v] = held[v] - 1
        BY <1>1, <2>1, <3>2 DEF TypeOK
      <4> QED
        BY <3>1, <4>1, <4>2, <4>3
    <3>3. CASE v # p
      <4>1. {q \in retained' : ParentOf[q] = v} = Q
        BY <2>1, <3>3
      <4>2. held'[v] = held[v]
        BY <1>1, <2>1, <3>3 DEF TypeOK
      <4> QED
        BY <3>1, <4>1, <4>2
    <3> QED
      BY <3>2, <3>3
  <2> QED
    BY <2>2, <2>3, <2>4 DEF SlotsExact
<1> QED
  BY <1>2, <1>3

\* The books are kept by every step, and open correctly.
LEMMA BooksKept ==
    ASSUME Books, [Next]_vars
    PROVE  Books'
<1>1. CASE SlotsStay /\ ClocksStay
  <2>1. SlotsExact'
    BY <1>1 DEF Books, CountersExact, SlotsStay, SlotsExact
  <2>2. OwnersExact'
    <3> SUFFICES ASSUME NEW t \in Segment
                 PROVE  clock'[t].owners = IF clock'[t] = NoClock THEN 0
                          ELSE Cardinality(Holders(episode', t, clock'[t].episode))
      BY DEF OwnersExact
    <3>1. CASE clock'[t] = NoClock
      BY <3>1 DEF NoClock
    <3>2. CASE clock'[t] # NoClock
      <4>1. /\ clock[t] # NoClock
            /\ clock'[t].episode = clock[t].episode
            /\ clock'[t].owners = clock[t].owners
        BY <1>1, <3>2 DEF ClocksStay
      <4>2. Holders(episode', t, clock'[t].episode) = Owners(t, clock[t].episode)
        BY <1>1, <4>1 DEF ClocksStay, Holders, Owners, On
      <4> QED
        BY <3>2, <4>1, <4>2 DEF Books, CountersExact
    <3> QED
      BY <3>1, <3>2
  <2>3. Owned' /\ Named'
    BY <1>1 DEF Books, Owned, Named, ClocksStay, NoClock
  <2> QED
    BY <2>1, <2>2, <2>3, TypeKept DEF Books, CountersExact, SlotsExact, OwnersExact, Holders, Owners
<1>2. ASSUME NEW r \in Request, Register(r) \/ DropDemand(r) \/ DropSlot(r)
      PROVE  Books'
  BY <1>2, TypeKept, RegisterBooks, DropDemandBooks, DropSlotBooks
     DEF Books, CountersExact, SlotsExact, OwnersExact, Holders, Owners
<1> QED
  BY <1>1, <1>2, BooksMove

LEMMA BooksOpen ==
    ASSUME Init
    PROVE  Books
<1>1. retained = {r \in Request : stage[r] # "idle"} /\ parked \subseteq retained
  BY DEF Init
<1>2. total = Cardinality(retained)
  BY FS_EmptySet DEF Init
<1>3. \A p \in Parent : held[p] = Cardinality({r \in retained : ParentOf[r] = p})
  <2>1. retained = {}
    BY DEF Init
  <2>2. \A p \in Parent : {r \in retained : ParentOf[r] = p} = {}
    BY <2>1
  <2> QED
    BY <2>2, FS_EmptySet DEF Init
<1>4. Owned /\ Named
  BY DEF Init, Owned, Named
<1>5. \A s \in Segment : clock[s] = NoClock /\ clock[s].owners = 0
  BY DEF Init, NoClock
<1> QED
  BY <1>1, <1>2, <1>3, <1>4, <1>5, InitTyped DEF Books, CountersExact

\* Every variable has its type: no count of the pool or of a clock falls below
\* zero, whatever is woken, dropped, retired or expired when.
THEOREM TypeCorrect == Spec => []TypeOK
<1>1. Spec => []Books
  BY BooksOpen, BooksKept, PTL DEF Spec
<1> QED
  BY <1>1, PTL DEF Books

\* The pool's counters and every clock's owners are exactly what the GETs hold
\* (register_reader, SlotGuard::drop, MaterializeDemand::drop).
THEOREM CountsAreExact == Spec => []CountersExact
<1>1. Spec => []Books
  BY BooksOpen, BooksKept, PTL DEF Spec
<1> QED
  BY <1>1, PTL DEF Books

-----------------------------------------------------------------------------
(* Verdicts                                                                 *)

\* A GET that has left, or is not there, has nothing on its way to it.
Quiet ==
    \A r \in Request :
      stage[r] \in Leaving \cup {"idle"} => inbox[r] = Nothing /\ flight[r] = Nothing

\* Where a watchdog stands once its timer has fired.
Past == {"due", "inspecting", "judging", "retaining"}

\* When the running clock's watchdog has woken, everybody with an interest in
\* the segment is out of budget, those of older clocks included.
RunOut ==
    \A s \in Segment, e \in Episode :
      Runs(s, e) /\ watchdog[s][e] \in Past =>
        \A r \in On(s) : episode[r] # Nothing => r \in overdue

\* What the verdicts rest on.
Verdicts == Books /\ Quiet /\ RunOut /\ NoEarlyVerdict

\* What is drained goes to GETs that are there and listen.
LEMMA DrainKeeps ==
    ASSUME Verdicts, NEW W, NEW o \in Outcome, Drain(W, o)
    PROVE  /\ Quiet'
           /\ o # "Expired" /\ overdue' = overdue => NoEarlyVerdict'
<1>1. /\ UNCHANGED <<inbox, stage>>
      /\ \A r \in Request :
           \/ flight'[r] = flight[r]
           \/ flight'[r] = o /\ stage[r] \notin Leaving \cup {"idle"}
  BY DEF Drain, Verdicts, Books, CountersExact
<1> QED
  BY <1>1 DEF Verdicts, Quiet, NoEarlyVerdict

\* A GET's own steps hand on a verdict or give it out of budget.
LEMMA AnsweringVerdicts ==
    ASSUME Verdicts, NEW r \in Request,
           Reopen(r) \/ Receive(r) \/ OpenReady(r) \/ Deadline(r) \/ LeaveToRetry(r)
             \/ Disconnect(r) \/ Send(r)
    PROVE  Quiet' /\ RunOut' /\ NoEarlyVerdict'
<1> USE DEF Verdicts, Books
<1>1. RunOut'
  <2>1. /\ UNCHANGED <<episode, overdue, watchdog>>
        /\ \A s \in Segment : clock'[s].episode = clock[s].episode
    <3>1. CASE LeaveToRetry(r)
      <4>1. UNCHANGED <<episode, overdue, watchdog>>
        BY <3>1 DEF LeaveToRetry
      <4>2. clock' = clock \/ clock' = [clock EXCEPT ![SegmentOf[r]].retry = TRUE]
        BY <3>1 DEF LeaveToRetry
      <4>3. ASSUME NEW s \in Segment PROVE clock'[s].episode = clock[s].episode
        <5>1. CASE clock' = clock
          BY <5>1
        <5>2. CASE clock' = [clock EXCEPT ![SegmentOf[r]].retry = TRUE]
          BY <5>2, KeepsName, RequestsAreAddressed, Zenon
        <5> QED
          BY <4>2, <5>1, <5>2
      <4> QED
        BY <4>1, <4>3
    <3>2. CASE ~LeaveToRetry(r)
      BY <3>2 DEF Reopen, Receive, OpenReady, Deadline, Disconnect, Send, clocks
    <3> QED
      BY <3>1, <3>2
  <2> QED
    BY <2>1 DEF RunOut, Runs
<1>2. Quiet'
  BY DEF Reopen, Receive, OpenReady, Deadline, LeaveToRetry, Disconnect, Send,
     Goes, Leaves, Leaving, Quiet, TypeOK
<1>3. NoEarlyVerdict'
  <2>1. CASE Send(r)
    BY <2>1 DEF Send, clocks, Nothing, NoEarlyVerdict, TypeOK
  <2>2. ASSUME ~Send(r)
        PROVE  /\ overdue' = overdue
               /\ \E to \in Stage :
                    /\ Goes(r, to) \/ Leaves(r, to)
                    /\ to = "refused" => r \in overdue
    BY <2>2 DEF Reopen, Receive, OpenReady, Deadline, LeaveToRetry, Disconnect, clocks, Stage,
       NoEarlyVerdict
  <2>3. ASSUME NEW to \in Stage, Goes(r, to) \/ Leaves(r, to), to = "refused" => r \in overdue,
               overdue' = overdue
        PROVE  NoEarlyVerdict'
    BY <2>3 DEF Goes, Leaves, Nothing, NoEarlyVerdict, TypeOK
  <2> QED
    BY <2>1, <2>2, <2>3
<1> QED
  BY <1>1, <1>2, <1>3

\* A GET that joins a clock past its budget is out of budget at once.
LEMMA RegisterVerdicts ==
    ASSUME Verdicts, NEW r \in Request, Register(r)
    PROVE  Quiet' /\ RunOut' /\ NoEarlyVerdict'
<1> DEFINE s == SegmentOf[r]
<1> USE RequestsAreAddressed, EpisodesAreDistinct DEF Verdicts, Books
<1>1. /\ s \in Segment /\ stage[r] = "idle"
      /\ stage' = [stage EXCEPT ![r] = "opening"]
      /\ UNCHANGED <<inbox, flight>>
      /\ overdue \subseteq overdue'
  BY DEF Register, Goes
<1>2. Quiet' /\ NoEarlyVerdict'
  BY <1>1 DEF Quiet, NoEarlyVerdict, Leaving, TypeOK
<1>3. PICK e \in Joinable(s) :
        /\ clock' = [clock EXCEPT ![s] = Joined(@, e)]
        /\ episode' = [episode EXCEPT ![r] = e]
        /\ IF clock[s] = NoClock
             THEN /\ watchdog' = [watchdog EXCEPT ![s][e] = "sleeping"]
                  /\ UNCHANGED overdue
             ELSE /\ overdue' = IF watchdog[s][e] = "sleeping" THEN overdue ELSE overdue \cup {r}
                  /\ UNCHANGED watchdog
  BY DEF Register
<1>4. ASSUME NEW t \in Segment, NEW d \in Episode, clock'[t].episode = d, watchdog'[t][d] \in Past,
             NEW q \in On(t), episode'[q] # Nothing
      PROVE  q \in overdue'
  <2>1. CASE t # s
    BY <1>1, <1>3, <1>4, <2>1 DEF RunOut, Runs, On, TypeOK
  <2>2. CASE t = s /\ clock[s] = NoClock
    <3>1. clock'[s].episode = e /\ e \in Episode
      BY <1>1, <1>3, <2>2 DEF Joinable, Joined, TypeOK
    <3>2. watchdog'[s][e] = "sleeping"
      BY <1>1, <1>3, <2>2, <3>1 DEF TypeOK
    <3> QED
      BY <1>4, <2>2, <3>1, <3>2 DEF Past
  <2>3. CASE t = s /\ clock[s] # NoClock
    <3>1. e = clock[s].episode /\ clock'[s].episode = e
      BY <1>1, <1>3, <2>3 DEF Joinable, Joined, TypeOK
    <3>2. Runs(s, d) /\ watchdog[s][d] \in Past /\ d = e
      BY <1>3, <1>4, <2>3, <3>1 DEF Runs
    <3>3. overdue' = overdue \cup {r}
      BY <1>3, <2>3, <3>2 DEF Past
    <3> QED
      BY <1>3, <1>4, <2>3, <3>2, <3>3 DEF RunOut, On, TypeOK
  <2> QED
    BY <2>1, <2>2, <2>3
<1>5. RunOut'
  BY <1>4 DEF RunOut, Runs, On
<1> QED
  BY <1>2, <1>5

\* Who leaves takes no verdict with it.
LEMMA DroppingVerdicts ==
    ASSUME Verdicts, NEW r \in Request, DropDemand(r) \/ DropSlot(r)
    PROVE  Quiet' /\ RunOut' /\ NoEarlyVerdict'
<1> USE RequestsAreAddressed, EpisodesAreDistinct DEF Verdicts, Books
<1>1. CASE DropSlot(r)
  BY <1>1 DEF DropSlot, Goes, clocks, Leaving, Quiet, RunOut, Runs, On, NoEarlyVerdict, TypeOK
<1>2. CASE DropDemand(r)
  <2> DEFINE s == SegmentOf[r]
  <2>1. /\ s \in Segment /\ stage[r] \in {"leaving", "refused"}
        /\ stage' = [stage EXCEPT ![r] = "unowned"]
        /\ UNCHANGED <<inbox, flight>>
        /\ overdue' = overdue \ {r}
        /\ episode' = [episode EXCEPT ![r] = Nothing]
    BY <1>2 DEF DropDemand, Goes
  <2>2. Quiet' /\ NoEarlyVerdict'
    <3>1. inbox[r] = Nothing /\ flight[r] = Nothing
      BY <2>1 DEF Quiet, Leaving
    <3>2. Quiet'
      BY <2>1, <3>1 DEF Quiet, TypeOK
    <3>3. NoEarlyVerdict'
      <4> SUFFICES ASSUME NEW q \in Request,
                          "Expired" \in {inbox'[q], flight'[q]} \/ stage'[q] = "refused"
                   PROVE  q \in overdue'
        BY DEF NoEarlyVerdict
      <4>1. q # r
        BY <2>1, <3>1 DEF Nothing, TypeOK
      <4> QED
        BY <2>1, <4>1 DEF NoEarlyVerdict, TypeOK
    <3> QED
      BY <3>2, <3>3
  <2>3. ASSUME NEW t \in Segment, NEW d \in Episode, clock'[t].episode = d
        PROVE  Runs(t, d) /\ watchdog'[t][d] = watchdog[t][d]
    <3>1. CASE Runs(s, episode[r]) /\ clock[s].owners = 1 /\ ~clock[s].retry
      <4>1. /\ clock' = [clock EXCEPT ![s] = NoClock]
            /\ \A u \in Segment : u # s => watchdog'[u] = watchdog[u]
        BY <1>2, <2>1, <3>1 DEF DropDemand, ClearDemand, TypeOK
      <4>2. t # s
        BY <2>1, <2>3, <4>1 DEF NoClock, TypeOK
      <4> QED
        BY <2>1, <2>3, <4>1, <4>2 DEF Runs, TypeOK
    <3>2. CASE ~(Runs(s, episode[r]) /\ clock[s].owners = 1 /\ ~clock[s].retry)
      <4>1. /\ watchdog' = watchdog
            /\ \/ clock' = clock
               \/ clock' = [clock EXCEPT ![s].owners = clock[s].owners - 1]
        BY <1>2, <3>2 DEF DropDemand
      <4> QED
        BY <2>1, <2>3, <4>1 DEF Runs, TypeOK
    <3> QED
      BY <3>1, <3>2
  <2>4. ASSUME NEW t \in Segment, NEW d \in Episode, clock'[t].episode = d, watchdog'[t][d] \in Past,
               NEW q \in On(t), episode'[q] # Nothing
        PROVE  q \in overdue'
    BY <2>1, <2>3, <2>4 DEF RunOut, On, TypeOK
  <2>5. RunOut'
    BY <2>4 DEF RunOut, Runs, On
  <2> QED
    BY <2>2, <2>5
<1> QED
  BY <1>1, <1>2

\* No step of the lifecycle, the driver or an administrator gives a verdict.
LEMMA LifecycleVerdicts ==
    ASSUME Verdicts,
           Lifecycle \/ MakeRoom \/ UNCHANGED vars \/ (\E v \in Reader : RetireReader(v))
             \/ (\E c \in Caps : SetGlobalCap(c))
    PROVE  Quiet' /\ RunOut' /\ NoEarlyVerdict'
<1>1. UNCHANGED <<clocks, episode>>
  BY DEF vars, Lifecycle, RecordFailure, WakeFailed, Close, WakeClosed, MakeRoom, Snapshot, Sweep,
     RetireReader, SetGlobalCap, Drain, asks
<1>2. RunOut'
  BY <1>1 DEF clocks, Verdicts, RunOut, Runs
<1>3. Quiet' /\ NoEarlyVerdict'
  <2>1. (\E W : Drain(W, "Ended")) \/ UNCHANGED asks
    BY DEF vars, Lifecycle, RecordFailure, WakeFailed, Close, WakeClosed, MakeRoom, Snapshot, Sweep,
       RetireReader, SetGlobalCap
  <2> QED
    BY <1>1, <2>1, DrainKeeps DEF Verdicts, Outcome, asks, clocks, Quiet, NoEarlyVerdict
<1> QED
  BY <1>2, <1>3

\* After a clock has been cleared, a clock that runs is another, and its
\* watchdog untouched.
LEMMA ClearEnds ==
    ASSUME TypeOK, NEW s \in Segment, ClearDemand(s),
           NEW t \in Segment, NEW d \in Episode, clock'[t].episode = d
    PROVE  Runs(t, d) /\ watchdog'[t][d] = watchdog[t][d] /\ t # s
BY EpisodesAreDistinct DEF ClearDemand, NoClock, Runs, TypeOK

\* A watchdog's step is its own.
LEMMA BecomesAt ==
    ASSUME TypeOK, NEW s \in Segment, NEW e \in Episode,
           NEW to \in {"sleeping", "due", "inspecting", "judging", "retaining", "over"},
           Becomes(s, e, to), NEW t \in Segment, NEW d \in Episode
    PROVE  watchdog'[t][d] = IF t = s /\ d = e THEN to ELSE watchdog[t][d]
BY DEF Becomes, TypeOK

\* A clock that ends has no verdict left to give.
LEMMA ClearVerdicts ==
    ASSUME Verdicts, NEW s \in Segment, ClearDemand(s), UNCHANGED <<episode, overdue>>
    PROVE  RunOut'
<1> USE EpisodesAreDistinct DEF Verdicts, Books
<1>1. ASSUME NEW t \in Segment, NEW d \in Episode, clock'[t].episode = d
      PROVE  Runs(t, d) /\ watchdog'[t][d] = watchdog[t][d]
  BY <1>1, ClearEnds
<1> QED
  BY <1>1 DEF RunOut, Runs

\* Nor does the sink.
LEMMA ProduceVerdicts ==
    ASSUME Verdicts, NEW s \in Segment, Produce(s)
    PROVE  Quiet' /\ RunOut' /\ NoEarlyVerdict'
<1>1. CASE Publish(s)
  BY <1>1, ClearVerdicts DEF Publish, asks, Verdicts, Quiet, NoEarlyVerdict
<1>2. CASE SinkReturn(s)
  BY <1>2 DEF SinkReturn, asks, clocks, Verdicts, Quiet, NoEarlyVerdict, RunOut, Runs
<1>3. CASE Satisfy(s) \/ FailUnplaced(s)
  <2>1. UNCHANGED <<clocks, episode>> /\ \E o \in Outcome \ {"Expired"} : Drain(On(s), o)
    BY <1>3 DEF Satisfy, FailUnplaced, Drain, Outcome
  <2> QED
    BY <2>1, DrainKeeps DEF clocks, Verdicts, RunOut, Runs
<1> QED
  BY <1>1, <1>2, <1>3 DEF Produce

\* The running clock is the last to run out.
LEMMA ElapseVerdicts ==
    ASSUME Verdicts, NEW s \in Segment, NEW e \in Episode, Elapse(s, e)
    PROVE  Quiet' /\ RunOut' /\ NoEarlyVerdict'
<1> USE DEF Verdicts, Books
<1>1. /\ UNCHANGED <<asks, clock>>
      /\ overdue' = overdue \cup Owners(s, e)
      /\ watchdog' = watchdog \/ watchdog' = [watchdog EXCEPT ![s][e] = "due"]
      /\ Runs(s, e) => \A r \in On(s) : episode[r] \in {e, Nothing} \/ r \in overdue
  BY DEF Elapse
<1>2. Quiet' /\ NoEarlyVerdict'
  BY <1>1 DEF asks, Quiet, NoEarlyVerdict
<1>3. ASSUME NEW t \in Segment, NEW d \in Episode, Runs(t, d), watchdog'[t][d] \in Past,
             NEW r \in On(t), episode[r] # Nothing
      PROVE  r \in overdue'
  <2>1. CASE t = s /\ d = e
    BY <1>1, <1>3, <2>1 DEF Owners
  <2>2. CASE ~(t = s /\ d = e)
    <3>1. watchdog'[t][d] = watchdog[t][d]
      BY <1>1, <2>2 DEF TypeOK
    <3> QED
      BY <1>1, <1>3, <3>1 DEF RunOut
  <2> QED
    BY <2>1, <2>2
<1>4. RunOut'
  BY <1>1, <1>3 DEF asks, RunOut, Runs, On
<1> QED
  BY <1>2, <1>4

\* The watchdog's steps only lead on, or end it, or the clock.
LEMMA WatchdogVerdicts ==
    ASSUME Verdicts, NEW s \in Segment, NEW e \in Episode,
           WatchdogWake(s, e) \/ WatchdogInspect(s, e) \/ WatchdogForget(s, e)
             \/ WatchdogAborted(s, e)
    PROVE  Quiet' /\ RunOut' /\ NoEarlyVerdict'
<1> USE EpisodesAreDistinct DEF Verdicts, Books
<1>1. UNCHANGED <<asks, overdue>>
  BY DEF WatchdogWake, WatchdogInspect, WatchdogForget, WatchdogAborted
<1>2. Quiet' /\ NoEarlyVerdict'
  BY <1>1 DEF asks, Quiet, NoEarlyVerdict
<1>3. ASSUME NEW t \in Segment, NEW d \in Episode, clock'[t].episode = d, watchdog'[t][d] \in Past
      PROVE  Runs(t, d) /\ watchdog[t][d] \in Past
  <2>1. CASE WatchdogWake(s, e)
    <3>1. CASE ClearDemand(s)
      BY <1>3, <3>1, ClearEnds
    <3>2. CASE Becomes(s, e, "inspecting") /\ UNCHANGED clock
      BY <1>3, <2>1, <3>2, BecomesAt DEF WatchdogWake, Runs, Past
    <3> QED
      BY <2>1, <3>1, <3>2 DEF WatchdogWake
  <2>2. CASE WatchdogInspect(s, e)
    <3>1. CASE s \in present
      <4>1. t # s /\ Runs(t, d)
        BY <1>3, <2>2, <3>1 DEF WatchdogInspect, NoClock, Runs, TypeOK
      <4>2. watchdog'[t] = watchdog[t]
        BY <2>2, <3>1, <4>1 DEF WatchdogInspect, TypeOK
      <4> QED
        BY <1>3, <4>1, <4>2
    <3>2. CASE s \notin present
      <4>1. \E to \in {"judging", "over"} : Becomes(s, e, to)
        BY <2>2, <3>2 DEF WatchdogInspect
      <4> QED
        BY <1>3, <2>2, <3>2, <4>1, BecomesAt DEF WatchdogInspect, Runs, Past
    <3> QED
      BY <3>1, <3>2
  <2>3. CASE WatchdogForget(s, e) \/ WatchdogAborted(s, e)
    <3>1. Becomes(s, e, "over")
      BY <2>3 DEF WatchdogForget, WatchdogAborted
    <3>2. Runs(t, d)
      BY <1>3, <2>3 DEF WatchdogForget, WatchdogAborted, NoClock, Runs, TypeOK
    <3> QED
      BY <1>3, <3>1, <3>2, BecomesAt DEF Past
  <2> QED
    BY <2>1, <2>2, <2>3
<1>4. RunOut'
  BY <1>1, <1>3 DEF asks, RunOut, Runs
<1> QED
  BY <1>2, <1>4

\* Whoever is woken by an expiry is out of budget: it is the running clock's,
\* and a GET that is registered has an interest in a clock.
LEMMA ExpireVerdicts ==
    ASSUME Verdicts, NEW s \in Segment, NEW e \in Episode, WatchdogExpire(s, e)
    PROVE  Quiet' /\ RunOut' /\ NoEarlyVerdict'
<1> USE DEF Verdicts, Books
<1>1. /\ watchdog[s][e] = "judging" /\ UNCHANGED <<clock, overdue, episode>>
      /\ \/ watchdog' = [watchdog EXCEPT ![s][e] = "retaining"]
         \/ watchdog' = [watchdog EXCEPT ![s][e] = "over"]
  BY DEF WatchdogExpire, Becomes, Drain
<1>2. RunOut'
  <2>1. ASSUME NEW t \in Segment, NEW d \in Episode, watchdog'[t][d] \in Past
        PROVE  watchdog[t][d] \in Past
    <3>1. \E to \in {"retaining", "over"} : Becomes(s, e, to)
      BY <1>1 DEF Becomes
    <3> QED
      BY <1>1, <2>1, <3>1, BecomesAt DEF Past
  <2> QED
    BY <1>1, <2>1 DEF RunOut, Runs
<1>3. CASE Runs(s, e)
  <2>1. Drain(On(s), "Expired")
    BY <1>3 DEF WatchdogExpire
  <2>2. ASSUME NEW r \in Request, r \in parked, r \in On(s), stage[r] \notin Leaving
        PROVE  r \in overdue
    <3>1. episode[r] # Nothing
      BY <2>2 DEF CountersExact, Owned, Leaving
    <3> QED
      BY <1>1, <1>3, <2>2, <3>1 DEF RunOut, Past
  <2>3. NoEarlyVerdict'
    BY <1>1, <2>1, <2>2 DEF Drain, NoEarlyVerdict
  <2> QED
    BY <1>2, <2>1, <2>3, DrainKeeps DEF Outcome
<1>4. CASE ~Runs(s, e)
  BY <1>1, <1>2, <1>4 DEF WatchdogExpire, Quiet, NoEarlyVerdict
<1> QED
  BY <1>3, <1>4

\* Verdicts are sound in every step, and at first.
LEMMA VerdictsKept ==
    ASSUME Verdicts, [Next]_vars
    PROVE  Verdicts'
<1>1. Books'
  BY BooksKept DEF Verdicts
<1>2. Quiet' /\ RunOut' /\ NoEarlyVerdict'
  BY AnsweringVerdicts, RegisterVerdicts, DroppingVerdicts, LifecycleVerdicts, ProduceVerdicts,
     ElapseVerdicts, WatchdogVerdicts, ExpireVerdicts
     DEF Next, Get, Guard
<1> QED
  BY <1>1, <1>2 DEF Verdicts

LEMMA VerdictsOpen ==
    ASSUME Init
    PROVE  Verdicts
<1>1. Quiet /\ NoEarlyVerdict
  BY DEF Init, Quiet, NoEarlyVerdict, Nothing
<1>2. RunOut
  BY DEF Init, RunOut, Past
<1> QED
  BY <1>1, <1>2, BooksOpen DEF Verdicts

\* No GET is told that its segment missed the deadline before the clock it
\* joined has run out (MaterializeClock.started, expire_entry under the lock).
THEOREM VerdictsAreDue == Spec => []NoEarlyVerdict
<1>1. Spec => []Verdicts
  BY VerdictsOpen, VerdictsKept, PTL DEF Spec
<1> QED
  BY <1>1, PTL DEF Verdicts

-----------------------------------------------------------------------------
(* A verdict and a publication                                              *)

\* Between the watchdog's look at the manifest and its verdict, the segment is
\* missing or the clock another's.
Missing ==
    \A s \in Segment, e \in Episode :
      Runs(s, e) /\ watchdog[s][e] = "judging" => s \notin present

\* What a step may do to the two without being the look itself.
LEMMA MissingStays ==
    ASSUME Missing, present' \subseteq present,
           \A s \in Segment, e \in Episode :
             clock'[s].episode = e /\ watchdog'[s][e] = "judging"
               => Runs(s, e) /\ watchdog[s][e] = "judging"
    PROVE  Missing'
BY DEF Missing, Runs

\* A publication ends the clock under the watchdog's eyes.
LEMMA MissingKept ==
    ASSUME Verdicts, Missing, [Next]_vars
    PROVE  Missing'
<1> USE RequestsAreAddressed, EpisodesAreDistinct DEF Verdicts, Books
<1>1. CASE \/ UNCHANGED vars \/ Lifecycle \/ MakeRoom
           \/ (\E r \in Request : Reopen(r) \/ Receive(r) \/ OpenReady(r) \/ Deadline(r)
                                 \/ Disconnect(r) \/ Send(r) \/ DropSlot(r))
           \/ (\E s \in Segment : Satisfy(s) \/ SinkReturn(s) \/ FailUnplaced(s))
           \/ (\E v \in Reader : RetireReader(v))
           \/ (\E c \in Caps : SetGlobalCap(c))
  <2>1. UNCHANGED clocks
    BY <1>1 DEF vars, Lifecycle, RecordFailure, WakeFailed, Close, WakeClosed, MakeRoom, Snapshot,
       Sweep, Reopen, Receive, OpenReady, Deadline, Disconnect, Send, DropSlot, Satisfy,
       SinkReturn, FailUnplaced, RetireReader, SetGlobalCap
  <2>2. present' \subseteq present
    BY <1>1 DEF vars, media, Lifecycle, RecordFailure, WakeFailed, Close, WakeClosed, MakeRoom,
       Snapshot, Sweep, Reopen, Receive, OpenReady, Deadline, Disconnect, Send, DropSlot, Satisfy,
       SinkReturn, FailUnplaced, RetireReader, SetGlobalCap
  <2> QED
    BY <2>1, <2>2 DEF clocks, Missing, Runs
<1>2. ASSUME NEW r \in Request, Register(r) PROVE Missing'
  <2> DEFINE s == SegmentOf[r]
  <2>1. s \in Segment /\ UNCHANGED media
    BY <1>2 DEF Register
  <2>2. PICK e \in Joinable(s) :
          /\ clock' = [clock EXCEPT ![s] = Joined(@, e)]
          /\ IF clock[s] = NoClock
               THEN watchdog' = [watchdog EXCEPT ![s][e] = "sleeping"]
               ELSE UNCHANGED watchdog
    BY <1>2 DEF Register
  <2>3. ASSUME NEW t \in Segment, NEW d \in Episode, clock'[t].episode = d,
               watchdog'[t][d] = "judging"
        PROVE  Runs(t, d) /\ watchdog[t][d] = "judging"
    <3>1. CASE t # s
      BY <2>1, <2>2, <2>3, <3>1 DEF Runs, TypeOK
    <3>2. CASE t = s /\ clock[s] = NoClock
      <4>1. d = e
        BY <2>1, <2>2, <2>3, <3>2 DEF Joined, TypeOK
      <4>2. watchdog'[s][e] = "sleeping"
        BY <2>1, <2>2, <3>2, <4>1 DEF TypeOK
      <4> QED
        BY <2>3, <3>2, <4>1, <4>2
    <3>3. CASE t = s /\ clock[s] # NoClock
      BY <2>1, <2>2, <2>3, <3>3 DEF Joinable, Joined, Runs, TypeOK
    <3> QED
      BY <3>1, <3>2, <3>3
  <2> QED
    BY <2>1, <2>3, MissingStays DEF media
<1>3. ASSUME NEW r \in Request, LeaveToRetry(r) PROVE Missing'
  <2>1. UNCHANGED <<watchdog, media>> /\ ClocksStay
    BY <1>3, AnsweringStays DEF LeaveToRetry
  <2>2. \A s \in Segment, e \in Episode : clock'[s].episode = e => Runs(s, e)
    BY <2>1 DEF ClocksStay, NoClock, Runs
  <2> QED
    BY <2>1, <2>2, MissingStays DEF media
<1>4. ASSUME NEW r \in Request, DropDemand(r) PROVE Missing'
  <2> DEFINE s == SegmentOf[r]
  <2>1. s \in Segment /\ UNCHANGED media
    BY <1>4 DEF DropDemand
  <2>2. CASE ClearDemand(s)
    BY <2>1, <2>2, ClearEnds, MissingStays DEF media
  <2>3. CASE ~ClearDemand(s)
    <3>1. /\ watchdog' = watchdog
          /\ \/ clock' = clock
             \/ clock' = [clock EXCEPT ![s].owners = clock[s].owners - 1]
      BY <1>4, <2>3 DEF DropDemand
    <3>2. \A t \in Segment : clock'[t].episode = clock[t].episode
      <4>1. CASE clock' = clock
        BY <4>1
      <4>2. CASE clock' = [clock EXCEPT ![s].owners = clock[s].owners - 1]
        BY <2>1, <4>2, KeepsName, Zenon
      <4> QED
        BY <3>1, <4>1, <4>2
    <3> QED
      BY <2>1, <3>1, <3>2, MissingStays DEF media, Runs
  <2> QED
    BY <2>2, <2>3
<1>5. ASSUME NEW s \in Segment, Publish(s) PROVE Missing'
  <2> SUFFICES ASSUME NEW t \in Segment, NEW d \in Episode, clock'[t].episode = d,
                      watchdog'[t][d] = "judging"
               PROVE  t \notin present'
    BY DEF Missing, Runs
  <2>1. Runs(t, d) /\ watchdog[t][d] = "judging" /\ t # s
    BY <1>5, ClearEnds DEF Publish
  <2> QED
    BY <1>5, <2>1 DEF Publish, Missing
<1>6. ASSUME NEW s \in Segment, NEW e \in Episode, Elapse(s, e) PROVE Missing'
  <2>1. /\ UNCHANGED <<clock, media>>
        /\ watchdog' = watchdog \/ Becomes(s, e, "due")
    BY <1>6 DEF Elapse, Becomes
  <2> QED
    BY <2>1, BecomesAt, MissingStays DEF media, Runs
<1>7. ASSUME NEW s \in Segment, NEW e \in Episode, WatchdogWake(s, e) PROVE Missing'
  <2>1. CASE ClearDemand(s)
    BY <1>7, <2>1, ClearEnds, MissingStays DEF WatchdogWake, media
  <2>2. CASE Becomes(s, e, "inspecting") /\ UNCHANGED clock
    BY <1>7, <2>2, BecomesAt, MissingStays DEF WatchdogWake, media, Runs
  <2> QED
    BY <1>7, <2>1, <2>2 DEF WatchdogWake
<1>8. ASSUME NEW s \in Segment, NEW e \in Episode, WatchdogInspect(s, e) PROVE Missing'
  <2>1. UNCHANGED media
    BY <1>8 DEF WatchdogInspect
  <2>2. CASE s \in present
    <3>1. ASSUME NEW t \in Segment, NEW d \in Episode, clock'[t].episode = d
          PROVE  Runs(t, d) /\ watchdog'[t] = watchdog[t]
      <4>1. t # s /\ Runs(t, d)
        BY <1>8, <2>2, <3>1 DEF WatchdogInspect, NoClock, Runs, TypeOK
      <4> QED
        BY <1>8, <2>2, <4>1 DEF WatchdogInspect, TypeOK
    <3> QED
      BY <2>1, <3>1, MissingStays DEF media
  <2>3. CASE s \notin present
    <3>1. UNCHANGED clock /\ \E to \in {"judging", "over"} : Becomes(s, e, to)
      BY <1>8, <2>3 DEF WatchdogInspect
    <3> QED
      BY <2>1, <2>3, <3>1, BecomesAt DEF media, Missing, Runs
  <2> QED
    BY <2>2, <2>3
<1>9. ASSUME NEW s \in Segment, NEW e \in Episode,
             WatchdogExpire(s, e) \/ WatchdogForget(s, e) \/ WatchdogAborted(s, e)
      PROVE  Missing'
  <2>1. UNCHANGED media /\ \E to \in {"retaining", "over"} : Becomes(s, e, to)
    BY <1>9 DEF WatchdogExpire, WatchdogForget, WatchdogAborted
  <2>2. ASSUME NEW t \in Segment, NEW d \in Episode, clock'[t].episode = d
        PROVE  Runs(t, d)
    <3>1. clock' = clock \/ clock' = [clock EXCEPT ![s] = NoClock]
      BY <1>9 DEF WatchdogExpire, WatchdogForget, WatchdogAborted
    <3>2. CASE clock' = clock
      BY <2>2, <3>2 DEF Runs
    <3>3. CASE clock' = [clock EXCEPT ![s] = NoClock]
      <4>1. t # s
        BY <2>2, <3>3 DEF NoClock, TypeOK
      <4> QED
        BY <2>2, <3>3, <4>1 DEF Runs, TypeOK
    <3> QED
      BY <3>1, <3>2, <3>3
  <2> QED
    BY <2>1, <2>2, BecomesAt, MissingStays DEF media
<1> QED
  BY <1>1, <1>2, <1>3, <1>4, <1>5, <1>6, <1>7, <1>8, <1>9 DEF Next, Get, Produce, Guard

\* A step that tells a GET its segment expired is the running clock's watchdog's,
\* with the segment still missing.
LEMMA ExpiryStep ==
    ASSUME Verdicts, Missing, [Next]_vars, NEW r \in Request,
           flight[r] # "Expired", flight'[r] = "Expired"
    PROVE  SegmentOf[r] \notin present
<1> USE DEF Verdicts, Books
<1>1. CASE \/ UNCHANGED vars \/ RecordFailure \/ Close \/ MakeRoom
           \/ (\E s \in Segment : Publish(s) \/ SinkReturn(s))
           \/ (\E c \in Caps : SetGlobalCap(c))
           \/ (\E s \in Segment, e \in Episode :
                 Guard(s, e) /\ ~WatchdogExpire(s, e))
  <2>1. UNCHANGED flight
    BY <1>1 DEF vars, asks, RecordFailure, Close, MakeRoom, Snapshot, Sweep, Publish, SinkReturn,
       SetGlobalCap, Guard, Elapse, WatchdogWake, WatchdogInspect, WatchdogForget, WatchdogAborted
  <2> QED
    BY <2>1
<1>2. ASSUME NEW q \in Request, Get(q) PROVE FALSE
  <2>1. \A p \in Request : flight'[p] \in {flight[p], Nothing}
    BY <1>2 DEF Get, Register, Reopen, Receive, OpenReady, Deadline, LeaveToRetry, Disconnect,
       DropDemand, DropSlot, Send, Goes, Leaves, TypeOK
  <2> QED
    BY <2>1 DEF Nothing
<1>3. ASSUME NEW W, NEW o \in {"Ready", "Ended"}, Drain(W, o) PROVE FALSE
  BY <1>3 DEF Drain
<1>4. ASSUME NEW s \in Segment, NEW e \in Episode, WatchdogExpire(s, e)
      PROVE  SegmentOf[r] \notin present
  <2>1. CASE Runs(s, e)
    BY <1>4, <2>1 DEF WatchdogExpire, Drain, Missing, On
  <2>2. CASE ~Runs(s, e)
    BY <1>4, <2>2 DEF WatchdogExpire
  <2> QED
    BY <2>1, <2>2
<1> QED
  BY <1>1, <1>2, <1>3, <1>4 DEF Next, Lifecycle, WakeFailed, WakeClosed, Produce, Satisfy,
     FailUnplaced, RetireReader

\* The watchdog never expires a segment that is there, although its look at the
\* manifest and its wakeup are two sections (expire_entry).
THEOREM ExpiryMeansMissing == Spec => ExpiryIsForMissingMedia
<1>1. Init => Verdicts /\ Missing
  BY VerdictsOpen DEF Init, Missing
<1>2. Verdicts /\ Missing /\ [Next]_vars => Verdicts' /\ Missing'
  BY VerdictsKept, MissingKept
<1>3. Verdicts /\ Missing /\ [Next]_vars =>
        [\A r \in Request :
           flight[r] # "Expired" /\ flight'[r] = "Expired" => SegmentOf[r] \notin present]_vars
  BY ExpiryStep
<1> QED
  BY <1>1, <1>2, <1>3, PTL DEF Spec, ExpiryIsForMissingMedia

-----------------------------------------------------------------------------
(* Answers                                                                  *)

\* A GET that has nothing on its way to it is still registered.
Registered ==
    \A r \in Request :
      stage[r] \in {"opening", "waiting"} /\ inbox[r] = Nothing /\ flight[r] = Nothing
        => r \in parked

\* Whoever is registered and waits has somebody to wake it.
Answerable ==
    \A r \in parked :
      stage[r] = "waiting" =>
        /\ SegmentOf[r] \in present => sink[SegmentOf[r]] = "published"
        /\ failed => failing

\* Whoever is drained while it listens has an answer on its way.
LEMMA RegisteredKept ==
    ASSUME TypeOK, Registered, [Next]_vars
    PROVE  Registered'
<1> USE DEF Registered
<1>1. CASE UNCHANGED asks
  BY <1>1 DEF asks
<1>2. ASSUME NEW W, NEW o \in Outcome, Drain(W, o) PROVE Registered'
  <2>1. o # Nothing
    BY DEF Outcome, Nothing
  <2> QED
    BY <1>2, <2>1 DEF Drain, Leaving
<1>3. ASSUME NEW r \in Request, Register(r) \/ Send(r) PROVE Registered'
  BY <1>3 DEF Register, Send, Goes, TypeOK
<1>4. ASSUME NEW r \in Request,
             Reopen(r) \/ Receive(r) \/ OpenReady(r) \/ Deadline(r) \/ LeaveToRetry(r)
               \/ Disconnect(r)
      PROVE  Registered'
  <2>1. /\ UNCHANGED parked
        /\ \/ Goes(r, "waiting") /\ stage[r] = "opening"
           \/ Goes(r, "owing")
           \/ \E to \in Stage \ {"opening", "waiting"} : Leaves(r, to)
    BY <1>4 DEF Reopen, Receive, OpenReady, Deadline, LeaveToRetry, Disconnect, Stage
  <2> QED
    BY <2>1 DEF Goes, Leaves, TypeOK
<1>5. ASSUME NEW r \in Request, DropDemand(r) \/ DropSlot(r) PROVE Registered'
  BY <1>5 DEF DropDemand, DropSlot, Goes, TypeOK
<1>6. ASSUME NEW s \in Segment, NEW e \in Episode, WatchdogExpire(s, e) PROVE Registered'
  BY <1>2, <1>6 DEF WatchdogExpire, Outcome
<1>7. \/ UNCHANGED asks \/ (\E W : \E o \in Outcome : Drain(W, o))
      \/ (\E r \in Request : Get(r))
      \/ (\E s \in Segment, e \in Episode : WatchdogExpire(s, e))
  BY DEF Next, vars, Lifecycle, RecordFailure, WakeFailed, Close, WakeClosed, MakeRoom, Snapshot,
     Sweep, Produce, Publish, Satisfy, SinkReturn, FailUnplaced, RetireReader, SetGlobalCap, Guard,
     Elapse, WatchdogWake, WatchdogInspect, WatchdogForget, WatchdogAborted, Outcome
<1> QED
  BY <1>1, <1>2, <1>3, <1>4, <1>5, <1>6, <1>7 DEF Get

\* Nobody begins to wait, nothing is published, no sink moves on, no failure
\* is put on record or comes to its wake.
LEMMA AnswerableStays ==
    ASSUME Answerable, parked' \subseteq Request,
           \A r \in parked' : stage'[r] = "waiting" => r \in parked /\ stage[r] = "waiting",
           present' \subseteq present, UNCHANGED <<sink, failed, failing>>
    PROVE  Answerable'
BY DEF Answerable

\* Whoever waits looked after it had registered.
LEMMA AnswerableKept ==
    ASSUME Books, Answerable, [Next]_vars
    PROVE  Answerable'
<1> USE RequestsAreAddressed DEF Books
<1>0. parked' \subseteq Request
  BY TypeKept DEF TypeOK
<1>1. CASE UNCHANGED <<asks, media, health>>
  BY <1>1 DEF asks, media, health, Answerable
<1>2. ASSUME NEW r \in Request, Reopen(r) PROVE Answerable'
  <2>1. UNCHANGED <<parked, present, sink, failed, failing>>
    BY <1>2 DEF Reopen, media, health
  <2>2. CASE SegmentOf[r] \in present \/ failed
    BY <1>2, <2>1, <2>2 DEF Reopen, Leaves, Answerable, TypeOK
  <2>3. CASE ~(SegmentOf[r] \in present \/ failed)
    BY <1>2, <2>1, <2>3 DEF Reopen, Leaves, Goes, Answerable, TypeOK
  <2> QED
    BY <2>2, <2>3
<1>3. ASSUME NEW r \in Request,
             Register(r) \/ Receive(r) \/ OpenReady(r) \/ Deadline(r) \/ LeaveToRetry(r)
               \/ Disconnect(r) \/ DropDemand(r) \/ DropSlot(r) \/ Send(r)
      PROVE  Answerable'
  <2>1. UNCHANGED <<present, sink, failed, failing>>
    BY <1>3 DEF Register, Receive, OpenReady, Deadline, LeaveToRetry, Disconnect, DropDemand,
       DropSlot, Send, media, health
  <2>2. /\ parked' \subseteq parked \/ (parked' = parked \cup {r} /\ stage'[r] = "opening")
        /\ \A q \in Request : stage'[q] = "waiting" => stage[q] = "waiting"
    BY <1>3 DEF Register, Receive, OpenReady, Deadline, LeaveToRetry, Disconnect, DropDemand,
       DropSlot, Send, Goes, Leaves, TypeOK
  <2> QED
    BY <1>0, <2>1, <2>2, AnswerableStays
<1>4. ASSUME NEW s \in Segment, Publish(s) PROVE Answerable'
  BY <1>4 DEF Publish, asks, health, Answerable, TypeOK
<1>5. ASSUME NEW s \in Segment, Satisfy(s) PROVE Answerable'
  BY <1>5 DEF Satisfy, Drain, On, health, Answerable, TypeOK
<1>6. ASSUME NEW s \in Segment, SinkReturn(s) PROVE Answerable'
  BY <1>6 DEF SinkReturn, asks, health, Answerable, TypeOK
<1>7. CASE Lifecycle
  BY <1>7 DEF Lifecycle, RecordFailure, WakeFailed, Close, WakeClosed, Drain, asks, media,
     Answerable, TypeOK
<1>8. CASE MakeRoom
  <2>1. UNCHANGED <<asks, sink, health>> /\ present' \subseteq present
    BY <1>8 DEF MakeRoom, Snapshot, Sweep
  <2> QED
    BY <1>0, <2>1, AnswerableStays DEF asks, health
<1>9. ASSUME NEW W, NEW o, Drain(W, o), UNCHANGED <<media, health>> PROVE Answerable'
  BY <1>0, <1>9, AnswerableStays DEF Drain, media, health
<1>10. CASE (\E s \in Segment : FailUnplaced(s)) \/ (\E v \in Reader : RetireReader(v))
             \/ (\E c \in Caps : SetGlobalCap(c))
             \/ (\E s \in Segment, e \in Episode : Guard(s, e))
  <2>1. UNCHANGED <<media, health>>
    BY <1>10 DEF FailUnplaced, RetireReader, SetGlobalCap, Guard, Elapse, WatchdogWake,
       WatchdogInspect, WatchdogExpire, WatchdogForget, WatchdogAborted
  <2>2. UNCHANGED asks \/ \E W : Drain(W, "Ended") \/ Drain(W, "Expired")
    <3>1. ASSUME NEW s \in Segment, NEW e \in Episode, Guard(s, e)
          PROVE  UNCHANGED asks \/ Drain(On(s), "Expired")
      BY <3>1 DEF Guard, Elapse, WatchdogWake, WatchdogInspect, WatchdogExpire, WatchdogForget,
         WatchdogAborted, asks
    <3>2. ASSUME NEW s \in Segment, FailUnplaced(s) PROVE Drain(On(s), "Ended")
      BY <3>2 DEF FailUnplaced
    <3>3. ASSUME NEW v \in Reader, RetireReader(v) PROVE \E W : Drain(W, "Ended")
      BY <3>3 DEF RetireReader
    <3>4. ASSUME NEW c \in Caps, SetGlobalCap(c) PROVE UNCHANGED asks
      BY <3>4 DEF SetGlobalCap
    <3> QED
      BY <1>10, <3>1, <3>2, <3>3, <3>4
  <2> QED
    BY <1>1, <1>9, <2>1, <2>2
<1> QED
  BY <1>1, <1>2, <1>3, <1>4, <1>5, <1>6, <1>7, <1>8, <1>10 DEF Next, Get, Produce, vars

\* A GET that sleeps with nothing on its way to it is registered, and its
\* segment is missing or about to wake it; the same of a failure (Register,
\* Reopen, Publish, Satisfy, record_failure).
THEOREM NoAnswerIsMissed == Spec => []NoMissedAnswer
<1>1. Init => Books /\ Registered /\ Answerable
  BY BooksOpen DEF Init, Registered, Answerable
<1>2. Books /\ Registered /\ Answerable /\ [Next]_vars => (Books /\ Registered /\ Answerable)'
  BY BooksKept, RegisteredKept, AnswerableKept DEF Books
<1>3. Registered /\ Answerable => NoMissedAnswer
  BY DEF Registered, Answerable, NoMissedAnswer
<1> QED
  BY <1>1, <1>2, <1>3, PTL DEF Spec

-----------------------------------------------------------------------------
(* Pins                                                                     *)

\* The driver's windows hold the segment of whoever was there.
Promised == \A r \in known : SegmentOf[r] \in windows

\* Only the sweep evicts, and it spares the windows of the snapshot.
LEMMA PinStep ==
    ASSUME TypeOK, Promised, [Next]_vars
    PROVE  /\ Promised'
           /\ \A r \in known : SegmentOf[r] \in present => SegmentOf[r] \in present'
<1>1. CASE MakeRoom
  BY <1>1 DEF MakeRoom, Snapshot, Sweep, Pinning, Promised
<1>2. ASSUME NEW r \in Request, Get(r)
      PROVE  known' \subseteq known /\ UNCHANGED <<windows, present>>
  BY <1>2 DEF Get, Register, Reopen, Receive, OpenReady, Deadline, LeaveToRetry, Disconnect,
     DropDemand, DropSlot, Send, media
<1>3. ASSUME NEW s \in Segment, Produce(s)
      PROVE  present \subseteq present' /\ UNCHANGED <<windows, known>>
  BY <1>3 DEF Produce, Publish, Satisfy, SinkReturn, FailUnplaced, media
<1>4. ASSUME NEW s \in Segment, NEW e \in Episode, Guard(s, e)
      PROVE  UNCHANGED media
  BY <1>4 DEF Guard, Elapse, WatchdogWake, WatchdogInspect, WatchdogExpire, WatchdogForget,
     WatchdogAborted
<1>5. CASE \/ UNCHANGED vars \/ Lifecycle \/ (\E v \in Reader : RetireReader(v))
           \/ (\E c \in Caps : SetGlobalCap(c))
  <2>1. UNCHANGED media
    BY <1>5 DEF vars, Lifecycle, RecordFailure, WakeFailed, Close, WakeClosed, RetireReader,
       SetGlobalCap
  <2> QED
    BY <2>1 DEF media, Promised
<1> QED
  BY <1>1, <1>2, <1>3, <1>4, <1>5 DEF Next, media, Promised

\* A GET that was there when the driver chose what it may evict, and has been
\* woken since, finds its file (State.retained, eviction_windows, make_room).
THEOREM PinsHold == Spec => PinHolds
<1>1. Init => Books /\ Promised
  BY BooksOpen DEF Init, Promised
<1>2. Books /\ Promised /\ [Next]_vars => Books' /\ Promised'
  BY BooksKept, PinStep DEF Books
<1>3. Books /\ Promised /\ [Next]_vars =>
        [\A r \in known :
           (inbox[r] = "Ready" \/ stage[r] = "ready") /\ SegmentOf[r] \in present
             => SegmentOf[r] \in present']_vars
  BY PinStep DEF Books
<1> QED
  BY <1>1, <1>2, <1>3, PTL DEF Spec, PinHolds

-----------------------------------------------------------------------------
(* The newcomers' reserve                                                   *)

\* The general allowance is a slot at least and grows with the cap.
LEMMA Allowance ==
    ASSUME NEW a \in Nat, NEW b \in Nat, a <= b
    PROVE  /\ GeneralAdmission(a) \in Nat /\ GeneralAdmission(a) > 0
           /\ GeneralAdmission(a) <= GeneralAdmission(b)
<1>1. /\ a \div 8 \in Nat /\ b \div 8 \in Nat
      /\ a \div 8 <= b \div 8
      /\ b \div 8 - a \div 8 <= b - a
  OBVIOUS
<1> QED
  BY <1>1 DEF GeneralAdmission, Larger

\* Viewers who hold slots.
Footholds == {p \in Parent : held[p] > 0}

\* The reserve, and the history of the cap that it refers to.
Reserve == cap <= peak /\ NewcomerReserve

\* A viewer with a foothold is admitted under the general allowance only.
LEMMA ReserveKept ==
    ASSUME Books, Reserve, [Next]_vars
    PROVE  Reserve'
<1> USE RequestsAreAddressed, CapsArePositive DEF Books
<1>0. /\ IsFiniteSet(Footholds) /\ Cardinality(Footholds) \in Nat
      /\ cap \in Nat /\ peak \in Nat /\ total \in Nat
  BY PoolIsFinite, FS_Subset, FS_CardinalityType DEF Footholds, TypeOK
<1>1. ASSUME NEW r \in Request, Register(r) PROVE Reserve'
  <2> DEFINE p == ParentOf[r]
  <2>1. /\ p \in Parent /\ total < Ceiling(p) /\ total' = total + 1
        /\ held' = [held EXCEPT ![p] = held[p] + 1] /\ UNCHANGED <<cap, peak>>
    BY <1>1 DEF Register, Admits
  <2>2. Footholds' = Footholds \cup {p}
    BY <2>1 DEF Footholds, TypeOK
  <2>3. /\ GeneralAdmission(cap) <= GeneralAdmission(peak)
        /\ GeneralAdmission(peak) \in Nat /\ GeneralAdmission(peak) > 0
        /\ GeneralAdmission(cap) \in Nat
    BY <1>0, Allowance DEF Reserve
  <2>4. CASE held[p] = 0
    <3>1. Cardinality(Footholds') = Cardinality(Footholds) + 1
      <4>1. p \notin Footholds
        BY <2>4 DEF Footholds
      <4>2. Cardinality(Footholds \cup {p}) = Cardinality(Footholds) + 1
        BY <1>0, <4>1, FS_AddElement
      <4> QED
        BY <2>2, <4>2
    <3>2. total' <= GeneralAdmission(peak) + Cardinality(Footholds') - 1
      BY <1>0, <2>1, <2>3, <3>1 DEF Reserve, NewcomerReserve, Footholds
    <3> QED
      BY <2>1, <3>2 DEF Reserve, NewcomerReserve, Footholds
  <2>5. CASE held[p] # 0
    <3>1. p \in Footholds
      BY <2>1, <2>5 DEF Footholds, TypeOK
    <3>2. Footholds' = Footholds /\ Cardinality(Footholds) > 0
      BY <1>0, <2>2, <3>1, FS_EmptySet
    <3>3. total < GeneralAdmission(peak)
      BY <1>0, <2>1, <2>3, <2>5 DEF Ceiling
    <3>4. total' <= GeneralAdmission(peak) + Cardinality(Footholds') - 1
      BY <1>0, <2>1, <2>3, <3>2, <3>3
    <3> QED
      BY <2>1, <3>4 DEF Reserve, NewcomerReserve, Footholds
  <2> QED
    BY <2>4, <2>5
<1>2. ASSUME NEW r \in Request, DropSlot(r) PROVE Reserve'
  <2> DEFINE p == ParentOf[r]
  <2>1. /\ p \in Parent /\ total' = total - 1 /\ held' = [held EXCEPT ![p] = held[p] - 1]
        /\ UNCHANGED cap /\ peak' = IF total = 1 THEN cap ELSE peak
        /\ total > 0
    BY <1>2, Counted DEF DropSlot
  <2>2. CASE total = 1
    BY <1>0, <2>1, <2>2 DEF Reserve, NewcomerReserve
  <2>3. CASE total # 1
    <3>1. Footholds' = Footholds \/ Footholds' = Footholds \ {p}
      BY <2>1 DEF Footholds, TypeOK
    <3>2. Cardinality(Footholds') >= Cardinality(Footholds) - 1 /\ Cardinality(Footholds') \in Int
      BY <1>0, <3>1, FS_RemoveElement
    <3>3. total' <= GeneralAdmission(peak) + Cardinality(Footholds') - 1
      BY <1>0, <2>1, <2>3, <3>2, Allowance DEF Reserve, NewcomerReserve, Footholds
    <3> QED
      BY <2>1, <2>3, <3>3 DEF Reserve, NewcomerReserve, Footholds
  <2> QED
    BY <2>2, <2>3
<1>3. ASSUME NEW c \in Caps, SetGlobalCap(c) PROVE Reserve'
  <2>1. UNCHANGED <<held, total>> /\ cap' = c /\ peak' = IF total = 0 THEN c ELSE Larger(peak, c)
    BY <1>3 DEF SetGlobalCap
  <2>2. CASE total = 0
    BY <1>0, <2>1, <2>2 DEF Reserve, NewcomerReserve
  <2>3. CASE total # 0
    <3>1. c \in Nat /\ peak' \in Nat /\ peak <= peak' /\ cap' <= peak'
      BY <1>0, <2>1, <2>3 DEF Larger
    <3>2. /\ GeneralAdmission(peak) <= GeneralAdmission(peak')
          /\ GeneralAdmission(peak) \in Nat /\ GeneralAdmission(peak') \in Nat
      BY <1>0, <3>1, Allowance
    <3>3. total <= GeneralAdmission(peak') + Cardinality(Footholds) - 1
      BY <1>0, <2>3, <3>2 DEF Reserve, NewcomerReserve, Footholds
    <3> QED
      BY <2>1, <3>1, <3>3 DEF Reserve, NewcomerReserve, Footholds
  <2> QED
    BY <2>2, <2>3
<1>4. \/ UNCHANGED <<held, total, cap, peak>>
      \/ \E r \in Request : Register(r) \/ DropSlot(r)
      \/ \E c \in Caps : SetGlobalCap(c)
  <2>1. ASSUME NEW r \in Request, Get(r)
        PROVE  UNCHANGED slots \/ Register(r) \/ DropSlot(r)
    BY <2>1 DEF Get, Reopen, Receive, OpenReady, Deadline, LeaveToRetry, Disconnect, DropDemand, Send
  <2>2. ASSUME NEW s \in Segment, Produce(s) PROVE UNCHANGED slots
    BY <2>2 DEF Produce, Publish, Satisfy, SinkReturn, FailUnplaced
  <2>3. ASSUME NEW s \in Segment, NEW e \in Episode, Guard(s, e) PROVE UNCHANGED slots
    BY <2>3 DEF Guard, Elapse, WatchdogWake, WatchdogInspect, WatchdogExpire, WatchdogForget,
       WatchdogAborted
  <2>4. Lifecycle \/ MakeRoom \/ (\E v \in Reader : RetireReader(v)) => UNCHANGED slots
    BY DEF Lifecycle, RecordFailure, WakeFailed, Close, WakeClosed, MakeRoom, Snapshot, Sweep,
       RetireReader
  <2> QED
    BY <2>1, <2>2, <2>3, <2>4 DEF Next, vars, slots
<1>5. CASE UNCHANGED <<held, total, cap, peak>>
  BY <1>5 DEF Reserve, NewcomerReserve
<1> QED
  BY <1>1, <1>2, <1>3, <1>4, <1>5

\* A pool that turns a newcomer away is full of other viewers, not of one
\* viewer's requests, whatever the cap was meanwhile (general_admission).
THEOREM ReserveIsKept == Spec => []NewcomerReserve
<1>1. Init => Books /\ Reserve
  <2>1. ASSUME Init PROVE Reserve
    <3>1. total = 0 /\ cap \in Nat /\ peak = cap
      BY <2>1, CapsArePositive DEF Init
    <3> QED
      BY <3>1 DEF Reserve, NewcomerReserve
  <2> QED
    BY <2>1, BooksOpen
<1>2. Books /\ Reserve /\ [Next]_vars => Books' /\ Reserve'
  BY BooksKept, ReserveKept
<1> QED
  BY <1>1, <1>2, PTL DEF Spec, Reserve
====
