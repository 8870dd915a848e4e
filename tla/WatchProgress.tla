----------------------------- MODULE WatchProgress -----------------------------
(***************************************************************************)
(* The coalescing of playback progress (plurxd/src/progress.rs) over the   *)
(* watch_state row of one user and one item.                               *)
(*                                                                         *)
(* Players report more often than the store should commit.  On each node   *)
(* an Entry, behind a mutex, remembers the row it last committed; a beat   *)
(* inside the commit window replaces one pending beat, which a flush       *)
(* worker writes when the window ends, provided the row is still the one   *)
(* the entry committed (a compare-and-set by value).  Others write the row *)
(* too: the same player through another node, the user marking the item    *)
(* watched or unwatched, a remote merge.  Compatibility clients write      *)
(* under a play, which the store fences by its state and by the revision   *)
(* of the last manual edit, and end it with a forced final beat.           *)
(***************************************************************************)
EXTENDS Integers, FiniteSets

CONSTANTS
    Node,              \* server processes, each with its coalescer
    Beat,              \* requests
    Play,              \* compatibility plays of this user and item
    Native,            \* what a beat carries instead of a play
    Duration,          \* the probed duration, in position units
    Window,            \* COMMIT_WINDOW
    MaxFlushAttempts,  \* MAX_FLUSH_ATTEMPTS
    MaxTime,           \* bound: distinct seconds of the wall clock
    MaxEdits,          \* bound: writes by others
    MaxErrors,         \* bound: failing store calls
    Final,             \* the beats that are forced final commits
    MayDelete          \* whether the item can be deleted meanwhile

ASSUME ConstantAssumption ==
    /\ Native \notin Play
    /\ {Duration, Window, MaxFlushAttempts} \subseteq Nat \ {0}
    /\ {MaxTime, MaxEdits, MaxErrors} \subseteq Nat
    /\ Final \subseteq Beat
    /\ MayDelete \in BOOLEAN
    /\ Node \cap {"direct", "final", "edit", "delete"} = {}

VARIABLES
    row,      \* the watch_state row, as WatchState shows it
    rev,      \* its manual_revision, which WatchState does not show
    playRev,  \* each play's manual_revision
    active,   \* the plays whose state is active
    gone,     \* the item has been deleted
    entry,    \* per node: the Entry of the key
    lock,     \* per node: the request that holds the entry's mutex
    worker,   \* per node: where the flush worker is
    sleep,    \* per node: how long the flush worker still sleeps
    req,      \* per beat: the request it is
    now,      \* the wall clock, in seconds
    edits,    \* writes by others so far
    errors,   \* failed store calls so far
    seen,     \* history: beats and edits observed so far
    src,      \* history: what wrote the row last
    newest    \* history: per node, the last beat it accepted

storeVars == <<row, rev, playRev, active, gone, src>>
nodeVars == <<entry, lock, worker, sleep, newest>>
boundVars == <<edits, errors>>
vars == <<storeVars, nodeVars, boundVars, req, now, seen>>

-----------------------------------------------------------------------------

None == [none |-> TRUE]
Position == 0 .. Duration

\* Option<WatchState>; `at' is updated_at, in whole seconds.
NoRow == [pos |-> 0, watched |-> FALSE, at |-> -1]
Row == [pos : Position, watched : BOOLEAN, at : 0 .. MaxTime] \cup {NoRow}

\* An observation: Pending, or what a request is about to commit.  `seq' (when it
\* was observed) and `base' (the second of the row it was queued behind) are history.
Observation == [play : Play \cup {Native}, pos : Position, rev : Nat, seq : Nat, base : Int]

\* Entry::default().  `age' is the time since last_commit.
NoAge == -1
NewEntry == [age |-> NoAge, committed |-> NoRow, pending |-> None,
             running |-> FALSE, retries |-> 0]

Idle == [st |-> "idle"]

Complete(pos) == pos * 100 >= Duration * 95

Longer(age) == IF age = NoAge \/ age = Window THEN age ELSE age + 1

-----------------------------------------------------------------------------
(* The store.                                                              *)

\* The play and revision predicates that CURRENT and PROGRESS share.
Current(play, r) == play = Native \/ (play \in active /\ playRev[play] = r /\ rev = r)

Unconditional == [any |-> TRUE]

\* Mutant of Matches: the flush does not compare.
MatchesAnything(expected) == TRUE

\* The compare-and-set by value of put_progress_if_current and PROGRESS.
Matches(expected) ==
    expected = Unconditional \/ (expected = row /\ row # NoRow)

\* What a write can come to: it lands, it is refused, it fails without landing
\* or it lands and its answer is lost.
Outcomes(o, expected) ==
    LET lands == Current(o.play, o.rev) /\ Matches(expected) /\ ~gone
        fails == IF errors < MaxErrors THEN {"err"} ELSE {}
        refuses == IF gone /\ o.play = Native /\ expected = Unconditional
                     THEN {"err"} ELSE {"none"}
    IN IF lands
         THEN {"ok"} \cup (IF errors < MaxErrors THEN {"err", "lost"} ELSE {})
         ELSE refuses \cup fails

\* The row a beat leaves behind: progress never clears the watched mark.
Progressed(o) ==
    [pos |-> o.pos, watched |-> row.watched \/ Complete(o.pos), at |-> now]

Store(o, by, outcome) ==
    /\ errors' = IF outcome \in {"err", "lost"} /\ ~gone THEN errors + 1 ELSE errors
    /\ IF outcome \in {"ok", "lost"}
         THEN /\ row' = Progressed(o)
              /\ src' = [by |-> by, seq |-> o.seq, base |-> o.base, changed |-> TRUE]
         ELSE UNCHANGED <<row, src>>

\* set_watched_tree: a manual edit.  It touches updated_at only if it changes
\* something, bumps the revision, and carries its own play along.
ManualEdit(watched, own) ==
    /\ edits < MaxEdits /\ ~gone
    /\ LET changed == \/ row = NoRow
                      \/ IF watched THEN ~row.watched ELSE row.watched \/ row.pos # 0
       IN /\ row' = [pos |-> IF watched THEN row.pos ELSE 0,
                     watched |-> watched,
                     at |-> IF changed THEN now ELSE row.at]
          /\ src' = [by |-> "edit", seq |-> seen + 1, base |-> now, changed |-> changed]
    /\ rev' = rev + 1
    /\ playRev' = [p \in Play |-> IF p = own /\ p \in active /\ playRev[p] = rev
                                    THEN rev + 1 ELSE playRev[p]]
    /\ seen' = seen + 1
    /\ edits' = edits + 1
    /\ UNCHANGED <<active, gone, nodeVars, errors, req, now>>

\* Deleting the item cascades to its watch_state and ends its plays.
DeleteItem ==
    /\ MayDelete /\ ~gone
    /\ gone' = TRUE
    /\ row' = NoRow
    /\ rev' = 0
    /\ active' = {}
    /\ src' = [by |-> "delete", seq |-> seen, base |-> now, changed |-> TRUE]
    /\ UNCHANGED <<playRev, nodeVars, boundVars, req, now, seen>>

-----------------------------------------------------------------------------
(* Requests: put, put_jellyfin and put_final.                              *)

Done(b) == req' = [req EXCEPT ![b] = [st |-> "done"]]

\* A beat reaches a node that knows the item; one of a play that is no longer
\* current is refused at once.
Arrive(b, n, play, pos) ==
    /\ req[b] = Idle /\ ~gone
    /\ IF b \in Final THEN play # Native
                      ELSE play = Native \/ Current(play, playRev[play])
    /\ req' = [req EXCEPT ![b] =
          [st |-> "waiting", node |-> n, play |-> play, pos |-> pos,
           rev |-> IF play = Native THEN 0 ELSE playRev[play]]]
    /\ UNCHANGED <<storeVars, nodeVars, boundVars, now, seen>>

Observed(b, base) ==
    [play |-> req[b].play, pos |-> req[b].pos, rev |-> req[b].rev,
     seq |-> seen + 1, base |-> base]

\* The map of entries is full: the beat is written through.
WriteThrough(b) ==
    /\ req[b].st = "waiting" /\ b \notin Final
    /\ entry[req[b].node] = NewEntry
    /\ \E outcome \in Outcomes(Observed(b, now), Unconditional) :
         Store(Observed(b, now), "direct", outcome)
    /\ seen' = seen + 1
    /\ Done(b)
    /\ UNCHANGED <<rev, playRev, active, gone, nodeVars, edits, now>>

\* Mutant of Adopt: the pending beat survives a write by somebody else.
AdoptKeepingPending(e) ==
    IF e.committed = row THEN e
    ELSE [e EXCEPT !.age = NoAge, !.committed = row, !.retries = 0]

\* Somebody else moved the row: the pending beat was observed before that.
Adopt(e) ==
    IF e.committed = row THEN e
    ELSE [e EXCEPT !.age = NoAge, !.committed = row, !.pending = None, !.retries = 0]

\* put_inner takes the entry's mutex and reads the row; the read may fail.
Read(b) ==
    /\ req[b].st = "waiting" /\ b \notin Final
    /\ LET n == req[b].node IN
         /\ lock[n] = None
         /\ \/ /\ lock' = [lock EXCEPT ![n] = b]
               /\ entry' = [entry EXCEPT ![n] = Adopt(@)]
               /\ req' = [req EXCEPT ![b].st = "reading"]
               /\ UNCHANGED errors
            \/ /\ errors < MaxErrors
               /\ errors' = errors + 1
               /\ Done(b)
               /\ UNCHANGED <<lock, entry>>
    /\ UNCHANGED <<storeVars, worker, sleep, newest, edits, now, seen>>

\* Mutant of AfterCommit: a direct commit leaves the pending beat queued.
AfterCommitKeepingPending(e) == [e EXCEPT !.age = 0, !.committed = row']

AfterCommit(e) == [e EXCEPT !.age = 0, !.committed = row', !.pending = None]

\* The beat waits, and a worker is spawned unless one is running.
Queue(n, o) ==
    /\ entry' = [entry EXCEPT ![n].pending = o, ![n].retries = 0, ![n].running = TRUE]
    /\ worker' = IF entry[n].running THEN worker ELSE [worker EXCEPT ![n] = "top"]

\* put_inner commits at once when the window has passed or the beat completes
\* the item, and queues the beat otherwise.  A failed commit changes nothing.
Decide(b) ==
    /\ req[b].st = "reading"
    /\ LET n == req[b].node
           e == entry[n]
           o == Observed(b, e.committed.at)
           due == e.age \in {NoAge, Window}
           newlyComplete == ~e.committed.watched /\ Complete(o.pos)
       IN /\ IF due \/ newlyComplete
               THEN /\ \E outcome \in Outcomes(o, Unconditional) :
                         /\ Store(o, "direct", outcome)
                         /\ entry' = IF outcome = "ok"
                                       THEN [entry EXCEPT ![n] = AfterCommit(@)]
                                       ELSE entry
                         /\ newest' = IF outcome = "ok"
                                        THEN [newest EXCEPT ![n] = o.seq] ELSE newest
                    /\ UNCHANGED worker
               ELSE /\ Queue(n, o)
                    /\ newest' = [newest EXCEPT ![n] = o.seq]
                    /\ UNCHANGED <<row, src, errors>>
          /\ lock' = [lock EXCEPT ![n] = None]
    /\ seen' = seen + 1
    /\ Done(b)
    /\ UNCHANGED <<rev, playRev, active, gone, sleep, edits, now>>

\* put_final: drop the play's own pending beat, commit, and take the row that
\* results, or the one that is there, for the entry's baseline.  Reading that row
\* may fail, and a full map leaves the play without an entry.
PutFinal(b) ==
    /\ req[b].st = "waiting" /\ b \in Final
    /\ LET n == req[b].node
           o == Observed(b, now)
           e == IF entry[n].pending # None /\ entry[n].pending.play = o.play
                  THEN [entry[n] EXCEPT !.pending = None] ELSE entry[n]
           adopted == [e EXCEPT !.committed = row', !.retries = 0,
                                !.age = IF row' = NoRow THEN NoAge ELSE 0]
       IN /\ lock[n] = None
          /\ \E outcome \in Outcomes(o, Unconditional) :
               /\ active' = IF outcome \in {"ok", "lost"} THEN active \ {o.play} ELSE active
               /\ \/ /\ Store(o, "final", outcome)
                     /\ entry' = [entry EXCEPT ![n] =
                                    IF outcome \in {"err", "lost"} THEN e ELSE adopted]
                  \/ /\ outcome = "none" /\ errors < MaxErrors
                     /\ errors' = errors + 1
                     /\ entry' = [entry EXCEPT ![n] = e]
                     /\ UNCHANGED <<row, src>>
                  \/ /\ entry[n] = NewEntry
                     /\ Store(o, "final", outcome)
                     /\ UNCHANGED entry
    /\ seen' = seen + 1
    /\ Done(b)
    /\ UNCHANGED <<rev, playRev, gone, lock, worker, sleep, newest, edits, now>>

-----------------------------------------------------------------------------
(* The flush worker, and drain() at shutdown.                              *)

\* Mutant of Resting: a worker that ends forgets to lower its flag.
RestingSilently(e) == e

Resting(e) == [e EXCEPT !.running = FALSE]

WorkerTop(n) ==
    /\ worker[n] = "top"
    /\ lock[n] = None
    /\ IF entry[n].pending = None
         THEN /\ entry' = [entry EXCEPT ![n] = Resting(@)]
              /\ worker' = [worker EXCEPT ![n] = "none"]
              /\ UNCHANGED sleep
         ELSE /\ worker' = [worker EXCEPT ![n] = "asleep"]
              /\ sleep' = [sleep EXCEPT ![n] =
                            IF entry[n].age = NoAge THEN 0 ELSE Window - entry[n].age]
              /\ UNCHANGED entry
    /\ UNCHANGED <<storeVars, boundVars, lock, newest, req, now, seen>>

\* The window moved while the worker slept, or there is nothing left to write.
WorkerLoops(n) ==
    /\ worker[n] = "asleep" /\ sleep[n] = 0
    /\ lock[n] = None
    /\ entry[n].age # Window \/ entry[n].pending = None
    /\ worker' = [worker EXCEPT ![n] = "top"]
    /\ UNCHANGED <<storeVars, boundVars, entry, lock, sleep, newest, req, now, seen>>

\* Mutant of Retry: the worker that gives up leaves its flag behind.
RetrySilently(n, o) ==
    IF entry[n].retries + 1 >= MaxFlushAttempts
      THEN /\ entry' = [entry EXCEPT ![n].pending = None, ![n].retries = @ + 1]
           /\ worker' = [worker EXCEPT ![n] = "none"]
      ELSE /\ entry' = [entry EXCEPT ![n].pending = o, ![n].retries = @ + 1]
           /\ worker' = [worker EXCEPT ![n] = "backoff"]

\* Mutant of Retry: the flush is tried again without end.
RetryForever(n, o) ==
    /\ entry' = [entry EXCEPT ![n].pending = o, ![n].retries = @ + 1]
    /\ worker' = [worker EXCEPT ![n] = "backoff"]

\* A failed flush keeps the beat and tries again later, a few times.
Retry(n, o) ==
    IF entry[n].retries + 1 >= MaxFlushAttempts
      THEN /\ entry' = [entry EXCEPT ![n].pending = None, ![n].retries = @ + 1,
                                     ![n].running = FALSE]
           /\ worker' = [worker EXCEPT ![n] = "none"]
      ELSE /\ entry' = [entry EXCEPT ![n].pending = o, ![n].retries = @ + 1]
           /\ worker' = [worker EXCEPT ![n] = "backoff"]

\* A refused flush drops the beat and adopts the row that is there.
Superseded(e) ==
    [e EXCEPT !.committed = row, !.pending = None, !.age = IF row = NoRow THEN NoAge ELSE 0]

Flush(n) ==
    /\ worker[n] = "asleep" /\ sleep[n] = 0
    /\ lock[n] = None
    /\ entry[n].age = Window /\ entry[n].pending # None
    /\ LET o == entry[n].pending IN
         \E outcome \in Outcomes(o, entry[n].committed) :
            \/ /\ outcome = "ok"
               /\ Store(o, n, outcome)
               /\ entry' = [entry EXCEPT ![n] = [AfterCommit(@) EXCEPT !.retries = 0]]
               /\ worker' = [worker EXCEPT ![n] = "top"]
            \/ /\ outcome = "none"
               /\ UNCHANGED <<row, src>>
               /\ \/ /\ entry' = [entry EXCEPT ![n] = Superseded(@)]
                     /\ worker' = [worker EXCEPT ![n] = "top"]
                     /\ UNCHANGED errors
                  \/ /\ errors < MaxErrors
                     /\ errors' = errors + 1
                     /\ Retry(n, o)
            \/ /\ outcome \in {"err", "lost"}
               /\ Store(o, n, outcome)
               /\ Retry(n, o)
    /\ UNCHANGED <<rev, playRev, active, gone, lock, sleep, newest, edits, req, now, seen>>

WorkerRetries(n) ==
    /\ worker[n] = "backoff"
    /\ worker' = [worker EXCEPT ![n] = "top"]
    /\ UNCHANGED <<storeVars, boundVars, entry, lock, sleep, newest, req, now, seen>>

\* Graceful shutdown writes the pending beat without waiting for the window; the
\* callers of this node are gone by then.
Drain(n) ==
    /\ lock[n] = None
    /\ \A b \in Beat : req[b].st = "waiting" => req[b].node # n
    /\ entry[n].pending # None /\ entry[n].committed # NoRow
    /\ LET o == entry[n].pending IN
         \E outcome \in Outcomes(o, entry[n].committed) :
            \/ /\ Store(o, n, outcome)
               /\ entry' = [entry EXCEPT ![n] = CASE outcome = "ok" -> AfterCommit(@)
                                                  [] outcome = "none" -> Superseded(@)
                                                  [] OTHER -> @]
            \/ /\ outcome = "none" /\ errors < MaxErrors
               /\ errors' = errors + 1
               /\ UNCHANGED <<row, src, entry>>
    /\ UNCHANGED <<rev, playRev, active, gone, lock, worker, sleep, newest, edits,
                   req, now, seen>>

\* A sweep for another key's sake forgets an entry nobody uses.
Sweep(n) ==
    /\ entry[n] # NewEntry
    /\ worker[n] = "none" /\ lock[n] = None
    /\ \A b \in Beat : req[b].st = "waiting" => req[b].node # n
    /\ ~entry[n].running /\ entry[n].pending = None
    /\ entry[n].age \in {NoAge, Window}
    /\ entry' = [entry EXCEPT ![n] = NewEntry]
    /\ UNCHANGED <<storeVars, boundVars, lock, worker, sleep, newest, req, now, seen>>

Tick ==
    /\ entry' = [n \in Node |-> [entry[n] EXCEPT !.age = Longer(@)]]
    /\ sleep' = [n \in Node |-> IF sleep[n] = 0 THEN 0 ELSE sleep[n] - 1]
    /\ now' = IF now < MaxTime THEN now + 1 ELSE now
    /\ UNCHANGED <<storeVars, boundVars, lock, worker, newest, req, seen>>

-----------------------------------------------------------------------------

Init ==
    /\ row = NoRow
    /\ rev = 0
    /\ playRev = [p \in Play |-> 0]
    /\ active = Play
    /\ gone = FALSE
    /\ entry = [n \in Node |-> NewEntry]
    /\ lock = [n \in Node |-> None]
    /\ worker = [n \in Node |-> "none"]
    /\ sleep = [n \in Node |-> 0]
    /\ req = [b \in Beat |-> Idle]
    /\ now = 0
    /\ edits = 0
    /\ errors = 0
    /\ seen = 0
    /\ src = [by |-> "delete", seq |-> 0, base |-> 0, changed |-> TRUE]
    /\ newest = [n \in Node |-> 0]

WorkerStep(n) == WorkerTop(n) \/ WorkerLoops(n) \/ Flush(n) \/ WorkerRetries(n)

Next ==
    \/ \E b \in Beat :
         \/ \E n \in Node, play \in Play \cup {Native}, pos \in Position :
              Arrive(b, n, play, pos)
         \/ WriteThrough(b) \/ Read(b) \/ Decide(b) \/ PutFinal(b)
    \/ \E n \in Node : WorkerStep(n) \/ Drain(n) \/ Sweep(n)
    \/ \E watched \in BOOLEAN, own \in Play \cup {Native} : ManualEdit(watched, own)
    \/ DeleteItem
    \/ Tick

Spec == Init /\ [][Next]_vars

\* Time passes, a request that holds the mutex is answered, and the worker is a
\* spawned task that is polled when its timer or the mutex lets it go on.
FairSpec ==
    /\ Spec
    /\ WF_vars(Tick)
    /\ \A b \in Beat : WF_vars(Decide(b))
    /\ \A n \in Node : SF_vars(WorkerStep(n))

-----------------------------------------------------------------------------
(* Properties.                                                             *)

\* Type correctness of the row, the entries, the workers and the requests; a worker
\* that lives has attempts left.
TypeOK ==
    /\ row \in Row
    /\ rev \in Nat /\ playRev \in [Play -> Nat] /\ active \subseteq Play
    /\ gone \in BOOLEAN
    /\ \A n \in Node :
         /\ entry[n].age \in {NoAge} \cup (0 .. Window)
         /\ entry[n].committed \in Row
         /\ entry[n].pending \in Observation \cup {None}
         /\ entry[n].running \in BOOLEAN
         /\ entry[n].retries \in 0 .. MaxFlushAttempts
         /\ entry[n].running => entry[n].retries < MaxFlushAttempts
         /\ lock[n] \in Beat \cup {None}
         /\ worker[n] \in {"none", "top", "asleep", "backoff"}
         /\ sleep[n] \in 0 .. Window
    /\ now \in 0 .. MaxTime

\* A queued beat always has a live worker to flush it, and there is never a
\* second one: the flag the code spawns by says exactly whether one is alive.
PendingIsOwned ==
    \A n \in Node :
        /\ entry[n].running <=> worker[n] # "none"
        /\ entry[n].pending # None => entry[n].running

\* "a trailing beat never overwrites a competing manual write": a flush that finds
\* an edit which changed the row is not of a beat observed before that edit, unless
\* the edit fell in the very second the row behind the beat was written.
EditsStand ==
    [][ src' # src /\ src'.by \in Node /\ src.by = "edit" /\ src.changed
          => src'.seq > src.seq \/ src'.base = src.base ]_vars

\* What a node flushes is the last beat it accepted: a beat that was replaced, or
\* overtaken by a direct commit on that node, never comes back.
FlushIsNewest ==
    [][ src' # src /\ src'.by \in Node => src'.seq = newest[src'.by] ]_vars

\* "pending requires committed state": a queued beat has the committed row and the
\* commit time it is to be flushed against.
PendingHasBaseline ==
    \A n \in Node : entry[n].pending # None =>
        entry[n].committed # NoRow /\ entry[n].age # NoAge

\* A queued beat does not stay queued: once no more beats replace it (there are
\* finitely many here), the worker flushes it or gives it up.
PendingSettles ==
    \A n \in Node : entry[n].pending # None ~> entry[n].pending = None
=============================================================================
