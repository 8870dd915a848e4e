--------------------------- MODULE ScratchLedger ---------------------------
(***************************************************************************)
(* The charge of rolling scratch space (scratch_ledger.rs) and the         *)
(* processes that meet in it: a session's writers (copyseg.rs), the walks  *)
(* of its refreshes (rolling/session.rs), the retirement and cleanup owners*)
(* (rolling/retirement.rs) and the readers of its objects (response.rs).   *)
(* Every critical section of the ledger is one action; directory           *)
(* operations are actions of their own.                                    *)
(*                                                                         *)
(* Every object has one length, the unit of all figures.  A walk reads the *)
(* directory at one instant between its two ledger calls, but for objects  *)
(* renamed meanwhile, which it may miss.  The rolling                      *)
(* window's own evictions, the count of starved writers and the texts that *)
(* explain a charge are left out.                                          *)
(***************************************************************************)
EXTENDS Integers, FiniteSets, FiniteSetsExt

CONSTANTS
    Key,              \* incarnations, each minted once
    Started,          \* those whose start succeeds; the others fail unbound
    Object,           \* names a producer may write
    Writer,           \* registrations of scratch writers, in one incarnation
    Walker,           \* the loops that refresh one session
    Reader,           \* accepted reads, in one incarnation
    Configured,       \* the global ceiling; 0 disables it
    AdmissionGrant,   \* what a start reserves
    Reservation,      \* what a write reserves: twice the object
    Headroom,         \* granted alongside a write that needs growth
    Envelope,         \* what a regrant adds to the measured bytes
    ConversionAttempts

ASSUME ScratchAssumption ==
    /\ Started \subseteq Key /\ IsFiniteSet(Key) /\ IsFiniteSet(Object)
    /\ IsFiniteSet(Writer) /\ IsFiniteSet(Reader)
    /\ {Configured, AdmissionGrant, Headroom, Envelope} \subseteq Nat
    /\ Reservation \in Nat \ {0}
    /\ ConversionAttempts \in Nat \ {0}

VARIABLES
    entry,    \* LedgerState.entries
    stage,    \* where the session and its owners are
    task,     \* the writers
    walk,     \* the refreshes under way
    conv,     \* the conversion of the retired charge
    reading,  \* the accepted reads
    file,     \* the directory, and what it held
    lost      \* ghost: whether a walk that misses something was believed

vars == <<entry, stage, task, walk, conv, reading, file, lost>>

-----------------------------------------------------------------------------
(* The ledger's figures. *)

Blank ==
    [ life |-> "unminted", grant |-> 0, used |-> 0, written |-> 0,
      pending |-> 0, pins |-> [o \in Object |-> {}],
      linked |-> [o \in Object |-> TRUE], writers |-> {}, gen |-> 0,
      fenced |-> FALSE, dropped |-> FALSE ]

Forgotten == [Blank EXCEPT !.life = "gone"]

Present(k) == entry[k].life \notin {"unminted", "gone"}

PinnedExtra(e) == Cardinality({o \in Object : e.pins[o] # {} /\ ~e.linked[o]})

Materialized(e) == e.used + e.written + e.pending

Charge(e) == Max({e.grant, Materialized(e)}) + PinnedExtra(e)

GrantUnused(e) == Max({e.grant - Materialized(e), 0})

\* Mutant: readers are not waited for.
ReleasableWhileRead(e) ==
    /\ e.writers = {}
    /\ Materialized(e) = 0
    /\ e.grant = 0
    /\ e.dropped \/ e.life = "releasing"

Releasable(e) ==
    /\ e.writers = {}
    /\ Materialized(e) = 0
    /\ e.grant = 0
    /\ \A o \in Object : e.pins[o] = {}
    /\ e.dropped \/ e.life = "releasing"

\* collect.  Its caller has just left a critical section of its own and awaits
\* nothing between the two, which are one step here.
Collected(e) == IF Releasable(e) THEN Forgotten ELSE e

Total == MapThenSumSet(LAMBDA k : Charge(entry[k]), Key)

\* Mutant: the other incarnations are not counted.
FitsAlone(k, e) == Configured > 0 => Charge(e) <= Configured

\* The ceiling as grow and regrant apply it to one entry's new form.
Fits(k, e) ==
    Configured > 0 => Total - Charge(entry[k]) + Charge(e) <= Configured

\* The entry a critical section leaves ...
Enter(k, e) == entry' = [entry EXCEPT ![k] = e]

\* ... when the ledger still has it.
Amend(k, e) == entry' = [entry EXCEPT ![k] = IF Present(k) THEN e ELSE @]

-----------------------------------------------------------------------------
(* The directory. *)

Linked(k)  == {o \in Object : file[k][o] = "linked"}
Removed(k) == {o \in Object : file[k][o] = "removed"}

DirExists(k) == stage[k] \notin {"removed", "done", "dropped"}

Idle      == [st |-> "idle"]
NoConvert == [st |-> "off"]

Init ==
    /\ entry = [k \in Key |-> Blank]
    /\ stage = [k \in Key |-> "none"]
    /\ task = [k \in Key |-> [w \in Writer |-> Idle]]
    /\ walk = [k \in Key |-> [v \in Walker |-> Idle]]
    /\ conv = [k \in Key |-> NoConvert]
    /\ reading = [k \in Key |-> [r \in Reader |-> Idle]]
    /\ file = [k \in Key |-> [o \in Object |-> "none"]]
    /\ lost = [k \in Key |-> "never"]

-----------------------------------------------------------------------------
(* Admission and the owner's permit. *)

\* reserve
Reserve(k) ==
    LET grant == IF Configured = 0 THEN 0 ELSE AdmissionGrant IN
    /\ entry[k].life = "unminted"
    /\ Configured > 0 => Total + grant <= Configured
    /\ Enter(k, [Blank EXCEPT !.life = "provisional", !.grant = grant, !.gen = 1])
    /\ stage' = [stage EXCEPT ![k] = "starting"]
    /\ UNCHANGED <<task, walk, conv, reading, file, lost>>

\* ScratchPermit::bound_to, bind_session
Bind(k) ==
    /\ k \in Started
    /\ stage[k] = "starting"
    /\ Enter(k, [entry[k] EXCEPT !.life = "producing"])
    /\ stage' = [stage EXCEPT ![k] = "live"]
    /\ UNCHANGED <<task, walk, conv, reading, file, lost>>

\* ScratchPermit::drop, abandon: a start that failed, or the last reference
\* to a session every owner has left.
Abandon(k) ==
    /\ \/ stage[k] = "starting" /\ k \notin Started
       \/ stage[k] = "done" /\ conv[k].st = "off"
    /\ \A v \in Walker : walk[k][v] = Idle
    /\ \A r \in Reader : reading[k][r] = Idle
    /\ stage' = [stage EXCEPT ![k] = "dropped"]
    /\ LET e == entry[k] IN
       Amend(k, IF /\ e.life = "provisional"
                   /\ e.writers = {}
                   /\ \A o \in Object : e.pins[o] = {}
                THEN Forgotten
                ELSE Collected([e EXCEPT !.dropped = TRUE]))
    /\ UNCHANGED <<task, walk, conv, reading, file, lost>>

-----------------------------------------------------------------------------
(* Writers. *)

SetTask(k, w, t) == task' = [task EXCEPT ![k][w] = t]

Ready == [st |-> "ready"]
Ended == [st |-> "ended"]

\* Mutant: the writer's task is spawned first and registers later, or never.
SpawnUnregistered(k, w) ==
    /\ stage[k] \notin {"none", "starting", "dropped"}
    /\ task[k][w] = Idle
    /\ Present(k) /\ ~entry[k].fenced
    /\ SetTask(k, w, Ready)
    /\ UNCHANGED <<entry, stage, walk, conv, reading, file, lost>>

\* register_writer, before the writer's task is spawned.  A fenced or
\* forgotten allocation refuses it, and no task is.
RegisterWriter(k, w) ==
    /\ stage[k] \notin {"none", "starting", "dropped"}
    /\ task[k][w] = Idle
    /\ Present(k) /\ ~entry[k].fenced
    /\ Enter(k, [entry[k] EXCEPT !.writers = @ \cup {w}, !.gen = @ + 1])
    /\ SetTask(k, w, Ready)
    /\ UNCHANGED <<stage, walk, conv, reading, file, lost>>

\* finish_writer: the registration is dropped between two writes.
FinishWriter(k, w) ==
    /\ task[k][w] = Ready
    /\ SetTask(k, w, Ended)
    /\ LET e == [entry[k] EXCEPT !.writers = @ \ {w}, !.gen = @ + 1] IN
       Amend(k, IF e.writers = {} THEN Collected(e) ELSE e)
    /\ UNCHANGED <<stage, walk, conv, reading, file, lost>>

Holding == {"growing", "grown", "authorized", "written", "landed"}

Untaken(k, o) ==
    /\ file[k][o] = "none"
    /\ ~\E w \in Writer : task[k][w].st \in Holding /\ task[k][w].obj = o

Authorized(k, w, o) ==
    /\ Enter(k, [entry[k] EXCEPT !.pending = @ + Reservation])
    /\ SetTask(k, w, [st |-> "authorized", obj |-> o])

\* authorize_write, its first section; a refusal leaves the writer ready to
\* ask again or to give up.
AskWrite(k, w, o) ==
    /\ task[k][w] = Ready
    /\ Untaken(k, o)
    /\ Present(k) /\ ~entry[k].fenced
    /\ LET unused == GrantUnused(entry[k]) IN
       IF unused >= Reservation
       THEN Authorized(k, w, o)
       ELSE /\ SetTask(k, w, [ st |-> "growing", obj |-> o,
                               ask |-> Reservation - unused + Headroom ])
            /\ UNCHANGED entry
    /\ UNCHANGED <<stage, walk, conv, reading, file, lost>>

\* grow
Grow(k, w) ==
    LET t == task[k][w]
        e == [entry[k] EXCEPT !.grant = @ + t.ask]
    IN
    /\ t.st = "growing"
    /\ IF Present(k) /\ ~entry[k].fenced /\ Fits(k, e)
       THEN Enter(k, e) /\ SetTask(k, w, [st |-> "grown", obj |-> t.obj])
       ELSE SetTask(k, w, Ready) /\ UNCHANGED entry
    /\ UNCHANGED <<stage, walk, conv, reading, file, lost>>

\* Mutant: what grow granted is taken to be still there.
AskOnce(k, w) ==
    LET t == task[k][w] IN
    /\ t.st = "grown"
    /\ IF Present(k) /\ ~entry[k].fenced
       THEN Authorized(k, w, t.obj)
       ELSE SetTask(k, w, Ready) /\ UNCHANGED entry
    /\ UNCHANGED <<stage, walk, conv, reading, file, lost>>

\* authorize_write, its second section.
AskAgain(k, w) ==
    LET t == task[k][w] IN
    /\ t.st = "grown"
    /\ IF Present(k) /\ ~entry[k].fenced /\ GrantUnused(entry[k]) >= Reservation
       THEN Authorized(k, w, t.obj)
       ELSE SetTask(k, w, Ready) /\ UNCHANGED entry
    /\ UNCHANGED <<stage, walk, conv, reading, file, lost>>

\* The blocking write: it makes the object, under a temporary name, or fails,
\* as it does once the directory is gone.
Write(k, w) ==
    LET t == task[k][w] IN
    /\ t.st = "authorized"
    /\ \/ DirExists(k) /\ file' = [file EXCEPT ![k][t.obj] = "linked"]
       \/ UNCHANGED file
    /\ SetTask(k, w, [t EXCEPT !.st = "written"])
    /\ UNCHANGED <<entry, stage, walk, conv, reading, lost>>

Settled(k, landed) ==
    Amend(k, [entry[k] EXCEPT !.pending = Max({@ - Reservation, 0}),
                              !.written = @ + landed])

\* ScratchWrite::landed, settle_write: whether or not the write succeeded.  A
\* failed one goes no further.
Landed(k, w) ==
    LET t == task[k][w] IN
    /\ t.st = "written"
    /\ Settled(k, 1)
    /\ SetTask(k, w, IF file[k][t.obj] = "none" THEN Ready ELSE [t EXCEPT !.st = "landed"])
    /\ UNCHANGED <<stage, walk, conv, reading, file, lost>>

\* The walks under way, in which the object under rename may be missed.
RenamedUnder(k) ==
    [v \in Walker |-> IF walk[k][v].st = "walking"
                      THEN [walk[k][v] EXCEPT !.moved = @ + 1]
                      ELSE walk[k][v]]

\* publish_file, after the blocking write: the object takes its final name.
RenameObject(k, w) ==
    /\ task[k][w].st = "landed"
    /\ SetTask(k, w, Ready)
    /\ walk' = [walk EXCEPT ![k] = RenamedUnder(k)]
    /\ UNCHANGED <<entry, stage, conv, reading, file, lost>>

\* ScratchWrite::drop: the caller gave up before it wrote.
Unlanded(k, w) ==
    /\ task[k][w].st = "authorized"
    /\ Settled(k, 0)
    /\ SetTask(k, w, Ready)
    /\ UNCHANGED <<stage, walk, conv, reading, file, lost>>

-----------------------------------------------------------------------------
(* Refreshes and flow control. *)

\* Every walk under way has been overtaken by a ledger call that replaced used.
\* (stale is a ghost.)
Overtaken(k) ==
    [v \in Walker |-> IF walk[k][v] = Idle THEN Idle ELSE [walk[k][v] EXCEPT !.stale = TRUE]]

\* refresh_scratch_bytes: written_of, then the walk.  The publication worker,
\* the flow worker and the reaper's repair pass each do this on their own; a walk
\* that has begun may end at any later time.
WalkBegin(k, v) ==
    /\ stage[k] = "live"
    /\ walk[k][v] = Idle
    /\ walk' = [walk EXCEPT ![k][v] =
                  [ st |-> "walking", before |-> entry[k].written,
                    moved |-> 0, stale |-> FALSE ]]
    /\ UNCHANGED <<entry, stage, task, conv, reading, file, lost>>

\* measure_scratch_bytes; a directory that is gone counts as empty.  Of an
\* object renamed meanwhile it may have found the old name gone and have passed
\* the new one.  (It may also have counted both, which errs on the safe side.)
WalkSees(k, v) ==
    LET m     == walk[k][v]
        there == Cardinality(Linked(k))
    IN
    /\ m.st = "walking"
    /\ \E bytes \in Max({there - m.moved, 0}) .. there :
         walk' = [walk EXCEPT ![k][v] =
                    [ st |-> "seen", before |-> m.before, bytes |-> bytes,
                      stale |-> m.stale \/ bytes < there ]]
    /\ UNCHANGED <<entry, stage, task, conv, reading, file, lost>>

\* A read or stat failure observes nothing.
WalkFails(k, v) ==
    /\ walk[k][v].st = "walking"
    /\ walk' = [walk EXCEPT ![k][v] = Idle]
    /\ UNCHANGED <<entry, stage, task, conv, reading, file, lost>>

\* Mutants: every landed byte is taken to be in the walk; the difference is
\* not held at zero.
MeasuredAll(k, m) == [entry[k] EXCEPT !.used = m.bytes, !.written = 0]

MeasuredBelowZero(k, m) ==
    [entry[k] EXCEPT !.used = m.bytes, !.written = @ - m.before]

\* observe_walk: only what had landed before the walk is subsumed by it.
Measured(k, m) ==
    [entry[k] EXCEPT !.used = m.bytes, !.written = Max({@ - m.before, 0})]

WalkObserves(k, v) ==
    LET m == walk[k][v] IN
    /\ m.st = "seen"
    /\ Amend(k, Measured(k, m))
    /\ walk' = [walk EXCEPT ![k] = [Overtaken(k) EXCEPT ![v] = Idle]]
    /\ lost' = [lost EXCEPT ![k] = IF m.stale THEN "now"
                                   ELSE IF @ = "now" THEN "healed" ELSE @]
    /\ UNCHANGED <<stage, task, conv, reading, file>>

\* regrant_rolling_scratch, regrant; a session admitted with all it may ever
\* use has no envelope and is never granted anew.
Regrant(k) ==
    LET e      == entry[k]
        wanted == Max({e.used + Envelope, Materialized(e)})
    IN
    /\ Envelope > 0
    /\ stage[k] = "live"
    /\ Present(k) /\ ~e.fenced
    /\ Fits(k, [e EXCEPT !.grant = wanted])
    /\ Enter(k, [e EXCEPT !.grant = wanted])
    /\ UNCHANGED <<stage, task, walk, conv, reading, file, lost>>

-----------------------------------------------------------------------------
(* Readers. *)

SetReading(k, r, x) == reading' = [reading EXCEPT ![k][r] = x]

\* A response opens an object the session promises ...
OpenObject(k, r, o) ==
    /\ stage[k] \in {"live", "settling", "converting", "serving"}
    /\ reading[k][r] = Idle
    /\ file[k][o] = "linked"
    /\ SetReading(k, r, [st |-> "opened", obj |-> o])
    /\ UNCHANGED <<entry, stage, task, walk, conv, file, lost>>

\* ... is authorised, and pins it (acquire_pin).
AcquirePin(k, r) ==
    LET e == entry[k]
        o == reading[k][r].obj
    IN
    /\ reading[k][r].st = "opened"
    /\ Amend(k, [e EXCEPT !.pins[o] = @ \cup {r},
                          !.linked[o] = IF e.pins[o] = {} THEN e.life # "releasing" ELSE @])
    /\ SetReading(k, r, IF Present(k) THEN [st |-> "pinned", obj |-> o] ELSE Idle)
    /\ UNCHANGED <<stage, task, walk, conv, file, lost>>

\* ScratchPin::drop, release_pin: the body ended.
ReleasePin(k, r) ==
    LET o == reading[k][r].obj IN
    /\ reading[k][r].st = "pinned"
    /\ Amend(k, Collected([entry[k] EXCEPT !.pins[o] = @ \ {r},
                                            !.linked[o] = @ \/ entry[k].pins[o] = {r}]))
    /\ SetReading(k, r, Idle)
    /\ UNCHANGED <<stage, task, walk, conv, file, lost>>

-----------------------------------------------------------------------------
(* Retirement. *)

Retrying(left) == [st |-> "retry", left |-> left]

\* begin_retirement, once the child is reaped.
BeginRetirement(k) ==
    /\ stage[k] = "live"
    /\ Amend(k, [entry[k] EXCEPT !.fenced = TRUE,
                                 !.life = IF @ \in {"provisional", "producing"}
                                          THEN "retiring" ELSE @])
    /\ stage' = [stage EXCEPT ![k] = "settling"]
    /\ UNCHANGED <<task, walk, conv, reading, file, lost>>

\* WriterBarrier::settle: the registered writers are gone, or the deadline
\* passes and a detached owner is to convert the charge.
WritersSettle(k) ==
    /\ stage[k] = "settling"
    /\ IF entry[k].writers = {}
       THEN /\ stage' = [stage EXCEPT ![k] = "converting"]
            /\ conv' = [conv EXCEPT ![k] = [st |-> "inline"]]
       ELSE /\ stage' = [stage EXCEPT ![k] = "serving"]
            /\ conv' = [conv EXCEPT ![k] = Retrying(ConversionAttempts)]
    /\ UNCHANGED <<entry, task, walk, reading, file, lost>>

\* How an attempt to convert ends; a failed one is left to the detached owner,
\* which gives up after its last.
Converted(k, done) ==
    /\ conv' = [conv EXCEPT ![k] =
                  IF done THEN NoConvert
                  ELSE IF stage[k] = "converting" THEN Retrying(ConversionAttempts)
                  ELSE IF @.left > 1 THEN Retrying(@.left - 1)
                  ELSE NoConvert]
    /\ stage' = [stage EXCEPT ![k] = IF @ = "converting" THEN "serving" ELSE @]

Left(k) == IF conv[k].st = "inline" THEN 0 ELSE conv[k].left

\* convert_rolling_scratch_charge, up to the generation it reads.
ConvertBegins(k) ==
    /\ conv[k].st \in {"inline", "retry"}
    /\ IF Present(k) /\ entry[k].writers = {}
       THEN /\ conv' = [conv EXCEPT ![k] =
                          [st |-> "walking", left |-> Left(k), gen |-> entry[k].gen]]
            /\ UNCHANGED stage
       ELSE Converted(k, ~Present(k))
    /\ UNCHANGED <<entry, task, walk, reading, file, lost>>

ConvertSees(k) ==
    LET c == conv[k] IN
    /\ c.st = "walking"
    /\ \/ /\ conv' = [conv EXCEPT ![k] = [ st |-> "seen", left |-> c.left, gen |-> c.gen,
                                           bytes |-> Cardinality(Linked(k)) ]]
          /\ UNCHANGED stage
       \/ Converted(k, FALSE)
    /\ UNCHANGED <<entry, task, walk, reading, file, lost>>

\* commit_quiescent_measurement
ConvertCommits(k) ==
    LET c == conv[k]
        e == entry[k]
        ok == Present(k) /\ e.writers = {} /\ e.gen = c.gen
    IN
    /\ c.st = "seen"
    /\ IF ok
       THEN /\ Enter(k, [e EXCEPT !.used = c.bytes, !.written = 0, !.grant = c.bytes,
                                  !.life = IF @ = "retiring" THEN "retained" ELSE @])
            /\ walk' = [walk EXCEPT ![k] = Overtaken(k)]
            /\ lost' = [lost EXCEPT ![k] = IF @ = "now" THEN "healed" ELSE @]
       ELSE UNCHANGED <<entry, walk, lost>>
    /\ Converted(k, ok)
    /\ UNCHANGED <<task, reading, file>>

-----------------------------------------------------------------------------
(* Cleanup. *)

\* begin_release: the promise of a retired session has run out, or a session
\* ended before it published, with no writer waited for.
BeginRelease(k) ==
    /\ \/ stage[k] = "serving"
       \/ stage[k] = "live" /\ \A r \in Reader : reading[k][r] = Idle
    /\ Amend(k, [entry[k] EXCEPT !.fenced = TRUE, !.life = "releasing"])
    /\ stage' = [stage EXCEPT ![k] = "releasing"]
    /\ UNCHANGED <<task, walk, conv, reading, file, lost>>

\* clear_session_dir
ClearDir(k) ==
    /\ stage[k] = "releasing"
    /\ file' = [file EXCEPT ![k] =
                  [o \in Object |-> IF @[o] = "linked" THEN "removed" ELSE @[o]]]
    /\ stage' = [stage EXCEPT ![k] = "cleared"]
    /\ UNCHANGED <<entry, task, walk, conv, reading, lost>>

\* remove_dir_all: it fails if a writer put another name there meanwhile, and
\* the attempt is repeated.
RemoveDir(k) ==
    /\ stage[k] = "cleared"
    /\ stage' = [stage EXCEPT ![k] = IF Linked(k) = {} THEN "removed" ELSE "releasing"]
    /\ UNCHANGED <<entry, task, walk, conv, reading, file, lost>>

\* Mutant: objects still held open are forgotten with their names.
UnlinkedUnpinned(e) ==
    [e EXCEPT !.used = 0, !.written = 0, !.grant = 0, !.life = "releasing"]

\* account_unlink_all: what an accepted read holds open keeps its charge.
Unlinked(e) ==
    [e EXCEPT !.linked = [o \in Object |-> e.pins[o] = {}],
              !.used = 0, !.written = 0, !.grant = 0, !.life = "releasing"]

\* settle_rolling_scratch_release
AccountUnlinkAll(k) ==
    /\ stage[k] = "removed"
    /\ Amend(k, Collected(Unlinked(entry[k])))
    /\ stage' = [stage EXCEPT ![k] = "done"]
    /\ walk' = [walk EXCEPT ![k] = Overtaken(k)]
    /\ lost' = [lost EXCEPT ![k] = IF @ = "now" THEN "healed" ELSE @]
    /\ UNCHANGED <<task, conv, reading, file>>

-----------------------------------------------------------------------------

Step(k) ==
    \/ Reserve(k) \/ Bind(k) \/ Abandon(k)
    \/ \E w \in Writer :
         \/ RegisterWriter(k, w) \/ FinishWriter(k, w)
         \/ \E o \in Object : AskWrite(k, w, o)
         \/ Grow(k, w) \/ AskAgain(k, w)
         \/ Write(k, w) \/ Landed(k, w) \/ RenameObject(k, w) \/ Unlanded(k, w)
    \/ \E v \in Walker :
         WalkBegin(k, v) \/ WalkSees(k, v) \/ WalkFails(k, v) \/ WalkObserves(k, v)
    \/ Regrant(k)
    \/ \E r \in Reader :
         \/ \E o \in Object : OpenObject(k, r, o)
         \/ AcquirePin(k, r) \/ ReleasePin(k, r)
    \/ BeginRetirement(k) \/ WritersSettle(k)
    \/ ConvertBegins(k) \/ ConvertSees(k) \/ ConvertCommits(k)
    \/ BeginRelease(k) \/ ClearDir(k) \/ RemoveDir(k) \/ AccountUnlinkAll(k)

Next == \E k \in Key : Step(k)

Spec == Init /\ [][Next]_vars

-----------------------------------------------------------------------------
(* What is on the disk, or on its way there. *)

InFlight(k) == {w \in Writer : task[k][w].st = "authorized"}

Writing(k) == {w \in Writer : task[k][w].st \notin {"idle", "ended"}}

\* Unlinked objects an accepted read holds open.
HeldOpen(k) ==
    {o \in Removed(k) :
       \E r \in Reader : reading[k][r].st = "pinned" /\ reading[k][r].obj = o}

Owed(k) ==
    Cardinality(Linked(k)) + Cardinality(InFlight(k))
      + IF stage[k] \in {"done", "dropped"} THEN Cardinality(HeldOpen(k)) ELSE 0

EntryType ==
    [ life : {"unminted", "provisional", "producing", "retiring", "retained",
              "releasing", "gone"},
      grant : Nat, used : Nat, written : Nat, pending : Nat,
      pins : [Object -> SUBSET Reader], linked : [Object -> BOOLEAN],
      writers : SUBSET Writer, gen : Nat, fenced : BOOLEAN, dropped : BOOLEAN ]

StageType == {"none", "starting", "live", "settling", "converting", "serving",
              "releasing", "cleared", "removed", "done", "dropped"}

TaskType ==
    {Idle, Ready, Ended}
      \cup [st : {"growing"}, obj : Object, ask : Nat]
      \cup [st : {"grown", "authorized", "written", "landed"}, obj : Object]

WalkType ==
    {Idle} \cup [st : {"walking"}, before : Nat, moved : Nat, stale : BOOLEAN]
           \cup [st : {"seen"}, before : Nat, bytes : Nat, stale : BOOLEAN]

ConvType ==
    {NoConvert} \cup [st : {"inline"}] \cup [st : {"retry"}, left : Nat]
                \cup [st : {"walking"}, left : Nat, gen : Nat]
                \cup [st : {"seen"}, left : Nat, gen : Nat, bytes : Nat]

ReadingType == {Idle} \cup [st : {"opened", "pinned"}, obj : Object]

\* The variables hold figures and states of the code; in particular no figure
\* of the ledger falls below zero, whatever is subtracted from it.
TypeOK ==
    /\ entry \in [Key -> EntryType]
    /\ stage \in [Key -> StageType]
    /\ task \in [Key -> [Writer -> TaskType]]
    /\ walk \in [Key -> [Walker -> WalkType]]
    /\ conv \in [Key -> ConvType]
    /\ reading \in [Key -> [Reader -> ReadingType]]
    /\ file \in [Key -> [Object -> {"none", "linked", "removed"}]]
    /\ lost \in [Key -> {"never", "now", "healed"}]

\* materialized(): what is in the directory, and what an authorised write is
\* about to put there, is charged by measurement, landed write or reservation,
\* however the walks and the writes interleave, except after a walk that
\* another ledger call overtook or that missed an object being renamed, and
\* then only until the next good one.
Accounted ==
    \A k \in Key :
      Present(k) /\ lost[k] # "now" =>
        Cardinality(Linked(k)) + Cardinality(InFlight(k)) <= Materialized(entry[k])

\* charge(): nothing on the disk is free, and once the names are accounted as
\* unlinked that includes objects an accepted read holds open.  After the
\* conversion of a retired charge no late walk can undo it.
ChargeCovers ==
    \A k \in Key :
      Present(k) /\ (lost[k] = "never" \/ entry[k].life = "retained") =>
        Owed(k) <= Charge(entry[k])

\* collect, abandon: an incarnation is forgotten only when it has no name in
\* its directory, no registered writer and no pinned reader.
NotForgotten ==
    \A k \in Key : ~Present(k) => Owed(k) = 0 /\ Writing(k) = {}

\* The ledger's account of the disk: what is there or on its way is charged, and
\* stays so until it is gone, in a running session and after its names.
DiskIsCharged == Accounted /\ ChargeCovers /\ NotForgotten

\* authorize_write, regrant: what writes in flight have reserved is inside the
\* grant until the names are gone, though the grant may be pulled in between a
\* growth and the write it was for.
ReservationsGranted ==
    \A k \in Key :
      stage[k] \notin {"done", "dropped"} => entry[k].pending <= entry[k].grant

\* What k has in its directory or on the way there, and what it was granted until
\* its names are accounted as gone: a late conversion may put a grant back after
\* that, which authorises nothing.  What readers hold open is not in it: a pin is
\* taken without a look at the ceiling.
Obligation(k) ==
    Max({ IF stage[k] \in {"done", "dropped"} THEN 0 ELSE entry[k].grant,
          Cardinality(Linked(k)) + Cardinality(InFlight(k)) })

\* reserve, grow, regrant, authorize_write: what all incarnations have in their
\* directories or are authorised to put there stays within the configured
\* ceiling, though a write is authorised in three critical sections, a regrant
\* may pull the grant in between any two, and a grant is given back in steps.
WithinCeiling ==
    (Configured > 0 /\ \A k \in Key : lost[k] = "never") =>
       MapThenSumSet(Obligation, Key) <= Configured

\* commit_quiescent_measurement: a retired charge that collapses does so onto
\* exactly what is in the directory, and no writer is left to add to it.
ConversionExact ==
    [][\A k \in Key :
         entry[k].life = "retiring" /\ entry'[k].life = "retained" =>
           entry'[k].grant = Cardinality(Linked(k)) /\ Writing(k) = {}]_vars

\* What observe_walk's comment promises of a running session, that a walk
\* subsumes only what it saw and a landed write stays charged.  But a write lands
\* before its object is renamed, and a walk under way then may miss it.
LandedStaysCharged ==
    \A k \in Key :
      stage[k] = "live" => Cardinality(Linked(k)) <= Materialized(entry[k])

\* What finish_writer's comment promises: an entry whose names were released
\* under a registered writer "becomes collectable only now", when that writer
\* finishes.  With the owner gone as well, nothing would look at it again.
ReleasedIsCollected ==
    \A k \in Key : stage[k] = "dropped" /\ Writing(k) = {} => ~Present(k)
=============================================================================
