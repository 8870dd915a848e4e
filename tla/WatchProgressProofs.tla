-------------------------- MODULE WatchProgressProofs --------------------------
(***************************************************************************)
(* The coalescer keeps its types, keeps one worker for every queued beat   *)
(* and flushes the newest one, for any nodes, beats, plays, durations and  *)
(* windows; it never undoes an edit and a queued beat keeps its baseline   *)
(* except by the two steps of put_final that the findings are about.       *)
(***************************************************************************)
EXTENDS WatchProgress, TLAPS

Entry ==
    [age : {NoAge} \cup (0 .. Window), committed : Row, pending : Observation \cup {None},
     running : BOOLEAN, retries : 0 .. MaxFlushAttempts]

Request ==
    {Idle, [st |-> "done"]} \cup
    [st : {"waiting", "reading"}, node : Node, play : Play \cup {Native}, pos : Position, rev : Nat]

Typed ==
    /\ row \in Row
    /\ rev \in Nat /\ playRev \in [Play -> Nat] /\ active \subseteq Play
    /\ gone \in BOOLEAN
    /\ entry \in [Node -> Entry]
    /\ lock \in [Node -> Beat \cup {None}]
    /\ worker \in [Node -> {"none", "top", "asleep", "backoff"}]
    /\ sleep \in [Node -> 0 .. Window]
    /\ req \in [Beat -> Request]
    /\ now \in 0 .. MaxTime
    /\ seen \in Nat
    /\ DOMAIN newest = Node

\* What an entry e owes its worker, which is at w, and the last beat accepted, s.
Sound(e, w, s) ==
    /\ e.running <=> w # "none"
    /\ e.running => e.retries < MaxFlushAttempts
    /\ e.age # NoAge => e.committed # NoRow
    /\ e.pending # None => e.running /\ e.pending.seq = s

EntriesSound == \A n \in Node : Sound(entry[n], worker[n], newest[n])

\* Only a deletion takes the row away from the entries that have seen it.
Rooted == ~MayDelete => \A n \in Node : entry[n].committed # NoRow => row # NoRow

\* The row bears the second of the edit that changed it.
Stamped == src.by = "edit" /\ src.changed => row.at = src.base

IInv == Typed /\ EntriesSound /\ Rooted /\ Stamped

-----------------------------------------------------------------------------
(* The operators.                                                          *)

LEMMA Constants ==
    /\ Duration \in Nat /\ Window \in Nat /\ Window > 0
    /\ MaxFlushAttempts \in Nat /\ MaxFlushAttempts > 0 /\ MaxTime \in Nat
BY ConstantAssumption

LEMMA RowForms ==
    /\ NoRow \in Row
    /\ \A r \in Row : /\ r.at \in Int /\ r.watched \in BOOLEAN /\ r.pos \in Position
                      /\ r # NoRow => r.at \in 0 .. MaxTime
                      /\ r # Unconditional
<1>1. NoRow \in Row
  BY DEF Row
<1>2. ASSUME NEW r \in Row
      PROVE  /\ r.at \in Int /\ r.watched \in BOOLEAN /\ r.pos \in Position
             /\ r # NoRow => r.at \in 0 .. MaxTime
  <2>1. CASE r = NoRow
    BY <2>1, Constants DEF NoRow, Position
  <2>2. CASE r \in [pos : Position, watched : BOOLEAN, at : 0 .. MaxTime]
    BY <2>2, Constants
  <2> QED BY <2>1, <2>2 DEF Row
<1>3. ASSUME NEW r \in Row
      PROVE  r # Unconditional
  <2>1. DOMAIN r = {"pos", "watched", "at"}
    BY DEF Row, NoRow
  <2>2. DOMAIN Unconditional = {"any"}
    BY DEF Unconditional
  <2> QED BY <2>1, <2>2
<1> QED BY <1>1, <1>2, <1>3

LEMMA EntryForms ==
    /\ NewEntry \in Entry
    /\ \A w, s : w = "none" => Sound(NewEntry, w, s)
BY Constants, RowForms DEF NewEntry, Entry, Sound

LEMMA RequestForms ==
    ASSUME NEW r \in Request, r.st \in {"waiting", "reading"}
    PROVE  /\ r.node \in Node /\ r.play \in Play \cup {Native}
           /\ r.pos \in Position /\ r.rev \in Nat
           /\ [r EXCEPT !.st = "reading"] \in Request
BY DEF Request, Idle

LEMMA ObservedType ==
    ASSUME Typed, NEW b \in Beat, req[b].st \in {"waiting", "reading"}, NEW base \in Int
    PROVE  /\ Observed(b, base) \in Observation
           /\ Observed(b, base).seq = seen + 1 /\ Observed(b, base).base = base
<1>1. /\ req[b].node \in Node /\ req[b].play \in Play \cup {Native}
      /\ req[b].pos \in Position /\ req[b].rev \in Nat
  <2>1. req[b] \in Request
    BY DEF Typed
  <2> QED BY <2>1, RequestForms
<1>2. seen \in Nat
  BY DEF Typed
<1> QED BY <1>1, <1>2 DEF Observed, Observation

\* What a store call does to the row.
LEMMA StoreEffect ==
    ASSUME Typed, Stamped, NEW o \in Observation, NEW by, NEW outcome, Store(o, by, outcome),
           by # "edit"
    PROVE  /\ row' \in Row /\ Stamped'
           /\ row # NoRow => row' # NoRow
           /\ outcome \in {"ok", "lost"} => row' # NoRow
<1>1. Progressed(o) \in Row /\ Progressed(o) # NoRow
  BY RowForms DEF Typed, Progressed, Observation, Row, NoRow
<1>2. CASE outcome \in {"ok", "lost"}
  BY <1>1, <1>2 DEF Store, Stamped
<1>3. CASE outcome \notin {"ok", "lost"}
  BY <1>3 DEF Store, Stamped, Typed
<1> QED BY <1>2, <1>3

\* The entries after a step that concerns one node at most.
LEMMA OneEntry ==
    ASSUME Typed, EntriesSound, NEW n \in Node, NEW e \in Entry,
           entry' = [entry EXCEPT ![n] = e],
           Sound(e, worker'[n], newest'[n]),
           \A m \in Node : m # n => worker'[m] = worker[m] /\ newest'[m] = newest[m]
    PROVE  EntriesSound' /\ entry' \in [Node -> Entry]
BY DEF Typed, EntriesSound

LEMMA RootedStays ==
    ASSUME Typed, Rooted, row # NoRow => row' # NoRow, entry' \in [Node -> Entry],
           \A n \in Node : entry'[n].committed \in {entry[n].committed, row', NoRow}
    PROVE  Rooted'
BY DEF Rooted

\* An entry edited field by field is an entry.
LEMMA EntryEdits ==
    ASSUME NEW e \in Entry
    PROVE  /\ \A v \in {NoAge} \cup (0 .. Window) : [e EXCEPT !.age = v] \in Entry
           /\ \A v \in Row : [e EXCEPT !.committed = v] \in Entry
           /\ \A v \in Observation \cup {None} : [e EXCEPT !.pending = v] \in Entry
           /\ \A v \in BOOLEAN : [e EXCEPT !.running = v] \in Entry
           /\ \A v \in 0 .. MaxFlushAttempts : [e EXCEPT !.retries = v] \in Entry
BY DEF Entry

Ages == {NoAge} \cup (0 .. Window)
Pendings == Observation \cup {None}
Tries == 0 .. MaxFlushAttempts

LEMMA Values ==
    /\ NoAge \in Ages /\ 0 \in Ages
    /\ None \in Pendings /\ \A o \in Observation : o \in Pendings
    /\ 0 \in Tries
    /\ TRUE \in BOOLEAN /\ FALSE \in BOOLEAN
<1>1. NoAge \in Ages /\ None \in Pendings /\ \A o \in Observation : o \in Pendings
  BY DEF Ages, Pendings
<1>2. 0 \in Ages /\ 0 \in Tries
  BY Constants DEF Ages, Tries
<1> QED BY <1>1, <1>2

LEMMA EntryEdited ==
    ASSUME NEW e \in Entry
    PROVE  /\ \A a \in Ages, c \in Row, p \in Pendings :
                /\ [e EXCEPT !.age = a, !.committed = c, !.pending = p] \in Entry
                /\ [e EXCEPT !.committed = c, !.pending = p, !.age = a] \in Entry
           /\ \A a \in Ages, c \in Row, p \in Pendings, t \in Tries :
                [e EXCEPT !.age = a, !.committed = c, !.pending = p, !.retries = t] \in Entry
           /\ \A a \in Ages, c \in Row, t \in Tries :
                [e EXCEPT !.committed = c, !.retries = t, !.age = a] \in Entry
           /\ \A p \in Pendings, t \in Tries : [e EXCEPT !.pending = p, !.retries = t] \in Entry
           /\ \A p \in Pendings, t \in Tries, r \in BOOLEAN :
                [e EXCEPT !.pending = p, !.retries = t, !.running = r] \in Entry
<1> SUFFICES ASSUME NEW a \in Ages, NEW c \in Row, NEW p \in Pendings, NEW t \in Tries,
                    NEW r \in BOOLEAN
             PROVE  /\ [e EXCEPT !.age = a, !.committed = c, !.pending = p] \in Entry
                    /\ [e EXCEPT !.committed = c, !.pending = p, !.age = a] \in Entry
                    /\ [e EXCEPT !.age = a, !.committed = c, !.pending = p, !.retries = t] \in Entry
                    /\ [e EXCEPT !.committed = c, !.retries = t, !.age = a] \in Entry
                    /\ [e EXCEPT !.pending = p, !.retries = t] \in Entry
                    /\ [e EXCEPT !.pending = p, !.retries = t, !.running = r] \in Entry
  <2>1. NoAge \in Ages /\ NoRow \in Row /\ None \in Pendings /\ 0 \in Tries /\ TRUE \in BOOLEAN
    BY RowForms, Values
  <2> QED BY <2>1
<1> USE DEF Ages, Pendings, Tries
<1>1. [[[e EXCEPT !.age = a] EXCEPT !.committed = c] EXCEPT !.pending = p] \in Entry
  BY EntryEdits
<1>2. [[[[e EXCEPT !.age = a] EXCEPT !.committed = c] EXCEPT !.pending = p] EXCEPT !.retries = t]
        \in Entry
  BY <1>1, EntryEdits
<1>3. [[[e EXCEPT !.committed = c] EXCEPT !.pending = p] EXCEPT !.age = a] \in Entry
  BY EntryEdits
<1>4. [[[e EXCEPT !.committed = c] EXCEPT !.retries = t] EXCEPT !.age = a] \in Entry
  BY EntryEdits
<1>5. [[e EXCEPT !.pending = p] EXCEPT !.retries = t] \in Entry
  BY EntryEdits
<1>6. [[[e EXCEPT !.pending = p] EXCEPT !.retries = t] EXCEPT !.running = r] \in Entry
  BY <1>5, EntryEdits
<1> QED BY <1>1, <1>2, <1>3, <1>4, <1>5, <1>6

\* The ways a step changes an entry, each sound for the same or the next worker.
LEMMA AdoptSound ==
    ASSUME Typed, NEW e \in Entry, NEW w, NEW s, Sound(e, w, s)
    PROVE  /\ Adopt(e) \in Entry /\ Sound(Adopt(e), w, s)
           /\ Adopt(e).committed \in {e.committed, row}
<1>1. CASE e.committed = row
  BY <1>1 DEF Adopt
<1>2. CASE e.committed # row
  <2> DEFINE f == [e EXCEPT !.age = NoAge, !.committed = row, !.pending = None, !.retries = 0]
  <2>1. Adopt(e) = f
    BY <1>2 DEF Adopt
  <2>2. f \in Entry
    BY EntryEdited, Values DEF Typed
  <2>3. /\ f.age = NoAge /\ f.committed = row /\ f.pending = None /\ f.retries = 0
        /\ f.running = e.running
    BY DEF Entry
  <2> HIDE DEF f
  <2> QED BY <2>1, <2>2, <2>3, Constants DEF Sound
<1> QED BY <1>1, <1>2

LEMMA AfterCommitSound ==
    ASSUME NEW e \in Entry, NEW w, NEW s, Sound(e, w, s), row' \in Row, row' # NoRow
    PROVE  /\ AfterCommit(e) \in Entry
           /\ AfterCommit(e).committed = row'
           /\ \A t : Sound(AfterCommit(e), w, t)
           /\ [AfterCommit(e) EXCEPT !.retries = 0] \in Entry
           /\ [AfterCommit(e) EXCEPT !.retries = 0].committed = row'
           /\ \A t : Sound([AfterCommit(e) EXCEPT !.retries = 0], w, t)
<1> DEFINE f == [e EXCEPT !.age = 0, !.committed = row', !.pending = None]
           g == [f EXCEPT !.retries = 0]
<1>1. AfterCommit(e) = f
  BY DEF AfterCommit
<1>2. f \in Entry
  BY EntryEdited, Values
<1>3. /\ f.age = 0 /\ f.committed = row' /\ f.pending = None /\ f.retries = e.retries
      /\ f.running = e.running
  BY DEF Entry
<1> HIDE DEF f
<1>4. g \in Entry
  BY <1>2, EntryEdits, Constants
<1>5. /\ g.age = 0 /\ g.committed = row' /\ g.pending = None /\ g.retries = 0
      /\ g.running = e.running
  BY <1>2, <1>3 DEF Entry
<1>6. g = [AfterCommit(e) EXCEPT !.retries = 0]
  BY <1>1
<1> HIDE DEF g
<1>7. \A t : Sound(f, w, t) /\ Sound(g, w, t)
  BY <1>3, <1>5, Constants DEF Sound
<1> QED BY <1>1, <1>2, <1>3, <1>4, <1>5, <1>6, <1>7

LEMMA SupersededSound ==
    ASSUME Typed, NEW e \in Entry, NEW w, NEW s, Sound(e, w, s)
    PROVE  /\ Superseded(e) \in Entry /\ Sound(Superseded(e), w, s)
           /\ Superseded(e).committed = row
<1> DEFINE a == IF row = NoRow THEN NoAge ELSE 0
           f == [e EXCEPT !.committed = row, !.pending = None, !.age = a]
<1>1. Superseded(e) = f
  BY DEF Superseded
<1>2. a \in Ages /\ (a # NoAge => row # NoRow)
  BY Values
<1> HIDE DEF a
<1>3. f \in Entry
  BY <1>2, EntryEdited, Values DEF Typed
<1>4. /\ f.age = a /\ f.committed = row /\ f.pending = None /\ f.retries = e.retries
      /\ f.running = e.running
  BY DEF Entry
<1> HIDE DEF f
<1> QED BY <1>1, <1>2, <1>3, <1>4 DEF Sound

LEMMA QueueSound ==
    ASSUME Typed, EntriesSound, NEW n \in Node, NEW o \in Observation, Queue(n, o),
           newest' = [newest EXCEPT ![n] = o.seq]
    PROVE  /\ EntriesSound' /\ entry' \in [Node -> Entry]
           /\ worker' \in [Node -> {"none", "top", "asleep", "backoff"}]
           /\ \A m \in Node : entry'[m].committed = entry[m].committed
<1> DEFINE e == [entry[n] EXCEPT !.pending = o, !.retries = 0, !.running = TRUE]
<1>1. /\ entry[n] \in Entry /\ Sound(entry[n], worker[n], newest[n])
      /\ worker[n] \in {"none", "top", "asleep", "backoff"}
  BY DEF Typed, EntriesSound
<1>2. /\ e \in Entry /\ e.committed = entry[n].committed /\ e.age = entry[n].age
      /\ e.pending = o /\ e.retries = 0 /\ e.running = TRUE
  <2>1. e \in Entry
    BY <1>1, EntryEdited, Values
  <2> QED BY <1>1, <2>1 DEF Entry
<1>3. entry' = [entry EXCEPT ![n] = e]
  BY DEF Queue, Typed
<1>4. /\ worker'[n] # "none" /\ newest'[n] = o.seq
      /\ worker' \in [Node -> {"none", "top", "asleep", "backoff"}]
      /\ \A m \in Node : m # n => worker'[m] = worker[m] /\ newest'[m] = newest[m]
  BY <1>1 DEF Queue, Typed, Sound
<1> HIDE DEF e
<1>5. Sound(e, worker'[n], newest'[n])
  BY <1>1, <1>2, <1>4, Constants DEF Sound
<1>6. EntriesSound' /\ entry' \in [Node -> Entry]
  BY <1>2, <1>3, <1>4, <1>5, OneEntry
<1>7. \A m \in Node : entry'[m].committed = entry[m].committed
  BY <1>2, <1>3 DEF Typed
<1> QED BY <1>4, <1>6, <1>7

LEMMA RetrySound ==
    ASSUME Typed, EntriesSound, NEW n \in Node, worker[n] # "none", Retry(n, entry[n].pending),
           newest' = newest
    PROVE  /\ EntriesSound' /\ entry' \in [Node -> Entry]
           /\ worker' \in [Node -> {"none", "top", "asleep", "backoff"}]
           /\ \A m \in Node : entry'[m].committed = entry[m].committed
<1>1. /\ entry[n] \in Entry /\ Sound(entry[n], worker[n], newest[n])
      /\ entry[n].running /\ entry[n].retries < MaxFlushAttempts
  BY DEF Typed, EntriesSound, Sound
<1>2. CASE entry[n].retries + 1 >= MaxFlushAttempts
  <2> DEFINE e == [entry[n] EXCEPT !.pending = None, !.retries = @ + 1, !.running = FALSE]
  <2>1. entry' = [entry EXCEPT ![n] = e] /\ worker' = [worker EXCEPT ![n] = "none"]
    BY <1>2 DEF Retry, Typed
  <2>2. /\ e \in Entry /\ e.committed = entry[n].committed /\ e.age = entry[n].age
        /\ e.pending = None /\ e.running = FALSE
    <3>1. entry[n].retries + 1 \in Tries
      BY <1>1, Constants DEF Entry, Tries
    <3>2. e \in Entry
      BY <1>1, <3>1, EntryEdited, Values
    <3> QED BY <1>1, <3>2 DEF Entry
  <2> HIDE DEF e
  <2>3. Sound(e, "none", newest[n])
    BY <1>1, <2>2 DEF Sound
  <2> QED BY <2>1, <2>2, <2>3, OneEntry DEF Typed
<1>3. CASE ~(entry[n].retries + 1 >= MaxFlushAttempts)
  <2> DEFINE e == [entry[n] EXCEPT !.pending = entry[n].pending, !.retries = @ + 1]
  <2>1. entry' = [entry EXCEPT ![n] = e] /\ worker' = [worker EXCEPT ![n] = "backoff"]
    BY <1>3 DEF Retry, Typed
  <2>2. /\ e \in Entry /\ e.committed = entry[n].committed /\ e.age = entry[n].age
        /\ e.pending = entry[n].pending /\ e.running = entry[n].running
        /\ e.retries < MaxFlushAttempts
    <3>1. entry[n].retries + 1 \in Tries
      BY <1>1, Constants DEF Entry, Tries
    <3>2. entry[n].pending \in Pendings
      BY <1>1 DEF Entry, Pendings
    <3>3. e \in Entry
      BY <1>1, <3>1, <3>2, EntryEdited, Values
    <3>4. /\ e.committed = entry[n].committed /\ e.age = entry[n].age
          /\ e.pending = entry[n].pending /\ e.running = entry[n].running
          /\ e.retries = entry[n].retries + 1
      BY <1>1 DEF Entry
    <3>5. entry[n].retries \in Nat
      BY <1>1, Constants DEF Entry
    <3> QED BY <1>3, <3>3, <3>4, <3>5, Constants
  <2> HIDE DEF e
  <2>3. Sound(e, "backoff", newest[n])
    BY <1>1, <2>2 DEF Sound
  <2> QED BY <2>1, <2>2, <2>3, OneEntry DEF Typed
<1> QED BY <1>2, <1>3

-----------------------------------------------------------------------------
(* The steps.                                                              *)

LEMMA EditSteps ==
    ASSUME IInv, NEW watched \in BOOLEAN, NEW own, ManualEdit(watched, own)
    PROVE  IInv'
<1> USE DEF IInv
<1>1. /\ UNCHANGED <<active, gone, entry, lock, worker, sleep, newest, req, now>>
      /\ rev' = rev + 1 /\ seen' = seen + 1
      /\ playRev' \in [Play -> Nat]
  BY DEF ManualEdit, nodeVars, Typed
<1> DEFINE changed == \/ row = NoRow
                      \/ IF watched THEN ~row.watched ELSE row.watched \/ row.pos # 0
           at == IF changed THEN now ELSE row.at
           pos == IF watched THEN row.pos ELSE 0
<1>2. /\ row' = [pos |-> pos, watched |-> watched, at |-> at]
      /\ src' = [by |-> "edit", seq |-> seen + 1, base |-> now, changed |-> changed]
  BY DEF ManualEdit
<1>3. pos \in Position /\ at \in 0 .. MaxTime
  BY RowForms, Constants DEF Typed, Position
<1>4. changed => at = now
  OBVIOUS
<1> HIDE DEF changed, at, pos
<1>5. row' \in Row /\ row' # NoRow
  BY <1>2, <1>3 DEF Row, NoRow
<1>6. Stamped'
  BY <1>2, <1>4 DEF Stamped
<1>7. Typed'
  BY <1>1, <1>5 DEF Typed
<1>8. Rooted' /\ EntriesSound'
  BY <1>1, <1>5 DEF Rooted, EntriesSound
<1> QED BY <1>6, <1>7, <1>8

LEMMA DeleteSteps ==
    ASSUME IInv, DeleteItem
    PROVE  IInv'
<1>1. MayDelete /\ row' = NoRow /\ src'.by = "delete"
  BY DEF DeleteItem
<1>2. Typed'
  BY RowForms DEF IInv, Typed, DeleteItem, nodeVars
<1>3. EntriesSound'
  BY DEF IInv, EntriesSound, DeleteItem, nodeVars
<1> QED BY <1>1, <1>2, <1>3 DEF IInv, Rooted, Stamped

LEMMA TickSteps ==
    ASSUME IInv, Tick
    PROVE  IInv'
<1>1. ASSUME NEW n \in Node
      PROVE  /\ entry'[n] \in Entry /\ entry'[n].committed = entry[n].committed
             /\ Sound(entry'[n], worker[n], newest[n])
  <2>1. entry[n] \in Entry /\ Sound(entry[n], worker[n], newest[n])
    BY DEF IInv, Typed, EntriesSound
  <2> DEFINE a == Longer(entry[n].age)
             f == [entry[n] EXCEPT !.age = a]
  <2>2. entry'[n] = f
    BY DEF Tick
  <2>3. a \in {NoAge} \cup (0 .. Window) /\ (a # NoAge <=> entry[n].age # NoAge)
    BY <2>1, Constants DEF Entry, Longer, NoAge
  <2> HIDE DEF a
  <2>4. f \in Entry
    BY <2>1, <2>3, EntryEdits
  <2>5. /\ f.age = a /\ f.committed = entry[n].committed /\ f.pending = entry[n].pending
        /\ f.running = entry[n].running /\ f.retries = entry[n].retries
    BY <2>1 DEF Entry
  <2> HIDE DEF f
  <2> QED BY <2>1, <2>2, <2>3, <2>4, <2>5 DEF Sound
<1>2. entry' \in [Node -> Entry]
  <2>1. entry' = [n \in Node |-> entry'[n]]
    BY DEF Tick
  <2> QED BY <1>1, <2>1
<1>3. sleep' \in [Node -> 0 .. Window] /\ now' \in 0 .. MaxTime
  <2>1. \A n \in Node : sleep[n] \in 0 .. Window
    BY DEF IInv, Typed
  <2>2. \A n \in Node : (IF sleep[n] = 0 THEN 0 ELSE sleep[n] - 1) \in 0 .. Window
    BY <2>1, Constants
  <2>3. sleep' \in [Node -> 0 .. Window]
    BY <2>2 DEF Tick
  <2>4. now' \in 0 .. MaxTime
    BY Constants DEF IInv, Typed, Tick
  <2> QED BY <2>3, <2>4
<1>4. Typed' /\ Stamped'
  BY <1>2, <1>3 DEF IInv, Typed, Stamped, Tick, storeVars
<1>5. EntriesSound' /\ Rooted'
  BY <1>1 DEF IInv, EntriesSound, Rooted, Tick, storeVars
<1> QED BY <1>4, <1>5 DEF IInv

LEMMA ArriveSteps ==
    ASSUME IInv, NEW b \in Beat, NEW n \in Node, NEW play \in Play \cup {Native},
           NEW pos \in Position, Arrive(b, n, play, pos)
    PROVE  IInv'
<1> DEFINE r == [st |-> "waiting", node |-> n, play |-> play, pos |-> pos,
                 rev |-> IF play = Native THEN 0 ELSE playRev[play]]
<1>1. r \in Request
  BY DEF IInv, Typed, Request
<1>2. req' = [req EXCEPT ![b] = r] /\ UNCHANGED <<storeVars, nodeVars, now, seen>>
  BY DEF Arrive
<1> HIDE DEF r
<1>3. req' \in [Beat -> Request]
  BY <1>1, <1>2 DEF IInv, Typed
<1> QED BY <1>2, <1>3 DEF IInv, Typed, EntriesSound, Rooted, Stamped, storeVars, nodeVars

\* A request that is answered leaves the requests typed.
LEMMA DoneType ==
    ASSUME Typed, NEW b \in Beat, Done(b)
    PROVE  req' \in [Beat -> Request]
<1>1. [st |-> "done"] \in Request
  BY DEF Request
<1> QED BY <1>1 DEF Typed, Done

LEMMA WriteThroughSteps ==
    ASSUME IInv, NEW b \in Beat, WriteThrough(b)
    PROVE  IInv'
<1> DEFINE o == Observed(b, now)
<1>1. o \in Observation
  BY ObservedType, Constants DEF IInv, Typed, WriteThrough
<1>2. PICK outcome \in Outcomes(o, Unconditional) : Store(o, "direct", outcome)
  BY DEF WriteThrough
<1> HIDE DEF o
<1>3. row' \in Row /\ Stamped' /\ (row # NoRow => row' # NoRow)
  BY <1>1, <1>2, StoreEffect DEF IInv
<1>4. /\ req' \in [Beat -> Request] /\ seen' = seen + 1
      /\ UNCHANGED <<rev, playRev, active, gone, nodeVars, now>>
  BY DoneType DEF WriteThrough, IInv
<1> QED BY <1>3, <1>4 DEF IInv, Typed, EntriesSound, Rooted, nodeVars

LEMMA ReadSteps ==
    ASSUME IInv, NEW b \in Beat, Read(b)
    PROVE  IInv'
<1> USE DEF IInv
<1> DEFINE n == req[b].node
<1>0. req[b] \in Request /\ req[b].st = "waiting" /\ n \in Node
      /\ [req[b] EXCEPT !.st = "reading"] \in Request
  BY RequestForms DEF Typed, Read
<1>u. UNCHANGED <<storeVars, worker, sleep, newest, now, seen>>
  BY DEF Read
<1>1. CASE /\ lock' = [lock EXCEPT ![n] = b]
           /\ entry' = [entry EXCEPT ![n] = Adopt(@)]
           /\ req' = [req EXCEPT ![b].st = "reading"]
  <2>1. /\ Adopt(entry[n]) \in Entry /\ Sound(Adopt(entry[n]), worker[n], newest[n])
        /\ Adopt(entry[n]).committed \in {entry[n].committed, row}
    BY <1>0, AdoptSound DEF Typed, EntriesSound
  <2> DEFINE e == Adopt(entry[n])
  <2>2. entry' = [entry EXCEPT ![n] = e]
    BY <1>1 DEF Typed
  <2> HIDE DEF e, n
  <2>3. EntriesSound' /\ entry' \in [Node -> Entry]
    BY <1>0, <1>u, <2>1, <2>2, OneEntry DEF e
  <2>4. \A m \in Node : entry'[m].committed \in {entry[m].committed, row', NoRow}
    BY <1>u, <2>1, <2>2 DEF Typed, e, storeVars
  <2>5. Rooted'
    BY <1>u, <2>3, <2>4, RootedStays DEF storeVars
  <2>6. req' \in [Beat -> Request] /\ lock' \in [Node -> Beat \cup {None}]
    BY <1>0, <1>1 DEF Typed
  <2> QED BY <1>u, <2>3, <2>5, <2>6 DEF Typed, Stamped, storeVars
<1>2. CASE Done(b) /\ UNCHANGED <<lock, entry>>
  BY <1>u, <1>2, DoneType DEF Typed, EntriesSound, Rooted, Stamped, storeVars
<1> QED BY <1>1, <1>2 DEF Read

LEMMA DecideSteps ==
    ASSUME IInv, NEW b \in Beat, Decide(b)
    PROVE  IInv'
<1> USE DEF IInv
<1> DEFINE n == req[b].node
           o == Observed(b, entry[n].committed.at)
<1>0. req[b] \in Request /\ n \in Node
  BY RequestForms DEF Typed, Decide
<1>e. /\ entry[n] \in Entry /\ Sound(entry[n], worker[n], newest[n])
      /\ entry[n].committed \in Row /\ entry[n].committed.at \in Int
  BY <1>0, RowForms DEF Typed, EntriesSound, Entry
<1>o. o \in Observation /\ o.base = entry[n].committed.at
  BY <1>e, ObservedType DEF Decide
<1>u. /\ req' \in [Beat -> Request] /\ lock' \in [Node -> Beat \cup {None}]
      /\ seen' \in Nat /\ UNCHANGED <<rev, playRev, active, gone, sleep, now>>
  <2>1. /\ Done(b) /\ lock' = [lock EXCEPT ![n] = None] /\ seen' = seen + 1
        /\ UNCHANGED <<rev, playRev, active, gone, sleep, now>>
    BY DEF Decide
  <2>2. req' \in [Beat -> Request]
    BY <2>1, DoneType
  <2> HIDE DEF n, o
  <2>3. lock' \in [Node -> Beat \cup {None}]
    BY <1>0, <2>1 DEF Typed
  <2>4. seen' \in Nat
    BY <2>1 DEF Typed
  <2> QED BY <2>1, <2>2, <2>3, <2>4
<1> HIDE DEF o
<1>1. ASSUME NEW outcome \in Outcomes(o, Unconditional), Store(o, "direct", outcome),
             entry' = (IF outcome = "ok" THEN [entry EXCEPT ![n] = AfterCommit(@)] ELSE entry),
             newest' = (IF outcome = "ok" THEN [newest EXCEPT ![n] = o.seq] ELSE newest),
             UNCHANGED worker
      PROVE  IInv'
  <2>1. /\ row' \in Row /\ Stamped' /\ (row # NoRow => row' # NoRow)
        /\ outcome = "ok" => row' # NoRow
    BY <1>o, <1>1, StoreEffect
  <2>2. CASE outcome # "ok"
    BY <1>u, <1>1, <2>1, <2>2 DEF Typed, EntriesSound, Rooted
  <2>3. CASE outcome = "ok"
    <3> DEFINE e == AfterCommit(entry[n])
    <3>1. e \in Entry /\ e.committed = row' /\ \A t : Sound(e, worker[n], t)
      BY <1>e, <2>1, <2>3, AfterCommitSound
    <3>2. entry' = [entry EXCEPT ![n] = e]
      BY <1>0, <1>1, <2>3 DEF Typed
    <3> HIDE DEF e, n
    <3>3. EntriesSound' /\ entry' \in [Node -> Entry]
      BY <1>0, <1>1, <2>3, <3>1, <3>2, OneEntry DEF Typed
    <3>4. \A m \in Node : entry'[m].committed \in {entry[m].committed, row', NoRow}
      BY <3>1, <3>2 DEF Typed
    <3>5. Rooted'
      BY <2>1, <3>3, <3>4, RootedStays
    <3>6. DOMAIN newest' = Node
      BY <1>1, <2>3 DEF Typed
    <3> QED BY <1>u, <1>1, <2>1, <3>3, <3>5, <3>6 DEF Typed
  <2> QED BY <2>2, <2>3
<1>2. ASSUME Queue(n, o), newest' = [newest EXCEPT ![n] = o.seq], UNCHANGED <<row, src>>
      PROVE  IInv'
  <2> HIDE DEF n
  <2>1. /\ EntriesSound' /\ entry' \in [Node -> Entry]
        /\ worker' \in [Node -> {"none", "top", "asleep", "backoff"}]
        /\ \A m \in Node : entry'[m].committed = entry[m].committed
    BY <1>0, <1>o, <1>2, QueueSound
  <2>2. Rooted' /\ Stamped' /\ DOMAIN newest' = Node
    BY <1>2, <2>1 DEF Typed, Rooted, Stamped
  <2> QED BY <1>u, <1>2, <2>1, <2>2 DEF Typed
<1> QED BY <1>1, <1>2 DEF Decide, o

LEMMA PutFinalSteps ==
    ASSUME IInv, NEW b \in Beat, PutFinal(b)
    PROVE  IInv'
<1> USE DEF IInv
<1> DEFINE n == req[b].node
           o == Observed(b, now)
           e == IF entry[n].pending # None /\ entry[n].pending.play = o.play
                  THEN [entry[n] EXCEPT !.pending = None] ELSE entry[n]
           age == IF row' = NoRow THEN NoAge ELSE 0
           adopted == [e EXCEPT !.committed = row', !.retries = 0, !.age = age]
<1>0. req[b] \in Request /\ n \in Node /\ b \in Final
  BY RequestForms DEF Typed, PutFinal
<1>e. entry[n] \in Entry /\ Sound(entry[n], worker[n], newest[n])
  BY <1>0 DEF Typed, EntriesSound
<1>o. o \in Observation
  BY ObservedType, Constants DEF PutFinal, Typed
<1>u. /\ req' \in [Beat -> Request] /\ seen' \in Nat
      /\ UNCHANGED <<rev, playRev, gone, lock, worker, sleep, newest, now>>
  <2>1. /\ Done(b) /\ seen' = seen + 1
        /\ UNCHANGED <<rev, playRev, gone, lock, worker, sleep, newest, now>>
    BY DEF PutFinal
  <2>2. req' \in [Beat -> Request]
    BY <2>1, DoneType
  <2> QED BY <2>1, <2>2 DEF Typed
<1>1. PICK outcome \in Outcomes(o, Unconditional) :
        /\ active' = IF outcome \in {"ok", "lost"} THEN active \ {o.play} ELSE active
        /\ \/ /\ Store(o, "final", outcome)
              /\ entry' = [entry EXCEPT ![n] = IF outcome \in {"err", "lost"} THEN e ELSE adopted]
           \/ /\ entry' = [entry EXCEPT ![n] = e]
              /\ UNCHANGED <<row, src>>
           \/ Store(o, "final", outcome) /\ UNCHANGED entry
  BY DEF PutFinal
<1>2. row' \in Row /\ Stamped' /\ (row # NoRow => row' # NoRow)
  <2>1. CASE Store(o, "final", outcome)
    <3> HIDE DEF o
    <3> QED BY <1>o, <2>1, StoreEffect
  <2>2. CASE UNCHANGED <<row, src>>
    BY <2>2 DEF Typed, Stamped
  <2> QED BY <1>1, <2>1, <2>2
<1>3. /\ e \in Entry /\ e.committed = entry[n].committed /\ e.age = entry[n].age
      /\ e.running = entry[n].running /\ e.retries = entry[n].retries
      /\ e.pending \in {entry[n].pending, None}
  <2>1. entry[n].pending \in Observation \cup {None}
    BY <1>e DEF Entry
  <2>2. [entry[n] EXCEPT !.pending = None] \in Entry
    BY <1>e, EntryEdits
  <2> HIDE DEF o
  <2> QED BY <1>e, <2>2 DEF Entry
<1> HIDE DEF e, o
<1>4. Sound(e, worker[n], newest[n])
  BY <1>e, <1>3 DEF Sound
<1>5. /\ age \in Ages
      /\ age # NoAge <=> row' # NoRow
  BY Values DEF NoAge
<1> HIDE DEF age
<1>6. /\ adopted \in Entry /\ adopted.committed = row' /\ adopted.age = age
      /\ adopted.running = e.running /\ adopted.retries = 0 /\ adopted.pending = e.pending
  <2>1. adopted \in Entry
    BY <1>2, <1>3, <1>5, EntryEdited, Values
  <2> QED BY <1>3, <2>1 DEF Entry
<1> HIDE DEF adopted
<1>7. Sound(adopted, worker[n], newest[n])
  BY <1>4, <1>5, <1>6, Constants DEF Sound
<1> HIDE DEF n
<1>8. ASSUME NEW f \in {e, adopted}, entry' = [entry EXCEPT ![n] = f]
      PROVE  EntriesSound' /\ Rooted' /\ entry' \in [Node -> Entry]
  <2>1. EntriesSound' /\ entry' \in [Node -> Entry]
    BY <1>0, <1>u, <1>3, <1>4, <1>6, <1>7, <1>8, OneEntry
  <2>2. \A m \in Node : entry'[m].committed \in {entry[m].committed, row', NoRow}
    BY <1>3, <1>6, <1>8 DEF Typed
  <2> QED BY <1>2, <2>1, <2>2, RootedStays
<1>9. CASE UNCHANGED entry
  BY <1>u, <1>1, <1>2, <1>9 DEF Typed, EntriesSound, Rooted
<1>10. CASE \E f \in {e, adopted} : entry' = [entry EXCEPT ![n] = f]
  BY <1>u, <1>1, <1>2, <1>8, <1>10 DEF Typed
<1> QED BY <1>1, <1>9, <1>10

LEMMA WorkerTopSteps ==
    ASSUME IInv, NEW n \in Node, WorkerTop(n)
    PROVE  IInv'
<1> USE DEF IInv
<1>e. entry[n] \in Entry /\ Sound(entry[n], worker[n], newest[n]) /\ worker[n] = "top"
  BY DEF Typed, EntriesSound, WorkerTop
<1>u. UNCHANGED <<storeVars, lock, newest, req, now, seen>>
  BY DEF WorkerTop
<1>1. CASE entry[n].pending = None
  <2> DEFINE e == Resting(entry[n])
  <2>1. /\ entry' = [entry EXCEPT ![n] = e] /\ worker' = [worker EXCEPT ![n] = "none"]
        /\ UNCHANGED sleep
    BY <1>1 DEF WorkerTop, Typed
  <2>2. /\ e \in Entry /\ e.committed = entry[n].committed /\ e.age = entry[n].age
        /\ e.pending = None /\ e.running = FALSE
    <3>1. e \in Entry
      BY <1>e, EntryEdits DEF Resting
    <3> QED BY <1>1, <1>e, <3>1 DEF Entry, Resting
  <2> HIDE DEF e
  <2>3. Sound(e, "none", newest[n])
    BY <1>e, <2>2 DEF Sound
  <2>4. worker' \in [Node -> {"none", "top", "asleep", "backoff"}] /\ worker'[n] = "none"
    BY <2>1 DEF Typed
  <2>5. EntriesSound' /\ entry' \in [Node -> Entry]
    BY <1>u, <2>1, <2>2, <2>3, <2>4, OneEntry DEF Typed
  <2>6. Rooted'
    BY <1>u, <2>1, <2>2, <2>5, RootedStays DEF Typed, storeVars
  <2> QED BY <1>u, <2>1, <2>4, <2>5, <2>6 DEF Typed, Stamped, storeVars
<1>2. CASE entry[n].pending # None
  <2> DEFINE d == IF entry[n].age = NoAge THEN 0 ELSE Window - entry[n].age
  <2>1. /\ UNCHANGED entry /\ worker' = [worker EXCEPT ![n] = "asleep"]
        /\ sleep' = [sleep EXCEPT ![n] = d]
    BY <1>2 DEF WorkerTop
  <2>2. d \in 0 .. Window
    BY <1>e, Constants DEF Entry
  <2> HIDE DEF d
  <2>3. /\ worker' \in [Node -> {"none", "top", "asleep", "backoff"}]
        /\ sleep' \in [Node -> 0 .. Window]
    BY <2>1, <2>2 DEF Typed
  <2>4. EntriesSound'
    BY <1>e, <1>u, <2>1 DEF Typed, EntriesSound, Sound
  <2> QED BY <1>u, <2>1, <2>3, <2>4 DEF Typed, Rooted, Stamped, storeVars
<1> QED BY <1>1, <1>2

\* A worker that goes back to the top has not let go of its entry.
LEMMA AgainSteps ==
    ASSUME IInv, NEW n \in Node, WorkerLoops(n) \/ WorkerRetries(n)
    PROVE  IInv'
<1> USE DEF IInv
<1>1. /\ worker[n] \in {"asleep", "backoff"} /\ worker' = [worker EXCEPT ![n] = "top"]
      /\ UNCHANGED <<storeVars, entry, lock, sleep, newest, req, now, seen>>
  BY DEF WorkerLoops, WorkerRetries
<1>2. EntriesSound'
  BY <1>1 DEF Typed, EntriesSound, Sound
<1>3. worker' \in [Node -> {"none", "top", "asleep", "backoff"}]
  BY <1>1 DEF Typed
<1> QED BY <1>1, <1>2, <1>3 DEF Typed, Rooted, Stamped, storeVars

\* A flush or a drain writes in the name of its node, which is no other writer's.
LEMMA NodeNames ==
    ASSUME NEW n \in Node
    PROVE  n \notin {"direct", "final", "edit", "delete"}
BY ConstantAssumption

LEMMA FlushSteps ==
    ASSUME IInv, NEW n \in Node, Flush(n)
    PROVE  IInv'
<1> USE DEF IInv
<1> DEFINE o == entry[n].pending
<1>e. /\ entry[n] \in Entry /\ Sound(entry[n], worker[n], newest[n])
      /\ worker[n] = "asleep" /\ o \in Observation
  BY DEF Typed, EntriesSound, Flush, Entry
<1>u. UNCHANGED <<rev, playRev, active, gone, lock, sleep, newest, req, now, seen>>
  BY DEF Flush
<1>1. PICK outcome \in Outcomes(o, entry[n].committed) :
        \/ /\ outcome = "ok"
           /\ Store(o, n, outcome)
           /\ entry' = [entry EXCEPT ![n] = [AfterCommit(@) EXCEPT !.retries = 0]]
           /\ worker' = [worker EXCEPT ![n] = "top"]
        \/ /\ UNCHANGED <<row, src>>
           /\ entry' = [entry EXCEPT ![n] = Superseded(@)]
           /\ worker' = [worker EXCEPT ![n] = "top"]
        \/ UNCHANGED <<row, src>> /\ Retry(n, o)
        \/ Store(o, n, outcome) /\ Retry(n, o)
  BY DEF Flush
<1>2. /\ row' \in Row /\ Stamped' /\ (row # NoRow => row' # NoRow)
      /\ Store(o, n, outcome) /\ outcome = "ok" => row' # NoRow
  <2>1. CASE Store(o, n, outcome)
    <3>1. n # "edit"
      BY NodeNames
    <3> HIDE DEF o
    <3> QED BY <1>e, <2>1, <3>1, StoreEffect
  <2>2. CASE UNCHANGED <<row, src>> /\ ~Store(o, n, outcome)
    BY <2>2 DEF Typed, Stamped
  <2> QED BY <1>1, <2>1, <2>2
<1>3. ASSUME NEW f \in Entry, entry' = [entry EXCEPT ![n] = f], f.committed = row',
             Sound(f, "asleep", newest[n]), worker' = [worker EXCEPT ![n] = "top"]
      PROVE  IInv'
  <2>1. worker' \in [Node -> {"none", "top", "asleep", "backoff"}] /\ worker'[n] = "top"
    BY <1>3 DEF Typed
  <2>2. Sound(f, "top", newest[n])
    BY <1>3 DEF Sound
  <2>3. EntriesSound' /\ entry' \in [Node -> Entry]
    BY <1>u, <1>3, <2>1, <2>2, OneEntry DEF Typed
  <2>4. \A m \in Node : entry'[m].committed \in {entry[m].committed, row', NoRow}
    BY <1>3 DEF Typed
  <2>5. Rooted'
    BY <1>2, <2>3, <2>4, RootedStays
  <2> QED BY <1>u, <1>2, <2>1, <2>3, <2>5 DEF Typed
<1>4. CASE /\ outcome = "ok" /\ Store(o, n, outcome)
           /\ entry' = [entry EXCEPT ![n] = [AfterCommit(@) EXCEPT !.retries = 0]]
           /\ worker' = [worker EXCEPT ![n] = "top"]
  <2> DEFINE f == [AfterCommit(entry[n]) EXCEPT !.retries = 0]
  <2>1. f \in Entry /\ f.committed = row' /\ \A t : Sound(f, "asleep", t)
    BY <1>e, <1>2, <1>4, AfterCommitSound
  <2>2. entry' = [entry EXCEPT ![n] = f]
    BY <1>4 DEF Typed
  <2> HIDE DEF f
  <2> QED BY <1>3, <1>4, <2>1, <2>2
<1>5. CASE /\ UNCHANGED <<row, src>>
           /\ entry' = [entry EXCEPT ![n] = Superseded(@)]
           /\ worker' = [worker EXCEPT ![n] = "top"]
  <2> DEFINE f == Superseded(entry[n])
  <2>1. f \in Entry /\ f.committed = row' /\ Sound(f, "asleep", newest[n])
    BY <1>e, <1>5, SupersededSound
  <2>2. entry' = [entry EXCEPT ![n] = f]
    BY <1>5 DEF Typed
  <2> HIDE DEF f
  <2> QED BY <1>3, <1>5, <2>1, <2>2
<1>6. CASE Retry(n, o)
  <2>1. /\ EntriesSound' /\ entry' \in [Node -> Entry]
        /\ worker' \in [Node -> {"none", "top", "asleep", "backoff"}]
        /\ \A m \in Node : entry'[m].committed = entry[m].committed
    BY <1>e, <1>u, <1>6, RetrySound
  <2>2. Rooted'
    BY <1>2, <2>1, RootedStays
  <2> QED BY <1>u, <1>2, <2>1, <2>2 DEF Typed
<1> QED BY <1>1, <1>4, <1>5, <1>6

LEMMA DrainSteps ==
    ASSUME IInv, NEW n \in Node, Drain(n)
    PROVE  IInv'
<1> USE DEF IInv
<1> DEFINE o == entry[n].pending
<1>e. /\ entry[n] \in Entry /\ Sound(entry[n], worker[n], newest[n]) /\ o \in Observation
  BY DEF Typed, EntriesSound, Drain, Entry
<1>u. UNCHANGED <<rev, playRev, active, gone, lock, worker, sleep, newest, req, now, seen>>
  BY DEF Drain
<1>1. PICK outcome \in Outcomes(o, entry[n].committed) :
        \/ /\ Store(o, n, outcome)
           /\ entry' = [entry EXCEPT ![n] = CASE outcome = "ok" -> AfterCommit(@)
                                              [] outcome = "none" -> Superseded(@)
                                              [] OTHER -> @]
        \/ UNCHANGED <<row, src, entry>>
  BY DEF Drain
<1>2. CASE UNCHANGED <<row, src, entry>>
  BY <1>u, <1>2 DEF Typed, EntriesSound, Rooted, Stamped
<1>3. CASE /\ Store(o, n, outcome)
           /\ entry' = [entry EXCEPT ![n] = CASE outcome = "ok" -> AfterCommit(@)
                                              [] outcome = "none" -> Superseded(@)
                                              [] OTHER -> @]
  <2> DEFINE f == CASE outcome = "ok" -> AfterCommit(entry[n])
                    [] outcome = "none" -> Superseded(entry[n])
                    [] OTHER -> entry[n]
  <2>1. /\ row' \in Row /\ Stamped' /\ (row # NoRow => row' # NoRow)
        /\ outcome = "ok" => row' # NoRow
    <3>1. n # "edit"
      BY NodeNames
    <3> HIDE DEF o
    <3> QED BY <1>e, <1>3, <3>1, StoreEffect
  <2>2. /\ f \in Entry /\ Sound(f, worker[n], newest[n])
        /\ f.committed \in {entry[n].committed, row'}
    <3>1. CASE outcome = "ok"
      <4>1. f = AfterCommit(entry[n])
        BY <3>1
      <4> QED BY <1>e, <2>1, <3>1, <4>1, AfterCommitSound
    <3>2. CASE outcome = "none"
      <4>1. f = Superseded(entry[n]) /\ row' = row
        BY <1>3, <3>2 DEF Store
      <4> QED BY <1>e, <4>1, SupersededSound
    <3>3. CASE outcome \notin {"ok", "none"}
      <4>1. f = entry[n]
        BY <3>3
      <4> QED BY <1>e, <4>1
    <3> QED BY <3>1, <3>2, <3>3
  <2>3. entry' = [entry EXCEPT ![n] = f]
    BY <1>3 DEF Typed
  <2> HIDE DEF f
  <2>4. EntriesSound' /\ entry' \in [Node -> Entry]
    BY <1>u, <2>2, <2>3, OneEntry
  <2>5. \A m \in Node : entry'[m].committed \in {entry[m].committed, row', NoRow}
    BY <2>2, <2>3 DEF Typed
  <2>6. Rooted'
    BY <2>1, <2>4, <2>5, RootedStays
  <2> QED BY <1>u, <2>1, <2>4, <2>6 DEF Typed
<1> QED BY <1>1, <1>2, <1>3

LEMMA SweepSteps ==
    ASSUME IInv, NEW n \in Node, Sweep(n)
    PROVE  IInv'
<1> USE DEF IInv
<1>1. /\ worker[n] = "none" /\ entry' = [entry EXCEPT ![n] = NewEntry]
      /\ UNCHANGED <<storeVars, lock, worker, sleep, newest, req, now, seen>>
  BY DEF Sweep
<1>2. Sound(NewEntry, worker'[n], newest'[n])
  BY <1>1, EntryForms
<1>3. EntriesSound' /\ entry' \in [Node -> Entry]
  BY <1>1, <1>2, EntryForms, OneEntry
<1>4. \A m \in Node : entry'[m].committed \in {entry[m].committed, row', NoRow}
  BY <1>1 DEF Typed, NewEntry
<1>5. Rooted'
  BY <1>1, <1>3, <1>4, RootedStays DEF storeVars
<1> QED BY <1>1, <1>3, <1>5 DEF Typed, Stamped, storeVars

LEMMA Initially == Init => IInv
<1> SUFFICES ASSUME Init PROVE IInv
  OBVIOUS
<1>1. Typed
  <2>1. /\ row \in Row /\ rev \in Nat /\ playRev \in [Play -> Nat] /\ active \subseteq Play
        /\ gone \in BOOLEAN /\ seen \in Nat
    BY RowForms DEF Init
  <2>2. 0 \in 0 .. Window /\ 0 \in 0 .. MaxTime
    BY Constants
  <2>3. entry \in [Node -> Entry] /\ sleep \in [Node -> 0 .. Window] /\ now \in 0 .. MaxTime
    BY <2>2, EntryForms DEF Init
  <2>4. /\ lock \in [Node -> Beat \cup {None}]
        /\ worker \in [Node -> {"none", "top", "asleep", "backoff"}]
    BY DEF Init
  <2>5. req \in [Beat -> Request] /\ DOMAIN newest = Node
    BY DEF Init, Request
  <2> QED BY <2>1, <2>3, <2>4, <2>5 DEF Typed
<1>2. EntriesSound
  BY EntryForms DEF Init, EntriesSound
<1>3. Rooted /\ Stamped
  BY DEF Init, Rooted, Stamped, NewEntry
<1> QED BY <1>1, <1>2, <1>3 DEF IInv

LEMMA Inductive == IInv /\ [Next]_vars => IInv'
<1> SUFFICES ASSUME IInv, [Next]_vars PROVE IInv'
  OBVIOUS
<1>1. CASE UNCHANGED vars
  BY <1>1 DEF IInv, Typed, EntriesSound, Rooted, Stamped, vars, storeVars, nodeVars
<1>2. CASE Next
  BY <1>2, ArriveSteps, WriteThroughSteps, ReadSteps, DecideSteps, PutFinalSteps, WorkerTopSteps,
     AgainSteps, FlushSteps, DrainSteps, SweepSteps, EditSteps, DeleteSteps, TickSteps
     DEF Next, WorkerStep
<1> QED BY <1>1, <1>2

\* The inductive invariant holds of every behaviour of the coalescer.
THEOREM Inv == Spec => []IInv
<1> QED BY Initially, Inductive, PTL DEF Spec

-----------------------------------------------------------------------------
(* The theorems.                                                           *)

\* The row, the entries, the workers and the requests keep their types, and a worker
\* that lives has attempts left: retries stays under MAX_FLUSH_ATTEMPTS.
THEOREM TypeCorrect == Spec => []TypeOK
<1>1. IInv => TypeOK
  <2> SUFFICES ASSUME IInv PROVE TypeOK
    OBVIOUS
  <2>1. ASSUME NEW n \in Node
        PROVE  /\ entry[n] \in Entry /\ Sound(entry[n], worker[n], newest[n])
               /\ lock[n] \in Beat \cup {None}
               /\ worker[n] \in {"none", "top", "asleep", "backoff"}
               /\ sleep[n] \in 0 .. Window
    BY DEF IInv, Typed, EntriesSound
  <2>2. ASSUME NEW n \in Node
        PROVE  /\ entry[n].age \in {NoAge} \cup (0 .. Window) /\ entry[n].committed \in Row
               /\ entry[n].pending \in Observation \cup {None} /\ entry[n].running \in BOOLEAN
               /\ entry[n].retries \in 0 .. MaxFlushAttempts
               /\ entry[n].running => entry[n].retries < MaxFlushAttempts
    BY <2>1 DEF Entry, Sound
  <2> QED BY <2>1, <2>2 DEF IInv, Typed, TypeOK
<1> QED BY <1>1, Inv, PTL

\* A queued beat has a live flush worker, and `running' is raised exactly while one is
\* alive, through commits, failures, give-ups, sweeps and the shutdown drain.
THEOREM OneWorkerPerBeat == Spec => []PendingIsOwned
<1>1. IInv => PendingIsOwned
  BY DEF IInv, EntriesSound, Sound, PendingIsOwned
<1> QED BY <1>1, Inv, PTL

\* A node writes the row in its own name only by flushing or draining the beat it has
\* queued, and only over the row its entry committed.
LEMMA NodeWrites ==
    ASSUME IInv, Next, src' # src, src'.by \in Node
    PROVE  \E n \in Node :
             /\ entry[n].pending # None
             /\ src'.by = n /\ src'.seq = entry[n].pending.seq
             /\ src'.base = entry[n].pending.base
             /\ row = entry[n].committed
<1>1. ASSUME NEW n \in Node, Flush(n) \/ Drain(n)
      PROVE  /\ entry[n].pending # None
             /\ src'.by = n /\ src'.seq = entry[n].pending.seq
             /\ src'.base = entry[n].pending.base
             /\ row = entry[n].committed
  <2> DEFINE o == entry[n].pending
  <2>1. o # None
    BY <1>1 DEF Flush, Drain
  <2>2. PICK outcome \in Outcomes(o, entry[n].committed) : Store(o, n, outcome)
    BY <1>1 DEF Flush, Drain
  <2>3. outcome \in {"ok", "lost"}
    BY <2>2 DEF Store
  <2>4. Matches(entry[n].committed)
    BY <2>2, <2>3 DEF Outcomes
  <2>5. entry[n].committed # Unconditional
    BY RowForms DEF IInv, Typed, Entry
  <2> QED BY <2>1, <2>2, <2>3, <2>4, <2>5 DEF Store, Matches
<1>2. /\ \A b \in Beat, n \in Node, play \in Play \cup {Native}, pos \in Position :
             ~Arrive(b, n, play, pos)
      /\ \A b \in Beat : ~WriteThrough(b) /\ ~Read(b) /\ ~Decide(b) /\ ~PutFinal(b)
  <2>1. ASSUME NEW o, NEW by \in {"direct", "final"}, NEW outcome, Store(o, by, outcome)
        PROVE  FALSE
    <3>1. src'.by = by
      BY <2>1 DEF Store
    <3> QED BY <3>1, NodeNames
  <2> QED BY <2>1 DEF Arrive, WriteThrough, Read, Decide, PutFinal, storeVars
<1>3. \A n \in Node : ~WorkerTop(n) /\ ~WorkerLoops(n) /\ ~WorkerRetries(n) /\ ~Sweep(n)
  BY DEF WorkerTop, WorkerLoops, WorkerRetries, Sweep, storeVars
<1>4. /\ \A watched \in BOOLEAN, own \in Play \cup {Native} : ~ManualEdit(watched, own)
      /\ ~DeleteItem /\ ~Tick
  <2>1. "edit" \notin Node /\ "delete" \notin Node
    BY NodeNames
  <2> QED BY <2>1 DEF ManualEdit, DeleteItem, Tick, storeVars
<1> QED BY <1>1, <1>2, <1>3, <1>4 DEF Next, WorkerStep

\* What a node flushes or drains is the last beat it accepted: one that was replaced,
\* or overtaken by a direct commit on the node, never comes back.
THEOREM NewestIsFlushed == Spec => FlushIsNewest
<1>1. IInv /\ [Next]_vars
        => [src' # src /\ src'.by \in Node => src'.seq = newest[src'.by]]_vars
  <2> SUFFICES ASSUME IInv, Next, src' # src, src'.by \in Node
               PROVE  src'.seq = newest[src'.by]
    BY DEF vars, storeVars
  <2> QED BY NodeWrites DEF IInv, EntriesSound, Sound
<1> QED BY <1>1, Inv, PTL DEF Spec, FlushIsNewest

-----------------------------------------------------------------------------
(* Baselines.  What a queued beat is flushed against is the row its entry  *)
(* holds; the two findings are the only ways for it to change.             *)

\* put_final takes another row for the baseline of a beat it leaves queued.
MovesBaseline(b) ==
    /\ PutFinal(b)
    /\ LET n == req[b].node
       IN entry'[n].pending # None /\ entry'[n].committed # entry[n].committed

\* put_final takes a row that is not there for the baseline of a beat it leaves queued.
TakesMissingRow(b) ==
    /\ PutFinal(b)
    /\ LET n == req[b].node
       IN entry'[n].pending # None /\ entry'[n].committed = NoRow

\* A queued beat is to be flushed against the row it was queued behind.
Undisturbed ==
    \A n \in Node : entry[n].pending # None => entry[n].pending.base = entry[n].committed.at

\* A queued beat has a commit time, and with it a row (Sound).
Dated == \A n \in Node : entry[n].pending # None => entry[n].age # NoAge

\* The three ways a step leaves a beat queued on n.
Keeps(n) ==
    /\ entry'[n].pending = entry[n].pending /\ entry'[n].committed = entry[n].committed
    /\ entry[n].age # NoAge => entry'[n].age # NoAge

Queues(n) ==
    /\ entry'[n].committed = entry[n].committed
    /\ entry'[n].pending.base = entry[n].committed.at
    /\ entry'[n].age # NoAge

Readopts(b, n) ==
    /\ PutFinal(b) /\ n = req[b].node
    /\ entry'[n].pending = entry[n].pending /\ entry'[n].committed = row'
    /\ row' # NoRow => entry'[n].age # NoAge

LeavesQueued(n) ==
    \/ entry'[n].pending = None
    \/ Keeps(n)
    \/ Queues(n)
    \/ \E b \in Final : Readopts(b, n)

\* A step that changes one entry says nothing of the others.
LEMMA OtherBeats ==
    ASSUME Typed, NEW n \in Node, NEW m \in Node, m # n, NEW e,
           entry' = [entry EXCEPT ![n] = e]
    PROVE  Keeps(m)
BY DEF Typed, Keeps

LEMMA CommitEmpties ==
    ASSUME NEW e \in Entry
    PROVE  /\ AfterCommit(e).pending = None
           /\ [AfterCommit(e) EXCEPT !.retries = 0].pending = None
           /\ Superseded(e).pending = None
           /\ Adopt(e) = e \/ Adopt(e).pending = None
BY DEF Entry, AfterCommit, Superseded, Adopt

LEMMA RetryKeeps ==
    ASSUME Typed, NEW n \in Node, NEW m \in Node, Retry(n, entry[n].pending)
    PROVE  LeavesQueued(m)
<1>e. entry[n] \in Entry
  BY DEF Typed
<1> DEFINE e == [entry[n] EXCEPT !.pending = None, !.retries = @ + 1, !.running = FALSE]
           f == [entry[n] EXCEPT !.pending = entry[n].pending, !.retries = @ + 1]
<1>1. \/ entry' = [entry EXCEPT ![n] = e]
      \/ entry' = [entry EXCEPT ![n] = f]
  BY DEF Retry, Typed
<1>2. /\ e.pending = None
      /\ f.pending = entry[n].pending /\ f.committed = entry[n].committed
      /\ f.age = entry[n].age
  BY <1>e DEF Entry
<1> HIDE DEF e, f
<1>3. CASE m # n
  BY <1>1, <1>3, OtherBeats DEF LeavesQueued
<1>4. CASE m = n
  BY <1>1, <1>2, <1>4 DEF LeavesQueued, Keeps, Typed
<1> QED BY <1>3, <1>4

LEMMA DecideBeats ==
    ASSUME IInv, NEW b \in Beat, Decide(b), NEW m \in Node
    PROVE  LeavesQueued(m)
<1> DEFINE n == req[b].node
           o == Observed(b, entry[n].committed.at)
<1>0. Typed /\ req[b] \in Request /\ n \in Node
  BY RequestForms DEF IInv, Typed, Decide
<1>e. entry[n] \in Entry
  BY <1>0 DEF Typed
<1>o. o.base = entry[n].committed.at
  BY DEF Observed
<1>1. \/ UNCHANGED entry
      \/ entry' = [entry EXCEPT ![n] = AfterCommit(@)]
      \/ Queue(n, o) /\ entry[n].age \notin {NoAge, Window}
  BY DEF Decide
<1> HIDE DEF o
<1>2. CASE UNCHANGED entry
  BY <1>2 DEF LeavesQueued, Keeps
<1>3. CASE entry' = [entry EXCEPT ![n] = AfterCommit(@)]
  <2> DEFINE e == AfterCommit(entry[n])
  <2>1. entry' = [entry EXCEPT ![n] = e] /\ e.pending = None
    BY <1>0, <1>e, <1>3, CommitEmpties DEF Typed
  <2> HIDE DEF e, n
  <2>2. CASE m # n
    BY <1>0, <2>1, <2>2, OtherBeats DEF LeavesQueued
  <2>3. CASE m = n
    BY <1>0, <2>1, <2>3 DEF LeavesQueued, Typed
  <2> QED BY <2>2, <2>3
<1>4. CASE Queue(n, o) /\ entry[n].age \notin {NoAge, Window}
  <2> DEFINE e == [entry[n] EXCEPT !.pending = o, !.retries = 0, !.running = TRUE]
  <2>1. entry' = [entry EXCEPT ![n] = e]
    BY <1>0, <1>4 DEF Queue, Typed
  <2>2. e.pending = o /\ e.committed = entry[n].committed /\ e.age = entry[n].age
    BY <1>e DEF Entry
  <2> HIDE DEF e, n
  <2>3. CASE m # n
    BY <1>0, <2>1, <2>3, OtherBeats DEF LeavesQueued
  <2>4. CASE m = n
    <3>1. entry'[n] = e
      BY <1>0, <2>1 DEF Typed
    <3> QED BY <1>o, <1>4, <2>2, <2>4, <3>1 DEF LeavesQueued, Queues
  <2> QED BY <2>3, <2>4
<1> QED BY <1>1, <1>2, <1>3, <1>4

LEMMA FinalBeats ==
    ASSUME IInv, NEW b \in Beat, PutFinal(b), NEW m \in Node
    PROVE  LeavesQueued(m)
<1> DEFINE n == req[b].node
           o == Observed(b, now)
           e == IF entry[n].pending # None /\ entry[n].pending.play = o.play
                  THEN [entry[n] EXCEPT !.pending = None] ELSE entry[n]
           age == IF row' = NoRow THEN NoAge ELSE 0
           adopted == [e EXCEPT !.committed = row', !.retries = 0, !.age = age]
<1>0. Typed /\ req[b] \in Request /\ n \in Node /\ b \in Final
  BY RequestForms DEF IInv, Typed, PutFinal
<1>e. entry[n] \in Entry
  BY <1>0 DEF Typed
<1>1. \/ UNCHANGED entry
      \/ entry' = [entry EXCEPT ![n] = e]
      \/ entry' = [entry EXCEPT ![n] = adopted]
  BY DEF PutFinal
<1> HIDE DEF o
<1>2. /\ e.pending = None \/ e = entry[n]
      /\ adopted.pending = e.pending /\ adopted.committed = row' /\ adopted.age = age
  BY <1>e DEF Entry
<1>3. row' # NoRow => age # NoAge
  BY DEF NoAge
<1>4. CASE UNCHANGED entry
  BY <1>4 DEF LeavesQueued, Keeps
<1> HIDE DEF e, adopted, age
<1>5. CASE m # n
  BY <1>0, <1>1, <1>4, <1>5, OtherBeats DEF LeavesQueued
<1>6. CASE m = n /\ entry' = [entry EXCEPT ![n] = e]
  BY <1>0, <1>2, <1>6 DEF LeavesQueued, Keeps, Typed
<1>7. CASE m = n /\ entry' = [entry EXCEPT ![n] = adopted]
  <2>1. entry'[n] = adopted
    BY <1>0, <1>7 DEF Typed
  <2>2. CASE e.pending = None
    BY <1>2, <1>7, <2>1, <2>2 DEF LeavesQueued
  <2>3. CASE e = entry[n]
    <3>1. Readopts(b, m)
      BY <1>2, <1>3, <1>7, <2>1, <2>3 DEF Readopts
    <3> QED BY <1>0, <3>1 DEF LeavesQueued
  <2> QED BY <1>2, <2>2, <2>3
<1> QED BY <1>1, <1>4, <1>5, <1>6, <1>7

LEMMA WorkerBeats ==
    ASSUME IInv, NEW n \in Node, Flush(n) \/ Drain(n) \/ WorkerTop(n), NEW m \in Node
    PROVE  LeavesQueued(m)
<1>0. Typed /\ entry[n] \in Entry
  BY DEF IInv, Typed
<1>1. ASSUME NEW f, f.pending = None, entry' = [entry EXCEPT ![n] = f]
      PROVE  LeavesQueued(m)
  <2>1. CASE m # n
    BY <1>0, <1>1, <2>1, OtherBeats DEF LeavesQueued
  <2>2. CASE m = n
    BY <1>0, <1>1, <2>2 DEF LeavesQueued, Typed
  <2> QED BY <2>1, <2>2
<1>2. CASE UNCHANGED entry
  BY <1>2 DEF LeavesQueued, Keeps
<1>3. CASE Flush(n) /\ Retry(n, entry[n].pending)
  BY <1>0, <1>3, RetryKeeps
<1>4. CASE entry' = [entry EXCEPT ![n] = AfterCommit(@)]
  <2> DEFINE f == AfterCommit(entry[n])
  <2>1. entry' = [entry EXCEPT ![n] = f] /\ f.pending = None
    BY <1>0, <1>4, CommitEmpties DEF Typed
  <2> HIDE DEF f
  <2> QED BY <1>1, <2>1
<1>5. CASE entry' = [entry EXCEPT ![n] = [AfterCommit(@) EXCEPT !.retries = 0]]
  <2> DEFINE f == [AfterCommit(entry[n]) EXCEPT !.retries = 0]
  <2>1. entry' = [entry EXCEPT ![n] = f] /\ f.pending = None
    BY <1>0, <1>5, CommitEmpties DEF Typed
  <2> HIDE DEF f
  <2> QED BY <1>1, <2>1
<1>6. CASE entry' = [entry EXCEPT ![n] = Superseded(@)]
  <2> DEFINE f == Superseded(entry[n])
  <2>1. entry' = [entry EXCEPT ![n] = f] /\ f.pending = None
    BY <1>0, <1>6, CommitEmpties DEF Typed
  <2> HIDE DEF f
  <2> QED BY <1>1, <2>1
<1>7. CASE WorkerTop(n) /\ entry[n].pending = None
  <2> DEFINE f == Resting(entry[n])
  <2>1. entry' = [entry EXCEPT ![n] = f]
    BY <1>0, <1>7 DEF WorkerTop, Typed
  <2>2. f.pending = None
    BY <1>0, <1>7 DEF Resting, Entry
  <2> HIDE DEF f
  <2> QED BY <1>1, <2>1, <2>2
<1>8. CASE WorkerTop(n) /\ entry[n].pending # None
  BY <1>2, <1>8 DEF WorkerTop
<1>9. CASE Flush(n)
  BY <1>3, <1>5, <1>6, <1>9 DEF Flush
<1>10. CASE Drain(n)
  <2> DEFINE o == entry[n].pending
  <2>1. PICK outcome \in Outcomes(o, entry[n].committed) :
          \/ entry' = [entry EXCEPT ![n] = CASE outcome = "ok" -> AfterCommit(@)
                                             [] outcome = "none" -> Superseded(@)
                                             [] OTHER -> @]
          \/ UNCHANGED entry
    BY <1>10 DEF Drain
  <2>2. CASE outcome = "ok"
    BY <1>2, <1>4, <2>1, <2>2
  <2>3. CASE outcome = "none"
    BY <1>2, <1>6, <2>1, <2>3
  <2>4. CASE outcome \notin {"ok", "none"}
    <3>1. entry' = [entry EXCEPT ![n] = entry[n]] \/ UNCHANGED entry
      BY <2>1, <2>4
    <3> QED BY <1>0, <1>2, <3>1 DEF Typed
  <2> QED BY <2>2, <2>3, <2>4
<1> QED BY <1>7, <1>8, <1>9, <1>10

LEMMA OtherSteps ==
    ASSUME IInv, NEW m \in Node,
           \/ \E b \in Beat : WriteThrough(b) \/ Read(b)
           \/ \E b \in Beat, n \in Node, play \in Play \cup {Native}, pos \in Position :
                Arrive(b, n, play, pos)
           \/ \E n \in Node : WorkerLoops(n) \/ WorkerRetries(n) \/ Sweep(n)
           \/ \E watched \in BOOLEAN, own \in Play \cup {Native} : ManualEdit(watched, own)
           \/ DeleteItem \/ Tick \/ UNCHANGED vars
    PROVE  LeavesQueued(m)
<1>0. Typed /\ entry[m] \in Entry
  BY DEF IInv, Typed
<1>1. CASE UNCHANGED entry
  BY <1>1 DEF LeavesQueued, Keeps
<1>2. ASSUME NEW b \in Beat, Read(b)
      PROVE  LeavesQueued(m)
  <2> DEFINE n == req[b].node
             f == Adopt(entry[n])
  <2>1. req[b] \in Request /\ n \in Node
    BY <1>0, <1>2, RequestForms DEF Typed, Read
  <2>2. entry' = [entry EXCEPT ![n] = f] \/ UNCHANGED entry
    BY <1>0, <1>2 DEF Read, Typed
  <2>3. f = entry[n] \/ f.pending = None
    BY <1>0, <2>1, CommitEmpties DEF Typed
  <2> HIDE DEF f, n
  <2>4. CASE m # n
    BY <1>0, <1>1, <2>1, <2>2, <2>4, OtherBeats DEF LeavesQueued
  <2>5. CASE m = n
    BY <1>0, <1>1, <2>2, <2>3, <2>5 DEF LeavesQueued, Keeps, Typed
  <2> QED BY <2>4, <2>5
<1>3. ASSUME NEW n \in Node, Sweep(n)
      PROVE  LeavesQueued(m)
  <2>1. entry' = [entry EXCEPT ![n] = NewEntry]
    BY <1>3 DEF Sweep
  <2>2. CASE m # n
    BY <1>0, <2>1, <2>2, OtherBeats DEF LeavesQueued
  <2>3. CASE m = n
    BY <1>0, <2>1, <2>3 DEF LeavesQueued, Typed, NewEntry
  <2> QED BY <2>2, <2>3
<1>4. CASE Tick
  <2> DEFINE f == [entry[m] EXCEPT !.age = Longer(@)]
  <2>1. entry'[m] = f
    BY <1>4 DEF Tick
  <2>2. /\ f.pending = entry[m].pending /\ f.committed = entry[m].committed
        /\ f.age = Longer(entry[m].age)
    BY <1>0 DEF Entry
  <2>3. entry[m].age # NoAge => Longer(entry[m].age) # NoAge
    BY <1>0, Constants DEF Longer, NoAge, Entry
  <2> HIDE DEF f
  <2> QED BY <2>1, <2>2, <2>3 DEF LeavesQueued, Keeps
<1>5. CASE UNCHANGED vars
  BY <1>1, <1>5 DEF vars, nodeVars
<1>6. CASE DeleteItem \/ \E watched \in BOOLEAN, own \in Play \cup {Native} : ManualEdit(watched, own)
  BY <1>1, <1>6 DEF DeleteItem, ManualEdit, nodeVars
<1>7. CASE \/ \E b \in Beat : WriteThrough(b)
           \/ \E b \in Beat, n \in Node, play \in Play \cup {Native}, pos \in Position :
                Arrive(b, n, play, pos)
           \/ \E n \in Node : WorkerLoops(n) \/ WorkerRetries(n)
  BY <1>1, <1>7 DEF WriteThrough, Arrive, WorkerLoops, WorkerRetries, nodeVars
<1> QED BY <1>2, <1>3, <1>4, <1>5, <1>6, <1>7

\* What any step leaves queued it has kept, queued, or re-based by a forced final beat.
LEMMA BeatSteps ==
    ASSUME IInv, [Next]_vars, NEW m \in Node
    PROVE  LeavesQueued(m)
<1>1. CASE \E b \in Beat : Decide(b) \/ PutFinal(b)
  BY <1>1, DecideBeats, FinalBeats
<1>2. CASE \E n \in Node : Flush(n) \/ Drain(n) \/ WorkerTop(n)
  BY <1>2, WorkerBeats
<1>3. CASE \/ \E b \in Beat : WriteThrough(b) \/ Read(b)
           \/ \E b \in Beat, n \in Node, play \in Play \cup {Native}, pos \in Position :
                Arrive(b, n, play, pos)
           \/ \E n \in Node : WorkerLoops(n) \/ WorkerRetries(n) \/ Sweep(n)
           \/ \E watched \in BOOLEAN, own \in Play \cup {Native} : ManualEdit(watched, own)
           \/ DeleteItem \/ Tick \/ UNCHANGED vars
  BY <1>3, OtherSteps
<1> QED BY <1>1, <1>2, <1>3 DEF Next, WorkerStep

\* Only such a step leaves a beat queued without its commit time.
LEMMA DatedStays ==
    IInv /\ Dated /\ [Next]_vars /\ [\A b \in Final : ~TakesMissingRow(b)]_vars => Dated'
<1> SUFFICES ASSUME IInv, Dated, [Next]_vars,
                    [\A b \in Final : ~TakesMissingRow(b)]_vars,
                    NEW n \in Node, entry'[n].pending # None
             PROVE  entry'[n].age # NoAge
  BY DEF Dated
<1>1. Keeps(n) \/ Queues(n) \/ \E b \in Final : Readopts(b, n)
  BY BeatSteps DEF LeavesQueued
<1>2. CASE Keeps(n) \/ Queues(n)
  BY <1>2 DEF Keeps, Queues, Dated
<1>3. ASSUME NEW b \in Final, Readopts(b, n)
      PROVE  entry'[n].age # NoAge
  <2>1. CASE row' # NoRow
    BY <1>3, <2>1 DEF Readopts
  <2>2. CASE row' = NoRow
    <3>1. TakesMissingRow(b)
      BY <1>3, <2>2 DEF Readopts, TakesMissingRow
    <3>2. CASE UNCHANGED vars
      BY <3>2 DEF Dated, vars, nodeVars
    <3> QED BY <3>1, <3>2
  <2> QED BY <2>1, <2>2
<1> QED BY <1>1, <1>2, <1>3

LEMMA InitDated == Init => Dated
BY DEF Init, Dated, NewEntry

LEMMA BaselineOfDated == IInv /\ Dated => PendingHasBaseline
BY DEF IInv, EntriesSound, Sound, Dated, PendingHasBaseline

\* The second finding is the only one of its kind: a queued beat keeps the row and the
\* commit time it will be flushed against, with final beats and a deletion in any
\* order, unless put_final itself takes a row that is not there for the baseline of a
\* beat it leaves queued.
THEOREM BaselineIsKept ==
    Spec /\ [][\A b \in Final : ~TakesMissingRow(b)]_vars => []PendingHasBaseline
<1> QED BY InitDated, DatedStays, BaselineOfDated, Inv, PTL DEF Spec

\* Without deletion there is no such step: final beats alone, of any play and in any
\* order, leave every queued beat its row.
THEOREM BaselineOutlivesFinals ==
    ASSUME MayDelete = FALSE
    PROVE  Spec => []PendingHasBaseline
<1>1. IInv /\ Dated /\ [Next]_vars => [\A b \in Final : ~TakesMissingRow(b)]_vars
  <2> SUFFICES ASSUME IInv, IInv', Dated, Next, NEW b \in Final, TakesMissingRow(b)
               PROVE  FALSE
    BY Inductive
  <2> DEFINE n == req[b].node
  <2>1. /\ n \in Node /\ entry'[n].pending # None /\ entry'[n].committed = NoRow
        /\ PutFinal(b)
    BY RequestForms, ConstantAssumption DEF IInv, Typed, PutFinal, TakesMissingRow
  <2>2. \/ Keeps(n) \/ Queues(n)
        \/ entry'[n].pending = entry[n].pending /\ entry'[n].committed = row'
    BY <2>1, BeatSteps DEF LeavesQueued, Readopts
  <2> HIDE DEF n
  <2>3. entry'[n].age # NoAge => entry'[n].committed # NoRow
    BY <2>1 DEF IInv, EntriesSound, Sound
  <2>4. entry[n].pending # None => entry[n].committed # NoRow
    BY <2>1 DEF IInv, EntriesSound, Sound, Dated
  <2>5. entry[n].committed # NoRow => row # NoRow
    BY <2>1 DEF IInv, Rooted
  <2>6. row # NoRow => row' # NoRow
    <3>1. \A o : Progressed(o) # NoRow
      BY Constants DEF IInv, Typed, Progressed, NoRow
    <3>2. row' = row \/ \E o : row' = Progressed(o)
      BY <2>1 DEF PutFinal, Store
    <3> QED BY <3>1, <3>2
  <2> QED BY <2>1, <2>2, <2>3, <2>4, <2>5, <2>6 DEF Keeps, Queues
<1> QED BY <1>1, InitDated, DatedStays, BaselineOfDated, Inv, PTL DEF Spec

\* The first finding is the only one of its kind: a flush that finds an edit that
\* changed the row is of a later beat than the edit, or was queued behind a row of the
\* very second the edit fell in, in every behaviour in which put_final does not itself
\* take another row for the baseline of a beat it leaves queued.
THEOREM EditsAreKept ==
    Spec /\ [][\A b \in Final : ~MovesBaseline(b)]_vars => EditsStand
<1>1. Init => Undisturbed
  BY DEF Init, Undisturbed, NewEntry
<1>2. IInv /\ Undisturbed /\ [Next]_vars /\ [\A b \in Final : ~MovesBaseline(b)]_vars
        => Undisturbed'
  <2> SUFFICES ASSUME IInv, Undisturbed, [Next]_vars,
                      [\A b \in Final : ~MovesBaseline(b)]_vars,
                      NEW n \in Node, entry'[n].pending # None
               PROVE  entry'[n].pending.base = entry'[n].committed.at
    BY DEF Undisturbed
  <2>1. Keeps(n) \/ Queues(n) \/ \E b \in Final : Readopts(b, n)
    BY BeatSteps DEF LeavesQueued
  <2>2. CASE Keeps(n) \/ Queues(n)
    BY <2>2 DEF Keeps, Queues, Undisturbed
  <2>3. ASSUME NEW b \in Final, Readopts(b, n)
        PROVE  entry'[n].committed = entry[n].committed
    BY <2>3 DEF Readopts, MovesBaseline, vars, nodeVars
  <2> QED BY <2>1, <2>2, <2>3 DEF Readopts, Undisturbed
<1>3. IInv /\ Undisturbed /\ [Next]_vars
        => [ src' # src /\ src'.by \in Node /\ src.by = "edit" /\ src.changed
               => src'.seq > src.seq \/ src'.base = src.base ]_vars
  <2> SUFFICES ASSUME IInv, Undisturbed, Next,
                      src' # src, src'.by \in Node, src.by = "edit", src.changed
               PROVE  src'.base = src.base
    BY DEF vars, storeVars
  <2>1. row.at = src.base
    BY DEF IInv, Stamped
  <2>2. PICK n \in Node : /\ entry[n].pending # None /\ src'.base = entry[n].pending.base
                          /\ row = entry[n].committed
    BY NodeWrites
  <2> QED BY <2>1, <2>2 DEF Undisturbed
<1> QED BY <1>1, <1>2, <1>3, Inv, PTL DEF Spec, EditsStand

================================================================================
