------------------------- MODULE ScratchLedgerProofs -------------------------
(***************************************************************************)
(* For any sets of incarnations, objects, writers, walkers and readers and *)
(* any ceiling, grant and envelope: the ledger's figures keep their types, *)
(* what writes in flight have reserved stays inside the grant, a retired   *)
(* charge collapses onto exactly what is in the directory, what is on the  *)
(* disk is charged, and what all incarnations together have there or are   *)
(* authorised to put there stays within the ceiling.                       *)
(***************************************************************************)
EXTENDS ScratchLedger, FiniteSetTheorems, TLAPS

-----------------------------------------------------------------------------
(* Facts about the operators. *)

\* The maximum of two figures is one of them.
LEMMA MaxOfTwo ==
    ASSUME NEW a \in Int, NEW b \in Int
    PROVE  Max({a, b}) = IF a >= b THEN a ELSE b
BY DEF Max

\* An entry's fields have their types, and what is drawn from them does too.
LEMMA EntryFields ==
    ASSUME NEW e \in EntryType
    PROVE  /\ e.grant \in Nat /\ e.used \in Nat /\ e.written \in Nat
           /\ e.pending \in Nat /\ e.gen \in Nat
           /\ e.writers \in SUBSET Writer
           /\ Materialized(e) = e.used + e.written + e.pending
           /\ Materialized(e) \in Nat
           /\ GrantUnused(e) \in Nat
           /\ GrantUnused(e) > 0 => GrantUnused(e) = e.grant - Materialized(e)
<1>1. /\ e.grant \in Nat /\ e.used \in Nat /\ e.written \in Nat
      /\ e.pending \in Nat /\ e.gen \in Nat
      /\ e.writers \in SUBSET Writer
  BY DEF EntryType
<1>2. /\ Materialized(e) = e.used + e.written + e.pending
      /\ Materialized(e) \in Nat
  BY <1>1 DEF Materialized
<1>3. GrantUnused(e) = IF e.grant - Materialized(e) >= 0
                       THEN e.grant - Materialized(e) ELSE 0
  BY <1>1, <1>2, MaxOfTwo DEF GrantUnused
<1> QED
  BY <1>1, <1>2, <1>3

\* An entry keeps its type when its figures change to figures.
LEMMA EntryUpdates ==
    ASSUME NEW e \in EntryType, NEW n \in Nat, NEW m \in Nat, NEW g \in Nat,
           NEW W \in SUBSET Writer
    PROVE  /\ [e EXCEPT !.pending = n] \in EntryType
           /\ [e EXCEPT !.pending = n, !.written = m] \in EntryType
           /\ [e EXCEPT !.used = n, !.written = m] \in EntryType
           /\ [e EXCEPT !.grant = n] \in EntryType
           /\ [e EXCEPT !.writers = W, !.gen = n] \in EntryType
           /\ [e EXCEPT !.used = n, !.written = m, !.grant = g,
                        !.life = IF @ = "retiring" THEN "retained" ELSE @] \in EntryType
BY DEF EntryType

\* An entry not yet minted, or forgotten, is well typed.
LEMMA BlankTyped ==
    Blank \in EntryType /\ Forgotten \in EntryType
BY DEF Blank, Forgotten, EntryType

\* collect keeps an entry or forgets it.
LEMMA CollectedTyped ==
    ASSUME NEW e \in EntryType
    PROVE  /\ Collected(e) \in EntryType
           /\ Collected(e) = e \/ (Collected(e) = Forgotten /\ Releasable(e))
BY BlankTyped DEF Collected

\* A task, a walk, a conversion and a read are each in one of few forms.
LEMMA TaskForms ==
    ASSUME NEW t \in TaskType
    PROVE  /\ t.st \in {"idle", "ready", "ended", "growing", "grown", "authorized",
                         "written", "landed"}
           /\ t.st \in Holding => t.obj \in Object
           /\ t.st = "growing" => t.ask \in Nat
           /\ t.st = "idle" <=> t = Idle
           /\ t.st = "ready" <=> t = Ready
           /\ t.st = "ended" <=> t = Ended
BY DEF TaskType, Idle, Ready, Ended, Holding

\* What the writers' steps make is a task ...
LEMMA TaskMakers ==
    /\ Idle \in TaskType /\ Ready \in TaskType /\ Ended \in TaskType
    /\ Idle.st = "idle" /\ Ready.st = "ready" /\ Ended.st = "ended"
    /\ \A o \in Object :
         /\ \A n \in Nat : [st |-> "growing", obj |-> o, ask |-> n] \in TaskType
         /\ \A s \in {"grown", "authorized", "written", "landed"} :
              [st |-> s, obj |-> o] \in TaskType
BY DEF TaskType, Idle, Ready, Ended

\* A write goes on about the same object.
LEMMA TaskRenamed ==
    ASSUME NEW t \in TaskType, t.st \in {"authorized", "written"}
    PROVE  /\ [t EXCEPT !.st = "written"] \in TaskType
           /\ [t EXCEPT !.st = "landed"] \in TaskType
<1> DEFINE Onward == [st : {"grown", "authorized", "written", "landed"}, obj : Object]
<1>1. t \in Onward
  BY DEF TaskType, Idle, Ready, Ended
<1>2. [t EXCEPT !.st = "written"] \in Onward /\ [t EXCEPT !.st = "landed"] \in Onward
  BY <1>1
<1> QED
  BY <1>2 DEF TaskType

\* ... and so with a conversion ...
LEMMA ConvForms ==
    ASSUME NEW c \in ConvType
    PROVE  /\ c.st \in {"off", "inline", "retry", "walking", "seen"}
           /\ c.st \in {"retry", "walking", "seen"} => c.left \in Nat
           /\ c.st \in {"walking", "seen"} => c.gen \in Nat
           /\ c.st = "seen" => c.bytes \in Nat
           /\ c.st = "off" <=> c = NoConvert
BY DEF ConvType, NoConvert

\* ... and what the steps of one make.
LEMMA ConvMakers ==
    /\ NoConvert \in ConvType /\ NoConvert.st = "off"
    /\ [st |-> "inline"] \in ConvType
    /\ \A n \in Nat :
         /\ Retrying(n) \in ConvType /\ Retrying(n).st = "retry"
         /\ \A g \in Nat :
              /\ [st |-> "walking", left |-> n, gen |-> g] \in ConvType
              /\ \A b \in Nat :
                   [st |-> "seen", left |-> n, gen |-> g, bytes |-> b] \in ConvType
BY DEF ConvType, NoConvert, Retrying

\* A walk under way or over has its figures, and keeps its type when marked.
LEMMA WalkForms ==
    ASSUME NEW m \in WalkType
    PROVE  /\ m.st = "walking" => /\ m.before \in Nat /\ m.moved \in Nat
                                  /\ m.stale \in BOOLEAN
           /\ m.st = "walking" =>
                \A n \in Nat : [m EXCEPT !.moved = n] \in WalkType
           /\ m.st = "seen" => m.before \in Nat /\ m.bytes \in Nat /\ m.stale \in BOOLEAN
           /\ m = Idle \/ [m EXCEPT !.stale = TRUE] \in WalkType
<1> DEFINE Going == [st : {"walking"}, before : Nat, moved : Nat, stale : BOOLEAN]
           Over  == [st : {"seen"}, before : Nat, bytes : Nat, stale : BOOLEAN]
<1>0. Going \subseteq WalkType /\ Over \subseteq WalkType
  BY DEF WalkType
<1>1. CASE m = Idle
  BY <1>1 DEF Idle
<1>2. CASE m \in Going
  <2>1. /\ m.st = "walking" /\ m.before \in Nat /\ m.moved \in Nat /\ m.stale \in BOOLEAN
        /\ \A n \in Nat : [m EXCEPT !.moved = n] \in Going
        /\ [m EXCEPT !.stale = TRUE] \in Going
    BY <1>2
  <2> QED
    BY <1>0, <2>1
<1>3. CASE m \in Over
  <2>1. /\ m.st = "seen" /\ m.before \in Nat /\ m.bytes \in Nat /\ m.stale \in BOOLEAN
        /\ [m EXCEPT !.stale = TRUE] \in Over
    BY <1>3
  <2> QED
    BY <1>0, <2>1
<1> QED
  BY <1>1, <1>2, <1>3 DEF WalkType

\* What the steps of a refresh make is a walk.
LEMMA WalkMakers ==
    /\ Idle \in WalkType
    /\ \A n \in Nat, m \in Nat, x \in BOOLEAN :
         /\ [st |-> "walking", before |-> n, moved |-> m, stale |-> x] \in WalkType
         /\ [st |-> "seen", before |-> n, bytes |-> m, stale |-> x] \in WalkType
BY DEF WalkType

\* Marking every walk of a session overtaken keeps their types.
LEMMA OvertakenTyped ==
    ASSUME TypeOK, NEW k \in Key
    PROVE  Overtaken(k) \in [Walker -> WalkType]
BY WalkForms, WalkMakers DEF Overtaken, TypeOK

\* Entering an entry touches no other.
LEMMA Entering ==
    ASSUME entry \in [Key -> EntryType], NEW k \in Key, NEW e \in EntryType
    PROVE  /\ Enter(k, e) => /\ entry' \in [Key -> EntryType]
                             /\ entry'[k] = e
                             /\ \A j \in Key \ {k} : entry'[j] = entry[j]
           /\ Amend(k, e) => /\ entry' \in [Key -> EntryType]
                             /\ entry'[k] = IF Present(k) THEN e ELSE entry[k]
                             /\ \A j \in Key \ {k} : entry'[j] = entry[j]
BY DEF Enter, Amend

\* Setting a task touches no other.
LEMMA SettingTask ==
    ASSUME task \in [Key -> [Writer -> TaskType]],
           NEW k \in Key, NEW w \in Writer, NEW t \in TaskType, SetTask(k, w, t)
    PROVE  /\ task' \in [Key -> [Writer -> TaskType]]
           /\ task'[k][w] = t
           /\ \A v \in Writer \ {w} : task'[k][v] = task[k][v]
           /\ \A j \in Key \ {k} : task'[j] = task[j]
BY DEF SetTask

\* A directory has finitely many objects.
LEMMA LinkedFinite ==
    ASSUME NEW k
    PROVE  IsFiniteSet(Linked(k)) /\ Cardinality(Linked(k)) \in Nat
<1>1. Linked(k) \in SUBSET Object
  BY DEF Linked
<1> QED
  BY <1>1, ScratchAssumption, FS_Subset, FS_CardinalityType DEF ScratchAssumption

-----------------------------------------------------------------------------
(* Types. *)

\* Types hold initially ...
LEMMA InitTyped == Init => TypeOK
<1> SUFFICES ASSUME Init PROVE TypeOK
  OBVIOUS
<1> QED
  BY BlankTyped, TaskMakers, WalkMakers, ConvMakers
     DEF Init, TypeOK, StageType, ReadingType

\* What a conversion leaves is typed.
LEMMA ConvertedTyped ==
    ASSUME TypeOK, NEW k \in Key, NEW done, Converted(k, done),
           conv[k].st \in {"inline", "retry", "walking", "seen"},
           stage[k] # "converting" => conv[k].left \in Nat
    PROVE  conv' \in [Key -> ConvType] /\ stage' \in [Key -> StageType]
<1>1. stage' \in [Key -> StageType]
  BY DEF TypeOK, Converted, StageType
<1>2. ConversionAttempts \in Nat
  BY ScratchAssumption DEF ScratchAssumption
<1>3. stage[k] # "converting" /\ conv[k].left > 1 => conv[k].left - 1 \in Nat
  OBVIOUS
<1>4. (IF done THEN NoConvert
       ELSE IF stage[k] = "converting" THEN Retrying(ConversionAttempts)
       ELSE IF conv[k].left > 1 THEN Retrying(conv[k].left - 1)
       ELSE NoConvert) \in ConvType
  BY <1>2, <1>3, ConvMakers
<1>5. conv' \in [Key -> ConvType]
  BY <1>4 DEF TypeOK, Converted
<1> QED
  BY <1>1, <1>5

\* ... after reserve, bind_session and abandon ...
LEMMA AdmissionTyped ==
    ASSUME TypeOK, NEW k \in Key, Reserve(k) \/ Bind(k) \/ Abandon(k)
    PROVE  TypeOK'
<1>0. entry \in [Key -> EntryType] /\ entry[k] \in EntryType
  BY DEF TypeOK
<1>1. CASE Reserve(k)
  <2> DEFINE grant == IF Configured = 0 THEN 0 ELSE AdmissionGrant
             e == [Blank EXCEPT !.life = "provisional", !.grant = grant, !.gen = 1]
  <2>1. e \in EntryType
    BY ScratchAssumption DEF ScratchAssumption, Blank, EntryType
  <2>2. Enter(k, e)
    BY <1>1 DEF Reserve
  <2>3. entry' \in [Key -> EntryType]
    BY <1>0, <2>1, <2>2, Entering
  <2> QED
    BY <1>1, <2>3 DEF Reserve, TypeOK, StageType
<1>2. CASE Bind(k)
  <2>1. [entry[k] EXCEPT !.life = "producing"] \in EntryType
    BY <1>0 DEF EntryType
  <2>2. entry' \in [Key -> EntryType]
    BY <1>0, <1>2, <2>1, Entering DEF Bind
  <2> QED
    BY <1>2, <2>2 DEF Bind, TypeOK, StageType
<1>3. CASE Abandon(k)
  <2> DEFINE d == [entry[k] EXCEPT !.dropped = TRUE]
             e == IF /\ entry[k].life = "provisional"
                     /\ entry[k].writers = {}
                     /\ \A o \in Object : entry[k].pins[o] = {}
                  THEN Forgotten ELSE Collected(d)
  <2>1. d \in EntryType
    BY <1>0 DEF EntryType
  <2>2. e \in EntryType
    BY <2>1, BlankTyped, CollectedTyped
  <2>3. Amend(k, e)
    BY <1>3 DEF Abandon
  <2>4. entry' \in [Key -> EntryType]
    BY <1>0, <2>2, <2>3, Entering
  <2> QED
    BY <1>3, <2>4 DEF Abandon, TypeOK, StageType
<1> QED
  BY <1>1, <1>2, <1>3

\* ... after every section of a writer, from register_writer to finish_writer ...
LEMMA WritersTyped ==
    ASSUME TypeOK, NEW k \in Key, NEW w \in Writer,
           \/ RegisterWriter(k, w) \/ FinishWriter(k, w)
           \/ (\E o \in Object : AskWrite(k, w, o)) \/ Grow(k, w) \/ AskAgain(k, w)
           \/ Write(k, w) \/ Landed(k, w) \/ RenameObject(k, w) \/ Unlanded(k, w)
    PROVE  TypeOK'
<1>0. /\ entry \in [Key -> EntryType] /\ entry[k] \in EntryType
      /\ task \in [Key -> [Writer -> TaskType]] /\ task[k][w] \in TaskType
      /\ Reservation \in Nat /\ Headroom \in Nat
  BY ScratchAssumption DEF TypeOK, ScratchAssumption
<1>f. /\ entry[k].grant \in Nat /\ entry[k].written \in Nat /\ entry[k].pending \in Nat
      /\ entry[k].gen \in Nat /\ GrantUnused(entry[k]) \in Nat
  BY <1>0, EntryFields
<1>a. [entry[k] EXCEPT !.pending = @ + Reservation] \in EntryType
  <2>1. entry[k].pending + Reservation \in Nat
    BY <1>0, <1>f
  <2> QED
    BY <1>0, <2>1, EntryUpdates
<1>b. ASSUME NEW n \in Nat
      PROVE  [entry[k] EXCEPT !.pending = Max({@ - Reservation, 0}),
                              !.written = @ + n] \in EntryType
  <2>1. Max({entry[k].pending - Reservation, 0}) \in Nat
    BY <1>0, <1>f, MaxOfTwo
  <2>2. entry[k].written + n \in Nat
    BY <1>b, <1>f
  <2> QED
    BY <1>0, <2>1, <2>2, EntryUpdates
<1>c. ASSUME entry' \in [Key -> EntryType], task' \in [Key -> [Writer -> TaskType]],
             walk' = walk, file' = file,
             UNCHANGED <<stage, conv, reading, lost>>
      PROVE  TypeOK'
  BY <1>c DEF TypeOK
<1>1. CASE RegisterWriter(k, w)
  <2>1. [entry[k] EXCEPT !.writers = @ \cup {w}, !.gen = @ + 1] \in EntryType
    <3>1. entry[k].writers \cup {w} \in SUBSET Writer /\ entry[k].gen + 1 \in Nat
      BY <1>0, <1>f, EntryFields
    <3> QED
      BY <1>0, <3>1, EntryUpdates
  <2>2. entry' \in [Key -> EntryType] /\ task' \in [Key -> [Writer -> TaskType]]
    BY <1>0, <1>1, <2>1, Entering, SettingTask, TaskMakers DEF RegisterWriter
  <2> QED
    BY <1>1, <1>c, <2>2 DEF RegisterWriter
<1>2. CASE FinishWriter(k, w)
  <2> DEFINE d == [entry[k] EXCEPT !.writers = @ \ {w}, !.gen = @ + 1]
             e == IF d.writers = {} THEN Collected(d) ELSE d
  <2>1. d \in EntryType
    <3>1. entry[k].writers \ {w} \in SUBSET Writer /\ entry[k].gen + 1 \in Nat
      BY <1>0, <1>f, EntryFields
    <3> QED
      BY <1>0, <3>1, EntryUpdates
  <2>2. e \in EntryType
    BY <2>1, CollectedTyped
  <2>3. Amend(k, e)
    BY <1>2 DEF FinishWriter
  <2>4. entry' \in [Key -> EntryType]
    BY <1>0, <2>2, <2>3, Entering
  <2>5. task' \in [Key -> [Writer -> TaskType]]
    BY <1>0, <1>2, SettingTask, TaskMakers DEF FinishWriter
  <2> QED
    BY <1>2, <1>c, <2>4, <2>5 DEF FinishWriter
<1>3. CASE \E o \in Object : AskWrite(k, w, o)
  <2>o. PICK o \in Object : AskWrite(k, w, o)
    BY <1>3
  <2>1. CASE Authorized(k, w, o)
    <3>1. [st |-> "authorized", obj |-> o] \in TaskType
      BY TaskMakers
    <3>2. entry' \in [Key -> EntryType] /\ task' \in [Key -> [Writer -> TaskType]]
      BY <1>0, <1>a, <2>1, <3>1, Entering, SettingTask DEF Authorized
    <3> QED
      BY <2>o, <1>c, <3>2 DEF AskWrite
  <2>2. CASE ~(GrantUnused(entry[k]) >= Reservation)
    <3>1. Reservation - GrantUnused(entry[k]) + Headroom \in Nat
      BY <1>0, <1>f, <2>2
    <3>2. [ st |-> "growing", obj |-> o,
            ask |-> Reservation - GrantUnused(entry[k]) + Headroom ] \in TaskType
      BY <3>1, TaskMakers
    <3>3. task' \in [Key -> [Writer -> TaskType]] /\ entry' = entry
      BY <1>0, <2>o, <2>2, <3>2, SettingTask DEF AskWrite
    <3> QED
      BY <1>0, <2>o, <1>c, <3>3 DEF AskWrite
  <2> QED
    BY <2>o, <2>1, <2>2 DEF AskWrite
<1>4. CASE Grow(k, w)
  <2>1. task[k][w].st = "growing" /\ task[k][w].ask \in Nat /\ task[k][w].obj \in Object
    BY <1>0, <1>4, TaskForms DEF Grow, Holding
  <2>2. [entry[k] EXCEPT !.grant = @ + task[k][w].ask] \in EntryType
    <3>1. entry[k].grant + task[k][w].ask \in Nat
      BY <1>f, <2>1
    <3> QED
      BY <1>0, <3>1, EntryUpdates
  <2>3. [st |-> "grown", obj |-> task[k][w].obj] \in TaskType /\ Ready \in TaskType
    BY <2>1, TaskMakers
  <2>4. entry' \in [Key -> EntryType] /\ task' \in [Key -> [Writer -> TaskType]]
    BY <1>0, <1>4, <2>2, <2>3, Entering, SettingTask DEF Grow
  <2> QED
    BY <1>4, <1>c, <2>4 DEF Grow
<1>5. CASE AskAgain(k, w)
  <2>1. task[k][w].obj \in Object
    BY <1>0, <1>5, TaskForms DEF AskAgain, Holding
  <2>2. [st |-> "authorized", obj |-> task[k][w].obj] \in TaskType /\ Ready \in TaskType
    BY <2>1, TaskMakers
  <2>3. entry' \in [Key -> EntryType] /\ task' \in [Key -> [Writer -> TaskType]]
    BY <1>0, <1>5, <1>a, <2>2, Entering, SettingTask DEF AskAgain, Authorized
  <2> QED
    BY <1>5, <1>c, <2>3 DEF AskAgain
<1>6. CASE Write(k, w)
  <2>1. task[k][w].obj \in Object
    BY <1>0, <1>6, TaskForms DEF Write, Holding
  <2>2. [task[k][w] EXCEPT !.st = "written"] \in TaskType
    BY <1>0, <1>6, TaskRenamed DEF Write
  <2>3. task' \in [Key -> [Writer -> TaskType]]
    BY <1>0, <1>6, <2>2, SettingTask DEF Write
  <2>4. file' \in [Key -> [Object -> {"none", "linked", "removed"}]]
    <3>1. file \in [Key -> [Object -> {"none", "linked", "removed"}]]
      BY DEF TypeOK
    <3>2. CASE file' = [file EXCEPT ![k][task[k][w].obj] = "linked"]
      BY <2>1, <3>1, <3>2
    <3> QED
      BY <1>6, <3>1, <3>2 DEF Write
  <2> QED
    BY <1>6, <2>3, <2>4 DEF Write, TypeOK
<1>7. CASE Landed(k, w)
  <2>1. [task[k][w] EXCEPT !.st = "landed"] \in TaskType
    BY <1>0, <1>7, TaskRenamed DEF Landed
  <2>2. task' \in [Key -> [Writer -> TaskType]]
    BY <1>0, <1>7, <2>1, SettingTask, TaskMakers DEF Landed
  <2>3. entry' \in [Key -> EntryType]
    BY <1>0, <1>7, <1>b, Entering DEF Landed, Settled
  <2> QED
    BY <1>7, <1>c, <2>2, <2>3 DEF Landed
<1>8. CASE RenameObject(k, w)
  <2>1. task' \in [Key -> [Writer -> TaskType]]
    BY <1>0, <1>8, SettingTask, TaskMakers DEF RenameObject
  <2>2. ASSUME NEW v \in Walker, walk[k][v].st = "walking"
        PROVE  [walk[k][v] EXCEPT !.moved = @ + 1] \in WalkType
    <3>1. walk[k][v] \in WalkType
      BY DEF TypeOK
    <3>a. walk[k][v].moved \in Nat
      BY <2>2, <3>1, WalkForms
    <3>2. walk[k][v].moved + 1 \in Nat
      BY <3>a
    <3> QED
      BY <2>2, <3>1, <3>2, WalkForms
  <2>3. RenamedUnder(k) \in [Walker -> WalkType]
    BY <2>2 DEF RenamedUnder, TypeOK
  <2>4. walk' \in [Key -> [Walker -> WalkType]]
    BY <1>8, <2>3 DEF RenameObject, TypeOK
  <2> QED
    BY <1>8, <2>1, <2>4 DEF RenameObject, TypeOK
<1>9. CASE Unlanded(k, w)
  <2>1. task' \in [Key -> [Writer -> TaskType]]
    BY <1>0, <1>9, SettingTask, TaskMakers DEF Unlanded
  <2>2. entry' \in [Key -> EntryType]
    BY <1>0, <1>9, <1>b, Entering DEF Unlanded, Settled
  <2> QED
    BY <1>9, <1>c, <2>1, <2>2 DEF Unlanded
<1> QED
  BY <1>1, <1>2, <1>3, <1>4, <1>5, <1>6, <1>7, <1>8, <1>9

\* ... after the calls of a refresh ...
LEMMA WalksTyped ==
    ASSUME TypeOK, NEW k \in Key, NEW v \in Walker,
           \/ WalkBegin(k, v) \/ WalkSees(k, v) \/ WalkFails(k, v) \/ WalkObserves(k, v)
    PROVE  TypeOK'
<1>0. /\ entry \in [Key -> EntryType] /\ entry[k] \in EntryType
      /\ walk \in [Key -> [Walker -> WalkType]] /\ walk[k][v] \in WalkType
  BY DEF TypeOK
<1>f. /\ entry[k].grant \in Nat /\ entry[k].written \in Nat /\ entry[k].used \in Nat
      /\ Materialized(entry[k]) \in Nat
  BY <1>0, EntryFields
<1>1. CASE WalkBegin(k, v)
  <2>1. [ st |-> "walking", before |-> entry[k].written,
          moved |-> 0, stale |-> FALSE ] \in WalkType
    BY <1>f, WalkMakers
  <2>2. walk' \in [Key -> [Walker -> WalkType]]
    BY <1>0, <1>1, <2>1 DEF WalkBegin
  <2> QED
    BY <1>1, <2>2 DEF WalkBegin, TypeOK
<1>2. CASE WalkSees(k, v)
  <2> DEFINE there == Cardinality(Linked(k))
  <2>1. there \in Nat
    BY LinkedFinite
  <2>2. /\ walk[k][v].before \in Nat /\ walk[k][v].moved \in Nat
        /\ walk[k][v].stale \in BOOLEAN
    BY <1>0, <1>2, WalkForms DEF WalkSees
  <2>3. Max({there - walk[k][v].moved, 0}) \in Nat
    BY <2>1, <2>2, MaxOfTwo
  <2> HIDE DEF there
  <2>4. PICK bytes \in Max({there - walk[k][v].moved, 0}) .. there :
          walk' = [walk EXCEPT ![k][v] =
                     [ st |-> "seen", before |-> walk[k][v].before, bytes |-> bytes,
                       stale |-> walk[k][v].stale \/ bytes < there ]]
    BY <1>2 DEF WalkSees, there
  <2>5. bytes \in Nat
    BY <2>1, <2>3
  <2>6. [ st |-> "seen", before |-> walk[k][v].before, bytes |-> bytes,
          stale |-> walk[k][v].stale \/ bytes < there ] \in WalkType
    BY <2>2, <2>5, WalkMakers
  <2>7. walk' \in [Key -> [Walker -> WalkType]]
    BY <1>0, <2>4, <2>6
  <2> QED
    BY <1>2, <2>7 DEF WalkSees, TypeOK
<1>3. CASE WalkFails(k, v)
  BY <1>0, <1>3, WalkMakers DEF WalkFails, TypeOK
<1>4. CASE WalkObserves(k, v)
  <2>1. walk[k][v].before \in Nat /\ walk[k][v].bytes \in Nat
    BY <1>0, <1>4, WalkForms DEF WalkObserves
  <2>2. Max({entry[k].written - walk[k][v].before, 0}) \in Nat
    BY <1>f, <2>1, MaxOfTwo
  <2>3. Measured(k, walk[k][v]) \in EntryType
    BY <1>0, <2>1, <2>2, EntryUpdates DEF Measured
  <2>4. entry' \in [Key -> EntryType]
    BY <1>0, <1>4, <2>3, Entering DEF WalkObserves
  <2>5. [Overtaken(k) EXCEPT ![v] = Idle] \in [Walker -> WalkType]
    BY OvertakenTyped, WalkMakers
  <2>6. walk' \in [Key -> [Walker -> WalkType]]
    BY <1>0, <1>4, <2>5 DEF WalkObserves
  <2>7. lost' \in [Key -> {"never", "now", "healed"}]
    BY <1>4 DEF WalkObserves, TypeOK
  <2> QED
    BY <1>4, <2>4, <2>6, <2>7 DEF WalkObserves, TypeOK
<1> QED
  BY <1>1, <1>2, <1>3, <1>4

\* ... after flow control's regrant ...
LEMMA RegrantTyped ==
    ASSUME TypeOK, NEW k \in Key, Regrant(k)
    PROVE  TypeOK'
<1>0. entry \in [Key -> EntryType] /\ entry[k] \in EntryType
  BY DEF TypeOK
<1>f. entry[k].used \in Nat /\ Materialized(entry[k]) \in Nat
  BY <1>0, EntryFields
<1> DEFINE wanted == Max({entry[k].used + Envelope, Materialized(entry[k])})
<1>1. wanted \in Nat
  BY <1>f, MaxOfTwo, ScratchAssumption DEF ScratchAssumption
<1>2. [entry[k] EXCEPT !.grant = wanted] \in EntryType
  BY <1>0, <1>1, EntryUpdates
<1>3. Enter(k, [entry[k] EXCEPT !.grant = wanted])
  BY DEF Regrant
<1>4. entry' \in [Key -> EntryType]
  BY <1>0, <1>2, <1>3, Entering
<1> QED
  BY <1>4 DEF Regrant, TypeOK

\* ... and after a reader's open, pin and release.
LEMMA ReadersTyped ==
    ASSUME TypeOK, NEW k \in Key, NEW r \in Reader,
           (\E o \in Object : OpenObject(k, r, o)) \/ AcquirePin(k, r) \/ ReleasePin(k, r)
    PROVE  TypeOK'
<1>0. /\ entry \in [Key -> EntryType] /\ entry[k] \in EntryType
      /\ reading \in [Key -> [Reader -> ReadingType]] /\ reading[k][r] \in ReadingType
  BY DEF TypeOK
<1>a. /\ Idle \in ReadingType
      /\ \A p \in Object : [st |-> "opened", obj |-> p] \in ReadingType
                           /\ [st |-> "pinned", obj |-> p] \in ReadingType
  BY DEF ReadingType
<1>b. reading[k][r].st \in {"opened", "pinned"} => reading[k][r].obj \in Object
  BY <1>0 DEF ReadingType, Idle
<1>1. CASE \E o \in Object : OpenObject(k, r, o)
  <2>1. PICK o \in Object : OpenObject(k, r, o)
    BY <1>1
  <2>2. reading' \in [Key -> [Reader -> ReadingType]]
    BY <1>0, <1>a, <2>1 DEF OpenObject, SetReading
  <2> QED
    BY <2>1, <2>2 DEF OpenObject, TypeOK
<1>2. CASE AcquirePin(k, r)
  <2> DEFINE p == reading[k][r].obj
             e == [entry[k] EXCEPT !.pins[p] = @ \cup {r},
                                   !.linked[p] = IF entry[k].pins[p] = {}
                                                 THEN entry[k].life # "releasing" ELSE @]
  <2>1. p \in Object
    BY <1>2, <1>b DEF AcquirePin
  <2>2. e \in EntryType
    BY <1>0, <2>1 DEF EntryType
  <2>3. Amend(k, e)
    BY <1>2 DEF AcquirePin
  <2>4. entry' \in [Key -> EntryType]
    BY <1>0, <2>2, <2>3, Entering
  <2>5. reading' \in [Key -> [Reader -> ReadingType]]
    BY <1>0, <1>2, <1>a, <2>1 DEF AcquirePin, SetReading
  <2> QED
    BY <1>2, <2>4, <2>5 DEF AcquirePin, TypeOK
<1>3. CASE ReleasePin(k, r)
  <2> DEFINE p == reading[k][r].obj
             e == [entry[k] EXCEPT !.pins[p] = @ \ {r},
                                   !.linked[p] = @ \/ entry[k].pins[p] = {r}]
  <2>1. p \in Object
    BY <1>3, <1>b DEF ReleasePin
  <2>2. e \in EntryType
    BY <1>0, <2>1 DEF EntryType
  <2>3. Amend(k, Collected(e))
    BY <1>3 DEF ReleasePin
  <2>4. entry' \in [Key -> EntryType]
    BY <1>0, <2>2, <2>3, CollectedTyped, Entering
  <2>5. reading' \in [Key -> [Reader -> ReadingType]]
    BY <1>0, <1>3, <1>a DEF ReleasePin, SetReading
  <2> QED
    BY <1>3, <2>4, <2>5 DEF ReleasePin, TypeOK
<1> QED
  BY <1>1, <1>2, <1>3

-----------------------------------------------------------------------------
(* The invariant of one incarnation, over what it is made of: its entry e,  *)
(* stage s, tasks T and conversion c, and the n objects in its directory.   *)

WritersOf(T) == {w \in Writer : T[w].st \notin {"idle", "ended"}}

\* Those whose reservation is still drawn.
DrawnOf(T) == {w \in Writer : T[w].st \in {"authorized", "written"}}

\* The entry's books agree with the writers.
Booked(e, T) ==
    /\ e.life \in {"unminted", "gone"} => e \in {Blank, Forgotten}
    /\ e.writers = WritersOf(T)
    /\ e.pending = Reservation * Cardinality(DrawnOf(T))

\* What a conversion has read still holds while the generation does.
Stands(e, s, c, n) ==
    /\ s \notin {"done", "dropped"} => e.pending <= e.grant
    /\ e.life = "unminted" => s = "none"
    /\ e.life = "retiring" => s \in {"settling", "converting", "serving"}
    /\ s \in {"none", "starting", "live", "settling"} => c.st = "off"
    /\ c.st = "inline" => s = "converting"
    /\ c.st \in {"walking", "seen"} /\ e.life \notin {"unminted", "gone"} =>
         c.gen <= e.gen /\ (e.gen = c.gen => e.writers = {})
    /\ c.st = "seen" /\ e.life = "retiring" /\ e.gen = c.gen => c.bytes = n

Sound(k) ==
    /\ Booked(entry[k], task[k])
    /\ Stands(entry[k], stage[k], conv[k], Cardinality(Linked(k)))

\* The inductive invariant.
IInv == TypeOK /\ \A k \in Key : Sound(k)

\* The steps of retirement and cleanup keep the types; that an inline conversion
\* is made before anything else serves gives its attempts their number.
LEMMA RetirementTyped ==
    ASSUME TypeOK, NEW k \in Key, Sound(k),
           \/ BeginRetirement(k) \/ WritersSettle(k)
           \/ ConvertBegins(k) \/ ConvertSees(k) \/ ConvertCommits(k)
           \/ BeginRelease(k) \/ ClearDir(k) \/ RemoveDir(k) \/ AccountUnlinkAll(k)
    PROVE  TypeOK'
<1>0. /\ entry \in [Key -> EntryType] /\ entry[k] \in EntryType
      /\ conv \in [Key -> ConvType] /\ conv[k] \in ConvType
      /\ walk \in [Key -> [Walker -> WalkType]]
      /\ stage \in [Key -> StageType]
      /\ Overtaken(k) \in [Walker -> WalkType]
  BY OvertakenTyped DEF TypeOK
<1>f. entry[k].gen \in Nat /\ Cardinality(Linked(k)) \in Nat
  BY <1>0, EntryFields, LinkedFinite
<1>c. /\ conv[k].st = "inline" => stage[k] = "converting"
      /\ conv[k].st \in {"retry", "walking", "seen"} => conv[k].left \in Nat
      /\ conv[k].st \in {"walking", "seen"} => conv[k].gen \in Nat
      /\ conv[k].st = "seen" => conv[k].bytes \in Nat
  BY <1>0, ConvForms DEF Sound, Stands
<1>d. ASSUME NEW done, Converted(k, done),
             conv[k].st \in {"inline", "retry", "walking", "seen"}
      PROVE  conv' \in [Key -> ConvType] /\ stage' \in [Key -> StageType]
  BY <1>c, <1>d, ConvertedTyped
<1>1. CASE BeginRetirement(k)
  <2> DEFINE e == [entry[k] EXCEPT !.fenced = TRUE,
                                   !.life = IF @ \in {"provisional", "producing"}
                                            THEN "retiring" ELSE @]
  <2>1. e \in EntryType
    BY <1>0 DEF EntryType
  <2>2. Amend(k, e)
    BY <1>1 DEF BeginRetirement
  <2>3. entry' \in [Key -> EntryType]
    BY <1>0, <2>1, <2>2, Entering
  <2> QED
    BY <1>1, <2>3 DEF BeginRetirement, TypeOK, StageType
<1>2. CASE WritersSettle(k)
  <2>1. [st |-> "inline"] \in ConvType /\ Retrying(ConversionAttempts) \in ConvType
    BY ConvMakers, ScratchAssumption DEF ScratchAssumption
  <2>2. conv' \in [Key -> ConvType] /\ stage' \in [Key -> StageType]
    BY <1>0, <1>2, <2>1 DEF WritersSettle, StageType
  <2> QED
    BY <1>2, <2>2 DEF WritersSettle, TypeOK
<1>3. CASE ConvertBegins(k)
  <2>1. Left(k) \in Nat
    BY <1>3, <1>c DEF ConvertBegins, Left
  <2>2. [st |-> "walking", left |-> Left(k), gen |-> entry[k].gen] \in ConvType
    BY <1>f, <2>1, ConvMakers
  <2>3. conv' \in [Key -> ConvType] /\ stage' \in [Key -> StageType]
    <3>1. CASE Converted(k, ~Present(k))
      BY <1>3, <1>d, <3>1 DEF ConvertBegins
    <3>2. CASE /\ conv' = [conv EXCEPT ![k] =
                     [st |-> "walking", left |-> Left(k), gen |-> entry[k].gen]]
               /\ UNCHANGED stage
      BY <1>0, <2>2, <3>2
    <3> QED
      BY <1>3, <3>1, <3>2 DEF ConvertBegins
  <2> QED
    BY <1>3, <2>3 DEF ConvertBegins, TypeOK
<1>4. CASE ConvertSees(k)
  <2>1. [ st |-> "seen", left |-> conv[k].left, gen |-> conv[k].gen,
          bytes |-> Cardinality(Linked(k)) ] \in ConvType
    BY <1>4, <1>f, <1>c, ConvMakers DEF ConvertSees
  <2>2. conv' \in [Key -> ConvType] /\ stage' \in [Key -> StageType]
    <3>1. CASE Converted(k, FALSE)
      BY <1>4, <1>d, <3>1 DEF ConvertSees
    <3>2. CASE /\ conv' = [conv EXCEPT ![k] =
                     [ st |-> "seen", left |-> conv[k].left, gen |-> conv[k].gen,
                       bytes |-> Cardinality(Linked(k)) ]]
               /\ UNCHANGED stage
      BY <1>0, <2>1, <3>2
    <3> QED
      BY <1>4, <3>1, <3>2 DEF ConvertSees
  <2> QED
    BY <1>4, <2>2 DEF ConvertSees, TypeOK
<1>5. CASE ConvertCommits(k)
  <2> DEFINE ok == /\ Present(k) /\ entry[k].writers = {} /\ entry[k].gen = conv[k].gen
             e == [entry[k] EXCEPT !.used = conv[k].bytes, !.written = 0,
                                   !.grant = conv[k].bytes,
                                   !.life = IF @ = "retiring" THEN "retained" ELSE @]
  <2>1. conv' \in [Key -> ConvType] /\ stage' \in [Key -> StageType]
    BY <1>5, <1>d DEF ConvertCommits
  <2>2. conv[k].bytes \in Nat
    BY <1>5, <1>c DEF ConvertCommits
  <2>3. e \in EntryType
    BY <1>0, <2>2, EntryUpdates, EntryFields
  <2>4. /\ entry' \in [Key -> EntryType]
        /\ walk' \in [Key -> [Walker -> WalkType]]
        /\ lost' \in [Key -> {"never", "now", "healed"}]
    <3>1. CASE ok
      <4>1. /\ Enter(k, e) /\ walk' = [walk EXCEPT ![k] = Overtaken(k)]
            /\ lost' = [lost EXCEPT ![k] = IF @ = "now" THEN "healed" ELSE @]
        BY <1>5, <3>1 DEF ConvertCommits
      <4>2. entry' \in [Key -> EntryType]
        BY <1>0, <2>3, <4>1, Entering
      <4> QED
        BY <1>0, <4>1, <4>2 DEF TypeOK
    <3>2. CASE ~ok
      BY <1>5, <3>2 DEF ConvertCommits, TypeOK
    <3> QED
      BY <3>1, <3>2
  <2> QED
    BY <1>5, <2>1, <2>4 DEF ConvertCommits, TypeOK
<1>6. CASE BeginRelease(k)
  <2>1. [entry[k] EXCEPT !.fenced = TRUE, !.life = "releasing"] \in EntryType
    BY <1>0 DEF EntryType
  <2>2. entry' \in [Key -> EntryType]
    BY <1>0, <1>6, <2>1, Entering DEF BeginRelease
  <2> QED
    BY <1>6, <2>2 DEF BeginRelease, TypeOK, StageType
<1>7. CASE ClearDir(k)
  <2>1. file' \in [Key -> [Object -> {"none", "linked", "removed"}]]
    BY <1>7 DEF ClearDir, TypeOK
  <2> QED
    BY <1>7, <2>1 DEF ClearDir, TypeOK, StageType
<1>8. CASE RemoveDir(k)
  BY <1>8 DEF RemoveDir, TypeOK, StageType
<1>9. CASE AccountUnlinkAll(k)
  <2>1. Unlinked(entry[k]) \in EntryType
    BY <1>0 DEF Unlinked, EntryType
  <2>2. entry' \in [Key -> EntryType]
    BY <1>0, <1>9, <2>1, CollectedTyped, Entering DEF AccountUnlinkAll
  <2>3. walk' \in [Key -> [Walker -> WalkType]]
    BY <1>0, <1>9 DEF AccountUnlinkAll
  <2>4. lost' \in [Key -> {"never", "now", "healed"}]
    BY <1>9 DEF AccountUnlinkAll, TypeOK
  <2> QED
    BY <1>9, <2>2, <2>3, <2>4 DEF AccountUnlinkAll, TypeOK, StageType
<1> QED
  BY <1>1, <1>2, <1>3, <1>4, <1>5, <1>6, <1>7, <1>8, <1>9

-----------------------------------------------------------------------------
(* How the books and the standing of one incarnation change. *)

\* The same tasks but for one.
Elsewhere(T, U, w) == \A v \in Writer \ {w} : U[v] = T[v]

\* A reservation is never nothing, and reservations add up.
LEMMA ReservationCounted ==
    ASSUME NEW n \in Nat
    PROVE  /\ Reservation * n \in Nat
           /\ Reservation * (n + 1) = Reservation * n + Reservation
           /\ Reservation * n = 0 <=> n = 0
BY ScratchAssumption DEF ScratchAssumption

\* Drawn reservations are finitely many, and belong to registered writers.
LEMMA DrawnFinite ==
    ASSUME NEW T
    PROVE  /\ IsFiniteSet(DrawnOf(T)) /\ Cardinality(DrawnOf(T)) \in Nat
           /\ DrawnOf(T) \subseteq WritersOf(T)
           /\ Cardinality(DrawnOf(T)) = 0 <=> DrawnOf(T) = {}
<1>1. DrawnOf(T) \in SUBSET Writer
  BY DEF DrawnOf
<1>2. IsFiniteSet(DrawnOf(T))
  BY <1>1, ScratchAssumption, FS_Subset DEF ScratchAssumption
<1> QED
  BY <1>2, FS_CardinalityType, FS_EmptySet DEF DrawnOf, WritersOf

\* A task set anew enters or leaves the two sets with its state.
LEMMA SetsOf ==
    ASSUME NEW T, NEW U, NEW w \in Writer,
           Elsewhere(T, U, w)
    PROVE  /\ WritersOf(U) = IF U[w].st \notin {"idle", "ended"}
                             THEN WritersOf(T) \cup {w} ELSE WritersOf(T) \ {w}
           /\ DrawnOf(U) = IF U[w].st \in {"authorized", "written"}
                           THEN DrawnOf(T) \cup {w} ELSE DrawnOf(T) \ {w}
BY DEF WritersOf, DrawnOf, Elsewhere

\* A writer at work has not been forgotten.
LEMMA AtWork ==
    ASSUME NEW e \in EntryType, NEW T, Booked(e, T),
           NEW w \in Writer, T[w].st \notin {"idle", "ended"}
    PROVE  w \in e.writers /\ e.life \notin {"unminted", "gone"}
BY DEF Booked, WritersOf, Blank, Forgotten

\* No writer, no reservation.
LEMMA Quiet ==
    ASSUME NEW e \in EntryType, NEW T, Booked(e, T), e.writers = {}
    PROVE  e.pending = 0 /\ DrawnOf(T) = {}
<1>1. DrawnOf(T) = {} /\ Cardinality(DrawnOf(T)) = 0
  BY DrawnFinite DEF Booked
<1> QED
  BY <1>1, ReservationCounted DEF Booked

\* The books do not mind what else changes in an entry the ledger has.
LEMMA SameBooks ==
    ASSUME NEW e, NEW f, NEW T, NEW U, Booked(e, T),
           f.writers = e.writers, f.pending = e.pending,
           f.life \notin {"unminted", "gone"} \/ f = e,
           WritersOf(U) = WritersOf(T), DrawnOf(U) = DrawnOf(T)
    PROVE  Booked(f, U)
BY DEF Booked

\* Forgetting a collectable entry.
LEMMA CollectedSound ==
    ASSUME NEW e \in EntryType, NEW T, Booked(e, T),
           NEW s, NEW c, NEW n, Stands(e, s, c, n)
    PROVE  /\ Booked(Collected(e), T) /\ Stands(Collected(e), s, c, n)
           /\ Collected(e).life \in {e.life, "gone"}
<1>1. CASE Collected(e) = e
  BY <1>1
<1>2. CASE Collected(e) = Forgotten /\ Releasable(e)
  <2>1. e.writers = {}
    BY <1>2 DEF Releasable
  <2>2. e.pending = 0
    BY <2>1, Quiet
  <2>3. /\ Forgotten.life = "gone" /\ Forgotten.writers = {}
        /\ Forgotten.pending = 0 /\ Forgotten.grant = 0
    BY DEF Forgotten, Blank
  <2>4. Booked(Forgotten, T)
    BY <2>1, <2>2, <2>3 DEF Booked
  <2>5. Stands(Forgotten, s, c, n)
    BY <2>3 DEF Stands
  <2> QED
    BY <1>2, <2>3, <2>4, <2>5
<1> QED
  BY <1>1, <1>2, CollectedTyped

\* A reservation drawn inside the grant ...
LEMMA Drawing ==
    ASSUME NEW e \in EntryType, NEW T, Booked(e, T), NEW U, NEW w \in Writer,
           Elsewhere(T, U, w),
           T[w].st \in {"ready", "grown"}, U[w].st = "authorized",
           GrantUnused(e) >= Reservation
    PROVE  /\ Booked([e EXCEPT !.pending = @ + Reservation], U)
           /\ e.pending + Reservation <= e.grant
<1>0. /\ e.grant \in Nat /\ e.used \in Nat /\ e.written \in Nat /\ e.pending \in Nat
      /\ Materialized(e) = e.used + e.written + e.pending
      /\ Reservation \in Nat \ {0}
  BY EntryFields, ScratchAssumption DEF ScratchAssumption
<1>1. GrantUnused(e) = e.grant - Materialized(e)
  BY <1>0, EntryFields
<1>2. e.pending + Reservation <= e.grant
  BY <1>0, <1>1
<1>3. w \in WritersOf(T) /\ WritersOf(U) = WritersOf(T)
  BY SetsOf DEF WritersOf
<1>4. w \notin DrawnOf(T) /\ DrawnOf(U) = DrawnOf(T) \cup {w}
  BY SetsOf DEF DrawnOf
<1>5. Cardinality(DrawnOf(U)) = Cardinality(DrawnOf(T)) + 1
  BY <1>4, DrawnFinite, FS_AddElement
<1>6. Reservation * Cardinality(DrawnOf(U)) = e.pending + Reservation
  BY <1>5, DrawnFinite, ReservationCounted DEF Booked
<1> DEFINE f == [e EXCEPT !.pending = @ + Reservation]
<1>7. /\ f.pending = e.pending + Reservation /\ f.writers = e.writers
      /\ f.life = e.life
  BY DEF EntryType
<1>8. e.life \notin {"unminted", "gone"}
  BY AtWork
<1> HIDE DEF f
<1>9. Booked(f, U)
  BY <1>3, <1>6, <1>7, <1>8 DEF Booked
<1> QED
  BY <1>2, <1>9 DEF f

\* ... and settled, when its write is over or given up.
LEMMA Settling ==
    ASSUME NEW e \in EntryType, NEW T, Booked(e, T), NEW U, NEW w \in Writer,
           Elsewhere(T, U, w),
           T[w].st \in {"authorized", "written"}, U[w].st \in {"ready", "landed"},
           NEW f \in EntryType, f.writers = e.writers, f.life = e.life,
           f.pending = Max({e.pending - Reservation, 0})
    PROVE  Booked(f, U) /\ f.pending <= e.pending
<1>0. e.pending \in Nat /\ Reservation \in Nat \ {0}
  BY EntryFields, ScratchAssumption DEF ScratchAssumption
<1>1. w \in WritersOf(T) /\ WritersOf(U) = WritersOf(T)
  BY SetsOf DEF WritersOf
<1>2. w \in DrawnOf(T) /\ DrawnOf(U) = DrawnOf(T) \ {w}
  BY SetsOf DEF DrawnOf
<1>3. Cardinality(DrawnOf(U)) = Cardinality(DrawnOf(T)) - 1
  BY <1>2, DrawnFinite, FS_RemoveElement
<1>4. Cardinality(DrawnOf(T)) = Cardinality(DrawnOf(U)) + 1
  BY <1>3, DrawnFinite
<1>5. e.pending = Reservation * Cardinality(DrawnOf(U)) + Reservation
  BY <1>4, DrawnFinite, ReservationCounted DEF Booked
<1>6. Reservation * Cardinality(DrawnOf(U)) \in Nat
  BY DrawnFinite, ReservationCounted
<1>7. f.pending = Reservation * Cardinality(DrawnOf(U))
  BY <1>0, <1>5, <1>6, MaxOfTwo
<1>8. f.pending <= e.pending
  BY <1>0, <1>5, <1>6, <1>7
<1>9. e.life \notin {"unminted", "gone"}
  BY AtWork
<1> QED
  BY <1>1, <1>7, <1>8, <1>9 DEF Booked

-----------------------------------------------------------------------------
(* Each step keeps the invariant of its incarnation and leaves the others   *)
(* alone.                                                                   *)

Apart(k) ==
    \A j \in Key \ {k} :
      /\ entry'[j] = entry[j] /\ stage'[j] = stage[j] /\ task'[j] = task[j]
      /\ conv'[j] = conv[j] /\ file'[j] = file[j]

Collapses(k) == entry[k].life = "retiring" /\ entry'[k].life = "retained"

\* Admission: a new entry has no writer, a dropped one no reservation.
LEMMA AdmissionSound ==
    ASSUME TypeOK, NEW k \in Key, Sound(k), Reserve(k) \/ Bind(k) \/ Abandon(k)
    PROVE  Sound(k)' /\ Apart(k) /\ ~Collapses(k)
<1> DEFINE n == Cardinality(Linked(k))
<1>0. /\ entry \in [Key -> EntryType] /\ entry[k] \in EntryType
      /\ stage \in [Key -> StageType]
      /\ Booked(entry[k], task[k]) /\ Stands(entry[k], stage[k], conv[k], n)
  BY DEF TypeOK, Sound
<1>1. CASE Reserve(k)
  <2> DEFINE grant == IF Configured = 0 THEN 0 ELSE AdmissionGrant
             e == [Blank EXCEPT !.life = "provisional", !.grant = grant, !.gen = 1]
  <2>1. e \in EntryType
    BY ScratchAssumption DEF ScratchAssumption, Blank, EntryType
  <2>2. Enter(k, e) /\ stage'[k] = "starting"
        /\ \A j \in Key \ {k} : stage'[j] = stage[j]
    BY <1>0, <1>1 DEF Reserve
  <2>3. entry'[k] = e /\ \A j \in Key \ {k} : entry'[j] = entry[j]
    BY <1>0, <2>1, <2>2, Entering
  <2>a. Forgotten.life = "gone"
    BY DEF Forgotten, Blank
  <2>4. entry[k] = Blank
    BY <1>0, <1>1, <2>a DEF Reserve, Booked
  <2>5. /\ e.writers = Blank.writers /\ e.pending = Blank.pending
        /\ e.life = "provisional" /\ e.pending <= e.grant
    BY <2>1, ScratchAssumption DEF ScratchAssumption, Blank
  <2> HIDE DEF e
  <2>6. Booked(e, task[k])
    BY <1>0, <2>4, <2>5, SameBooks
  <2>7. stage[k] = "none" /\ conv[k].st = "off"
    BY <1>0, <1>1 DEF Reserve, Stands
  <2>8. Stands(e, "starting", conv[k], n)
    BY <2>5, <2>7 DEF Stands
  <2> QED
    BY <1>1, <2>2, <2>3, <2>5, <2>6, <2>8
       DEF Reserve, Sound, Linked, Apart, Collapses
<1>2. CASE Bind(k)
  <2> DEFINE e == [entry[k] EXCEPT !.life = "producing"]
  <2>1. /\ e \in EntryType /\ e.life = "producing" /\ e.writers = entry[k].writers
        /\ e.pending = entry[k].pending /\ e.grant = entry[k].grant
        /\ e.gen = entry[k].gen
    BY <1>0 DEF EntryType
  <2>2. Enter(k, e) /\ stage[k] = "starting" /\ stage'[k] = "live"
        /\ \A j \in Key \ {k} : stage'[j] = stage[j]
    BY <1>0, <1>2 DEF Bind
  <2>3. entry'[k] = e /\ \A j \in Key \ {k} : entry'[j] = entry[j]
    BY <1>0, <2>1, <2>2, Entering
  <2> HIDE DEF e
  <2>4. Booked(e, task[k])
    BY <1>0, <2>1, SameBooks
  <2>5. Stands(e, "live", conv[k], n)
    BY <1>0, <2>1, <2>2 DEF Stands
  <2> QED
    BY <1>2, <2>1, <2>2, <2>3, <2>4, <2>5 DEF Bind, Sound, Linked, Apart, Collapses
<1>3. CASE Abandon(k)
  <2> DEFINE d == [entry[k] EXCEPT !.dropped = TRUE]
             e == IF /\ entry[k].life = "provisional"
                     /\ entry[k].writers = {}
                     /\ \A o \in Object : entry[k].pins[o] = {}
                  THEN Forgotten ELSE Collected(d)
  <2>1. /\ d \in EntryType /\ d.life = entry[k].life /\ d.writers = entry[k].writers
        /\ d.pending = entry[k].pending /\ d.grant = entry[k].grant
        /\ d.gen = entry[k].gen
    BY <1>0 DEF EntryType
  <2>2. Amend(k, e) /\ stage'[k] = "dropped"
        /\ \A j \in Key \ {k} : stage'[j] = stage[j]
    BY <1>0, <1>3 DEF Abandon
  <2>3. e \in EntryType
    BY <2>1, BlankTyped, CollectedTyped
  <2>4. /\ entry'[k] = IF Present(k) THEN e ELSE entry[k]
        /\ \A j \in Key \ {k} : entry'[j] = entry[j]
    BY <1>0, <2>2, <2>3, Entering
  <2>5. conv[k].st = "off" /\ entry[k].life \notin {"unminted", "retiring"}
    BY <1>0, <1>3 DEF Abandon, Stands
  <2> HIDE DEF d
  <2>6. Present(k) => Booked(d, task[k]) /\ Stands(d, "dropped", conv[k], n)
    BY <1>0, <2>1, <2>5, SameBooks DEF Present, Stands
  <2>7. entry[k].writers = {} =>
          Booked(Forgotten, task[k]) /\ Stands(Forgotten, "dropped", conv[k], n)
    <3>1. /\ Forgotten.life = "gone" /\ Forgotten.writers = {}
          /\ Forgotten.pending = 0
      BY DEF Forgotten, Blank
    <3>2. entry[k].writers = {} => Booked(Forgotten, task[k])
      BY <1>0, <3>1, Quiet DEF Booked
    <3> QED
      BY <2>5, <3>1, <3>2 DEF Stands
  <2>8. Present(k) => Booked(e, task[k]) /\ Stands(e, "dropped", conv[k], n)
    BY <2>1, <2>6, <2>7, CollectedSound
  <2>9. ~Present(k) => Stands(entry[k], "dropped", conv[k], n)
    BY <1>0, <2>5 DEF Stands
  <2> HIDE DEF e
  <2> QED
    BY <1>0, <1>3, <2>2, <2>4, <2>5, <2>8, <2>9
       DEF Abandon, Sound, Linked, Apart, Collapses
<1> QED
  BY <1>1, <1>2, <1>3

\* What stands while a generation lasts, stands with other figures ...
LEMMA SameGeneration ==
    ASSUME NEW e, NEW f, NEW s, NEW c, NEW n, Stands(e, s, c, n),
           f.gen = e.gen, f.writers = e.writers, f.life = e.life,
           s \notin {"done", "dropped"} => f.pending <= f.grant
    PROVE  Stands(f, s, c, n)
BY DEF Stands

\* ... and in the next nothing read before does, nor while a writer is at work.
LEMMA NextGeneration ==
    ASSUME NEW e \in EntryType, NEW f, NEW s, NEW c \in ConvType, NEW n, NEW m,
           Stands(e, s, c, n), f.gen = e.gen + 1, f.life = e.life,
           f.pending = e.pending, f.grant = e.grant
    PROVE  Stands(f, s, c, m)
<1>1. e.gen \in Nat /\ (c.st \in {"walking", "seen"} => c.gen \in Nat)
  BY EntryFields, ConvForms
<1> QED
  BY <1>1 DEF Stands

\* While a writer is registered, what the directory holds may change.
LEMMA WhileWriting ==
    ASSUME NEW e, NEW s, NEW c, NEW n, NEW m, Stands(e, s, c, n),
           e.life \notin {"unminted", "gone"}, e.writers # {}
    PROVE  Stands(e, s, c, m)
BY DEF Stands

\* The writers' steps: the books follow the tasks; a registration or its end
\* starts a new generation, and only a registered writer changes the directory.
LEMMA WritersSound ==
    ASSUME TypeOK, NEW k \in Key, NEW w \in Writer, Sound(k),
           \/ RegisterWriter(k, w) \/ FinishWriter(k, w)
           \/ (\E o \in Object : AskWrite(k, w, o)) \/ Grow(k, w) \/ AskAgain(k, w)
           \/ Write(k, w) \/ Landed(k, w) \/ RenameObject(k, w) \/ Unlanded(k, w)
    PROVE  Sound(k)' /\ Apart(k) /\ ~Collapses(k)
<1> DEFINE n == Cardinality(Linked(k))
           e == entry[k]
           T == task[k]
           t == task[k][w]
<1>0. /\ entry \in [Key -> EntryType] /\ e \in EntryType
      /\ task \in [Key -> [Writer -> TaskType]] /\ t \in TaskType
      /\ conv[k] \in ConvType
      /\ Booked(e, T) /\ Stands(e, stage[k], conv[k], n)
  BY DEF TypeOK, Sound
<1>f. /\ e.grant \in Nat /\ e.written \in Nat /\ e.pending \in Nat /\ e.gen \in Nat
      /\ Reservation \in Nat \ {0} /\ Headroom \in Nat
  BY <1>0, EntryFields, ScratchAssumption DEF ScratchAssumption
\* While a task is at work the ledger has the entry.
<1>p. t.st \notin {"idle", "ended"} => Present(k) /\ w \in e.writers
  BY <1>0, AtWork DEF Present
\* It is enough that the new entry and tasks are sound.
<1>s. ASSUME NEW f \in EntryType, entry'[k] = f, f.life \in {e.life, "gone"},
             \A j \in Key \ {k} : entry'[j] = entry[j] /\ task'[j] = task[j],
             UNCHANGED <<stage, conv, file>>,
             Booked(f, task'[k]), Stands(f, stage[k], conv[k], n)
      PROVE  Sound(k)' /\ Apart(k) /\ ~Collapses(k)
  BY <1>s DEF Sound, Linked, Apart, Collapses
<1>t. ASSUME NEW u \in TaskType, SetTask(k, w, u),
             entry' = entry, UNCHANGED <<stage, conv, file>>,
             t.st \notin {"idle", "ended", "authorized", "written"},
             u.st \notin {"idle", "ended", "authorized", "written"}
      PROVE  Sound(k)' /\ Apart(k) /\ ~Collapses(k)
  <2>1. /\ task'[k][w] = u /\ Elsewhere(T, task'[k], w)
        /\ \A j \in Key \ {k} : task'[j] = task[j]
    BY <1>0, <1>t, SettingTask DEF Elsewhere
  <2>2. w \in WritersOf(T) /\ w \notin DrawnOf(T)
    BY <1>t DEF WritersOf, DrawnOf
  <2>3. WritersOf(task'[k]) = WritersOf(T) /\ DrawnOf(task'[k]) = DrawnOf(T)
    BY <1>t, <2>1, <2>2, SetsOf
  <2>4. Booked(e, task'[k])
    BY <1>0, <2>3, SameBooks
  <2> QED
    BY <1>0, <1>s, <1>t, <2>1, <2>4
<1>a. ASSUME NEW x \in Object, Authorized(k, w, x), UNCHANGED <<stage, conv, file>>,
             t.st \in {"ready", "grown"}, GrantUnused(e) >= Reservation
      PROVE  Sound(k)' /\ Apart(k) /\ ~Collapses(k)
  <2> DEFINE f == [e EXCEPT !.pending = @ + Reservation]
  <2>1. /\ f \in EntryType /\ f.gen = e.gen /\ f.writers = e.writers
        /\ f.life = e.life /\ f.grant = e.grant /\ f.pending = e.pending + Reservation
    <3>1. e.pending + Reservation \in Nat
      BY <1>f
    <3>2. f \in EntryType
      BY <1>0, <3>1, EntryUpdates
    <3> QED
      BY <1>0, <3>2 DEF EntryType
  <2>2. [st |-> "authorized", obj |-> x] \in TaskType
    BY TaskMakers
  <2>3. /\ task'[k][w] = [st |-> "authorized", obj |-> x]
        /\ Elsewhere(T, task'[k], w)
        /\ \A j \in Key \ {k} : task'[j] = task[j]
    BY <1>0, <1>a, <2>2, SettingTask DEF Elsewhere, Authorized
  <2>4. entry'[k] = f /\ \A j \in Key \ {k} : entry'[j] = entry[j]
    BY <1>0, <1>a, <2>1, Entering DEF Authorized
  <2>5. task'[k][w].st = "authorized"
    BY <2>3
  <2>6. Booked(f, task'[k]) /\ e.pending + Reservation <= e.grant
    BY <1>0, <1>a, <2>3, <2>5, Drawing
  <2> HIDE DEF f
  <2>7. Stands(f, stage[k], conv[k], n)
    BY <1>0, <2>1, <2>6, SameGeneration
  <2> QED
    BY <1>a, <1>s, <2>1, <2>3, <2>4, <2>6, <2>7
<1>b. ASSUME NEW x \in Nat, Settled(k, x), UNCHANGED <<stage, conv, file>>,
             t.st \in {"authorized", "written"},
             NEW u \in TaskType, u.st \in {"ready", "landed"}, SetTask(k, w, u)
      PROVE  Sound(k)' /\ Apart(k) /\ ~Collapses(k)
  <2> DEFINE f == [e EXCEPT !.pending = Max({@ - Reservation, 0}), !.written = @ + x]
  <2>1. /\ f \in EntryType /\ f.gen = e.gen /\ f.writers = e.writers
        /\ f.life = e.life /\ f.grant = e.grant
        /\ f.pending = Max({e.pending - Reservation, 0})
    <3>a. e.pending - Reservation \in Int
      BY <1>f
    <3>b. Max({e.pending - Reservation, 0}) =
             IF e.pending - Reservation >= 0 THEN e.pending - Reservation ELSE 0
      BY <3>a, MaxOfTwo
    <3>1. Max({e.pending - Reservation, 0}) \in Nat /\ e.written + x \in Nat
      BY <1>b, <1>f, <3>b
    <3>2. f \in EntryType
      BY <1>0, <3>1, EntryUpdates
    <3> QED
      BY <1>0, <3>2 DEF EntryType
  <2>3. /\ task'[k][w] = u /\ Elsewhere(T, task'[k], w)
        /\ \A j \in Key \ {k} : task'[j] = task[j]
    BY <1>0, <1>b, SettingTask DEF Elsewhere
  <2>4. entry'[k] = f /\ \A j \in Key \ {k} : entry'[j] = entry[j]
    BY <1>0, <1>b, <1>p, <2>1, Entering DEF Settled
  <2> HIDE DEF f
  <2>6. Booked(f, task'[k]) /\ f.pending <= e.pending
    BY <1>0, <1>b, <2>1, <2>3, Settling
  <2>a. f.pending \in Nat
    BY <2>1, EntryFields
  <2>7. Stands(f, stage[k], conv[k], n)
    <3>1. stage[k] \notin {"done", "dropped"} => e.pending <= e.grant
      BY <1>0 DEF Stands
    <3>2. stage[k] \notin {"done", "dropped"} => f.pending <= f.grant
      BY <1>f, <2>1, <2>6, <2>a, <3>1
    <3> QED
      BY <1>0, <2>1, <3>2, SameGeneration
  <2> QED
    BY <1>b, <1>s, <2>1, <2>3, <2>4, <2>6, <2>7
<1>1. CASE RegisterWriter(k, w)
  <2> DEFINE f == [e EXCEPT !.writers = @ \cup {w}, !.gen = @ + 1]
  <2>1. /\ f \in EntryType /\ f.gen = e.gen + 1 /\ f.writers = e.writers \cup {w}
        /\ f.life = e.life /\ f.grant = e.grant /\ f.pending = e.pending
    <3>1. e.writers \cup {w} \in SUBSET Writer /\ e.gen + 1 \in Nat
      BY <1>0, <1>f, EntryFields
    <3>2. f \in EntryType
      BY <1>0, <3>1, EntryUpdates
    <3> QED
      BY <1>0, <3>2 DEF EntryType
  <2>2. /\ task'[k][w] = Ready /\ Elsewhere(T, task'[k], w)
        /\ \A j \in Key \ {k} : task'[j] = task[j]
    BY <1>0, <1>1, SettingTask, TaskMakers DEF Elsewhere, RegisterWriter
  <2>3. entry'[k] = f /\ \A j \in Key \ {k} : entry'[j] = entry[j]
    BY <1>0, <1>1, <2>1, Entering DEF RegisterWriter
  <2>4. t.st = "idle" /\ task'[k][w].st = "ready"
    BY <1>1, <2>2, TaskMakers DEF RegisterWriter
  <2>5. /\ WritersOf(task'[k]) = WritersOf(T) \cup {w}
        /\ DrawnOf(task'[k]) = DrawnOf(T)
    <3>1. w \notin DrawnOf(T)
      BY <2>4 DEF DrawnOf
    <3>2. WritersOf(task'[k]) = WritersOf(T) \cup {w}
      BY <2>2, <2>4, SetsOf
    <3>3. DrawnOf(task'[k]) = DrawnOf(T) \ {w}
      BY <2>2, <2>4, SetsOf
    <3> QED
      BY <3>1, <3>2, <3>3
  <2> HIDE DEF f
  <2>6. Booked(f, task'[k])
    BY <1>0, <1>1, <2>1, <2>5 DEF RegisterWriter, Booked, Present
  <2>7. Stands(f, stage[k], conv[k], n)
    BY <1>0, <2>1, NextGeneration
  <2> QED
    BY <1>1, <1>s, <2>1, <2>2, <2>3, <2>6, <2>7 DEF RegisterWriter
<1>2. CASE FinishWriter(k, w)
  <2> DEFINE d == [e EXCEPT !.writers = @ \ {w}, !.gen = @ + 1]
             f == IF d.writers = {} THEN Collected(d) ELSE d
  <2>1. /\ d \in EntryType /\ d.gen = e.gen + 1 /\ d.writers = e.writers \ {w}
        /\ d.life = e.life /\ d.grant = e.grant /\ d.pending = e.pending
    <3>1. e.writers \ {w} \in SUBSET Writer /\ e.gen + 1 \in Nat
      BY <1>0, <1>f, EntryFields
    <3>2. d \in EntryType
      BY <1>0, <3>1, EntryUpdates
    <3> QED
      BY <1>0, <3>2 DEF EntryType
  <2>2. /\ task'[k][w] = Ended /\ Elsewhere(T, task'[k], w)
        /\ \A j \in Key \ {k} : task'[j] = task[j]
    BY <1>0, <1>2, SettingTask, TaskMakers DEF Elsewhere, FinishWriter
  <2>3. t.st = "ready" /\ task'[k][w].st = "ended"
    BY <1>2, <2>2, TaskMakers DEF FinishWriter
  <2>4. /\ WritersOf(task'[k]) = WritersOf(T) \ {w}
        /\ DrawnOf(task'[k]) = DrawnOf(T)
    <3>1. w \notin DrawnOf(T)
      BY <2>3 DEF DrawnOf
    <3>2. WritersOf(task'[k]) = WritersOf(T) \ {w}
      BY <2>2, <2>3, SetsOf
    <3>3. DrawnOf(task'[k]) = DrawnOf(T) \ {w}
      BY <2>2, <2>3, SetsOf
    <3> QED
      BY <3>1, <3>2, <3>3
  <2> HIDE DEF d
  <2>5. Booked(d, task'[k])
    BY <1>0, <1>p, <2>1, <2>3, <2>4 DEF Booked, Present
  <2>6. Stands(d, stage[k], conv[k], n)
    BY <1>0, <2>1, NextGeneration
  <2>7. /\ f \in EntryType /\ f.life \in {e.life, "gone"}
        /\ Booked(f, task'[k]) /\ Stands(f, stage[k], conv[k], n)
    BY <2>1, <2>5, <2>6, CollectedTyped, CollectedSound
  <2>8. Amend(k, f) /\ UNCHANGED <<stage, conv, file>>
    BY <1>2 DEF FinishWriter, d
  <2> HIDE DEF f
  <2>9. entry'[k] = f /\ \A j \in Key \ {k} : entry'[j] = entry[j]
    BY <1>0, <1>p, <2>3, <2>7, <2>8, Entering
  <2> QED
    BY <1>s, <2>2, <2>7, <2>8, <2>9
<1>3. CASE \E o \in Object : AskWrite(k, w, o)
  <2>o. PICK o \in Object : AskWrite(k, w, o)
    BY <1>3
  <2>1. t.st = "ready" /\ UNCHANGED <<stage, conv, file>>
    BY <2>o, TaskMakers DEF AskWrite
  <2>2. CASE GrantUnused(e) >= Reservation
    BY <2>o, <1>a, <2>1, <2>2 DEF AskWrite
  <2>3. CASE ~(GrantUnused(e) >= Reservation)
    <3> DEFINE u == [ st |-> "growing", obj |-> o,
                      ask |-> Reservation - GrantUnused(e) + Headroom ]
    <3>a. GrantUnused(e) \in Nat
      BY <1>0, EntryFields
    <3>1. Reservation - GrantUnused(e) + Headroom \in Nat
      BY <1>f, <2>3, <3>a
    <3>2. u \in TaskType /\ u.st = "growing"
      BY <3>1, TaskMakers
    <3>3. SetTask(k, w, u) /\ entry' = entry
      BY <2>o, <2>3 DEF AskWrite
    <3> HIDE DEF u
    <3> QED
      BY <1>t, <2>1, <3>2, <3>3
  <2> QED
    BY <2>2, <2>3
<1>4. CASE Grow(k, w)
  <2>1. /\ t.st = "growing" /\ t.ask \in Nat /\ t.obj \in Object
        /\ UNCHANGED <<stage, conv, file>>
    BY <1>0, <1>4, TaskForms DEF Grow, Holding
  <2> DEFINE f == [e EXCEPT !.grant = @ + t.ask]
             u == [st |-> "grown", obj |-> t.obj]
  <2>2. /\ f \in EntryType /\ f.gen = e.gen /\ f.writers = e.writers
        /\ f.life = e.life /\ f.grant = e.grant + t.ask /\ f.pending = e.pending
    <3>1. e.grant + t.ask \in Nat
      BY <1>f, <2>1
    <3>2. f \in EntryType
      BY <1>0, <3>1, EntryUpdates
    <3> QED
      BY <1>0, <3>2 DEF EntryType
  <2>3. u \in TaskType /\ u.st = "grown"
    BY <2>1, TaskMakers
  <2>4. CASE Enter(k, f) /\ SetTask(k, w, u)
    <3>1. entry'[k] = f /\ \A j \in Key \ {k} : entry'[j] = entry[j]
      BY <1>0, <2>2, <2>4, Entering
    <3> HIDE DEF f, u
    <3>2. /\ task'[k][w] = u /\ Elsewhere(T, task'[k], w)
          /\ \A j \in Key \ {k} : task'[j] = task[j]
      BY <1>0, <2>3, <2>4, SettingTask DEF Elsewhere
    <3>3. w \in WritersOf(T) /\ w \notin DrawnOf(T)
      BY <2>1 DEF WritersOf, DrawnOf
    <3>b. task'[k][w].st = "grown"
      BY <2>3, <3>2
    <3>4. WritersOf(task'[k]) = WritersOf(T) /\ DrawnOf(task'[k]) = DrawnOf(T)
      BY <3>2, <3>3, <3>b, SetsOf
    <3>5. Booked(f, task'[k])
      BY <1>0, <1>p, <2>1, <2>2, <3>4, SameBooks DEF Present
    <3>6. Stands(f, stage[k], conv[k], n)
      <4>1. stage[k] \notin {"done", "dropped"} => e.pending <= e.grant
        BY <1>0 DEF Stands
      <4>2. stage[k] \notin {"done", "dropped"} => f.pending <= f.grant
        BY <1>f, <2>1, <2>2, <4>1
      <4> QED
        BY <1>0, <2>2, <4>2, SameGeneration
    <3> QED
      BY <1>s, <2>1, <2>2, <3>1, <3>2, <3>5, <3>6
  <2>5. CASE SetTask(k, w, Ready) /\ entry' = entry
    BY <1>t, <2>1, <2>5, TaskMakers
  <2> QED
    BY <1>4, <2>4, <2>5 DEF Grow
<1>5. CASE AskAgain(k, w)
  <2>1. t.st = "grown" /\ t.obj \in Object /\ UNCHANGED <<stage, conv, file>>
    BY <1>0, <1>5, TaskForms DEF AskAgain, Holding
  <2>2. CASE SetTask(k, w, Ready) /\ entry' = entry
    BY <1>t, <2>1, <2>2, TaskMakers
  <2>3. CASE GrantUnused(e) >= Reservation /\ Authorized(k, w, t.obj)
    BY <1>a, <2>1, <2>3
  <2> QED
    BY <1>5, <2>2, <2>3 DEF AskAgain
<1>6. CASE Write(k, w)
  <2>1. t.st = "authorized" /\ t.obj \in Object
    BY <1>0, <1>6, TaskForms DEF Write, Holding
  <2> DEFINE u == [t EXCEPT !.st = "written"]
  <2>2. u \in TaskType
    BY <1>0, <2>1, TaskRenamed
  <2>3. u.st = "written"
    <3>1. t \in [st : {"grown", "authorized", "written", "landed"}, obj : Object]
      BY <1>0, <2>1 DEF TaskType, Idle, Ready, Ended
    <3> QED
      BY <3>1
  <2>4. SetTask(k, w, u) /\ entry' = entry /\ stage' = stage /\ conv' = conv
    BY <1>6 DEF Write
  <2>5. \A j \in Key \ {k} : file'[j] = file[j]
    <3>1. file \in [Key -> [Object -> {"none", "linked", "removed"}]]
      BY DEF TypeOK
    <3> QED
      BY <1>6, <2>1, <3>1 DEF Write
  <2> HIDE DEF u
  <2>6. /\ task'[k][w] = u /\ Elsewhere(T, task'[k], w)
        /\ \A j \in Key \ {k} : task'[j] = task[j]
    BY <1>0, <2>2, <2>4, SettingTask DEF Elsewhere
  <2>7. w \in WritersOf(T) /\ w \in DrawnOf(T)
    BY <2>1 DEF WritersOf, DrawnOf
  <2>8. WritersOf(task'[k]) = WritersOf(T) /\ DrawnOf(task'[k]) = DrawnOf(T)
    BY <2>3, <2>6, <2>7, SetsOf
  <2>9. Booked(e, task'[k])
    BY <1>0, <2>8, SameBooks
  <2>10. Stands(e, stage[k], conv[k], Cardinality(Linked(k)'))
    BY <1>0, <1>p, <2>1, WhileWriting DEF Present
  <2>11. Sound(k)'
    BY <2>4, <2>9, <2>10 DEF Sound
  <2> QED
    BY <2>4, <2>5, <2>6, <2>11 DEF Apart, Collapses
<1>7. CASE Landed(k, w)
  <2>1. [t EXCEPT !.st = "landed"] \in TaskType /\ [t EXCEPT !.st = "landed"].st = "landed"
    <3>1. t \in [st : {"grown", "authorized", "written", "landed"}, obj : Object]
      BY <1>0, <1>7 DEF Landed, TaskType, Idle, Ready, Ended
    <3> QED
      BY <1>0, <1>7, <3>1, TaskRenamed DEF Landed
  <2>2. PICK u \in {Ready, [t EXCEPT !.st = "landed"]} : SetTask(k, w, u)
    BY <1>7 DEF Landed
  <2>3. u \in TaskType /\ u.st \in {"ready", "landed"}
    BY <2>1, <2>2, TaskMakers
  <2> QED
    BY <1>7, <1>b, <2>2, <2>3 DEF Landed
<1>8. CASE RenameObject(k, w)
  BY <1>8, <1>t, TaskMakers DEF RenameObject
<1>9. CASE Unlanded(k, w)
  BY <1>9, <1>b, TaskMakers DEF Unlanded
<1> QED
  BY <1>1, <1>2, <1>3, <1>4, <1>5, <1>6, <1>7, <1>8, <1>9

\* A refresh replaces measured and landed figures only.
LEMMA WalksSound ==
    ASSUME TypeOK, NEW k \in Key, NEW v \in Walker, Sound(k),
           \/ WalkBegin(k, v) \/ WalkSees(k, v) \/ WalkFails(k, v) \/ WalkObserves(k, v)
    PROVE  Sound(k)' /\ Apart(k) /\ ~Collapses(k)
<1> DEFINE n == Cardinality(Linked(k))
           e == entry[k]
           m == walk[k][v]
<1>0. /\ entry \in [Key -> EntryType] /\ e \in EntryType
      /\ Booked(e, task[k]) /\ Stands(e, stage[k], conv[k], n)
  BY DEF TypeOK, Sound
<1>f. /\ e.grant \in Nat /\ e.written \in Nat /\ e.used \in Nat /\ e.pending \in Nat
      /\ Materialized(e) = e.used + e.written + e.pending /\ Materialized(e) \in Nat
  BY <1>0, EntryFields
<1>1. CASE WalkBegin(k, v) \/ WalkSees(k, v) \/ WalkFails(k, v)
  <2>1. UNCHANGED <<entry, stage, task, conv, file>>
    BY <1>1 DEF WalkBegin, WalkSees, WalkFails
  <2> QED
    BY <1>0, <2>1 DEF Sound, Linked, Apart, Collapses
<1>2. CASE WalkObserves(k, v)
  <2> DEFINE f == Measured(k, m)
  <2>m. m \in WalkType
    BY DEF TypeOK
  <2>1. m.before \in Nat /\ m.bytes \in Nat
    BY <1>2, <2>m, WalkForms DEF WalkObserves
  <2>a. e.written - m.before \in Int
    BY <1>f, <2>1
  <2>2. Max({e.written - m.before, 0}) \in Nat
    BY <2>a, MaxOfTwo
  <2>3. /\ f \in EntryType /\ f.gen = e.gen /\ f.writers = e.writers /\ f.life = e.life
        /\ f.grant = e.grant /\ f.pending = e.pending
    <3>1. f \in EntryType
      BY <1>0, <2>1, <2>2, EntryUpdates DEF Measured
    <3> QED
      BY <1>0, <3>1 DEF EntryType, Measured
  <2>4. Amend(k, f) /\ UNCHANGED <<stage, task, conv, file>>
    BY <1>2 DEF WalkObserves
  <2> HIDE DEF f
  <2>5. /\ entry'[k] = IF Present(k) THEN f ELSE e
        /\ \A j \in Key \ {k} : entry'[j] = entry[j]
    BY <1>0, <2>3, <2>4, Entering
  <2>6. Present(k) => Booked(f, task[k])
    BY <1>0, <2>3, SameBooks DEF Present
  <2>7. Stands(f, stage[k], conv[k], n)
    BY <1>0, <2>3 DEF Stands
  <2> QED
    BY <1>0, <2>3, <2>4, <2>5, <2>6, <2>7 DEF Sound, Linked, Apart, Collapses
<1> QED
  BY <1>1, <1>2

\* A regrant never pulls the grant below what is drawn.
LEMMA RegrantSound ==
    ASSUME TypeOK, NEW k \in Key, Sound(k), Regrant(k)
    PROVE  Sound(k)' /\ Apart(k) /\ ~Collapses(k)
<1> DEFINE n == Cardinality(Linked(k))
           e == entry[k]
<1>0. /\ entry \in [Key -> EntryType] /\ e \in EntryType
      /\ Booked(e, task[k]) /\ Stands(e, stage[k], conv[k], n)
  BY DEF TypeOK, Sound
<1>f. /\ e.used \in Nat /\ e.pending \in Nat /\ e.written \in Nat
      /\ Materialized(e) = e.used + e.written + e.pending /\ Materialized(e) \in Nat
  BY <1>0, EntryFields
<1> DEFINE wanted == Max({e.used + Envelope, Materialized(e)})
           f == [e EXCEPT !.grant = wanted]
<1>a. e.used + Envelope \in Nat
  BY <1>f, ScratchAssumption DEF ScratchAssumption
<1>1. wanted \in Nat /\ wanted >= Materialized(e)
  BY <1>f, <1>a, MaxOfTwo
<1>2. Enter(k, f) /\ Present(k) /\ UNCHANGED <<stage, task, conv, file>>
  BY DEF Regrant
<1> HIDE DEF wanted
<1>3. /\ f \in EntryType /\ f.gen = e.gen /\ f.writers = e.writers /\ f.life = e.life
      /\ f.grant = wanted /\ f.pending = e.pending
  <2>1. f \in EntryType
    BY <1>0, <1>1, EntryUpdates
  <2> QED
    BY <1>0, <2>1 DEF EntryType
<1> HIDE DEF f
<1>4. entry'[k] = f /\ \A j \in Key \ {k} : entry'[j] = entry[j]
  BY <1>0, <1>2, <1>3, Entering
<1>5. f.pending <= f.grant
  BY <1>f, <1>1, <1>3
<1>6. Booked(f, task[k])
  BY <1>0, <1>2, <1>3, SameBooks DEF Present
<1>7. Stands(f, stage[k], conv[k], n)
  BY <1>0, <1>3, <1>5, SameGeneration
<1> QED
  BY <1>2, <1>3, <1>4, <1>6, <1>7 DEF Sound, Linked, Apart, Collapses

\* Pins change no figure of the invariant; the last one may end the entry.
LEMMA ReadersSound ==
    ASSUME TypeOK, NEW k \in Key, NEW r \in Reader, Sound(k),
           (\E o \in Object : OpenObject(k, r, o)) \/ AcquirePin(k, r) \/ ReleasePin(k, r)
    PROVE  Sound(k)' /\ Apart(k) /\ ~Collapses(k)
<1> DEFINE n == Cardinality(Linked(k))
           e == entry[k]
           p == reading[k][r].obj
<1>0. /\ entry \in [Key -> EntryType] /\ e \in EntryType
      /\ Booked(e, task[k]) /\ Stands(e, stage[k], conv[k], n)
      /\ reading[k][r] \in ReadingType
  BY DEF TypeOK, Sound
<1>b. reading[k][r].st \in {"opened", "pinned"} => p \in Object
  BY <1>0 DEF ReadingType, Idle
<1>s. ASSUME NEW f \in EntryType, NEW g \in EntryType, Amend(k, g),
             UNCHANGED <<stage, task, conv, file>>,
             f.gen = e.gen, f.writers = e.writers, f.life = e.life,
             f.grant = e.grant, f.pending = e.pending, g \in {f, Collected(f)}
      PROVE  Sound(k)' /\ Apart(k) /\ ~Collapses(k)
  <2>1. /\ entry'[k] = IF Present(k) THEN g ELSE e
        /\ \A j \in Key \ {k} : entry'[j] = entry[j]
    BY <1>0, <1>s, Entering
  <2>2. Present(k) => Booked(f, task[k])
    BY <1>0, <1>s, SameBooks DEF Present
  <2>3. Stands(f, stage[k], conv[k], n)
    BY <1>0, <1>s DEF Stands
  <2>4. Present(k) => /\ Booked(g, task[k]) /\ Stands(g, stage[k], conv[k], n)
                      /\ g.life \in {e.life, "gone"}
    BY <1>s, <2>2, <2>3, CollectedSound
  <2> QED
    BY <1>0, <1>s, <2>1, <2>4 DEF Sound, Linked, Apart, Collapses
<1>1. CASE \E o \in Object : OpenObject(k, r, o)
  <2>1. UNCHANGED <<entry, stage, task, conv, file>>
    BY <1>1 DEF OpenObject
  <2> QED
    BY <1>0, <2>1 DEF Sound, Linked, Apart, Collapses
<1>2. CASE AcquirePin(k, r)
  <2> DEFINE f == [e EXCEPT !.pins[p] = @ \cup {r},
                            !.linked[p] = IF e.pins[p] = {}
                                          THEN e.life # "releasing" ELSE @]
  <2>1. p \in Object
    BY <1>2, <1>b DEF AcquirePin
  <2>2. f \in EntryType
    BY <1>0, <2>1 DEF EntryType
  <2>3. /\ f.gen = e.gen /\ f.writers = e.writers /\ f.life = e.life
        /\ f.grant = e.grant /\ f.pending = e.pending
    BY <1>0, <2>2 DEF EntryType
  <2>4. Amend(k, f) /\ UNCHANGED <<stage, task, conv, file>>
    BY <1>2 DEF AcquirePin
  <2> HIDE DEF f
  <2> QED
    BY <1>s, <2>2, <2>3, <2>4
<1>3. CASE ReleasePin(k, r)
  <2> DEFINE f == [e EXCEPT !.pins[p] = @ \ {r}, !.linked[p] = @ \/ e.pins[p] = {r}]
  <2>1. p \in Object
    BY <1>3, <1>b DEF ReleasePin
  <2>2. f \in EntryType
    BY <1>0, <2>1 DEF EntryType
  <2>3. /\ f.gen = e.gen /\ f.writers = e.writers /\ f.life = e.life
        /\ f.grant = e.grant /\ f.pending = e.pending
    BY <1>0, <2>2 DEF EntryType
  <2>4. Amend(k, Collected(f)) /\ UNCHANGED <<stage, task, conv, file>>
    BY <1>3 DEF ReleasePin
  <2> HIDE DEF f
  <2> QED
    BY <1>s, <2>2, <2>3, <2>4, CollectedTyped
<1> QED
  BY <1>1, <1>2, <1>3

\* Retirement, conversion and cleanup: the generation read before the walk of
\* the directory is the one the commit compares.
LEMMA RetirementSound ==
    ASSUME TypeOK, NEW k \in Key, Sound(k),
           \/ BeginRetirement(k) \/ WritersSettle(k)
           \/ ConvertBegins(k) \/ ConvertSees(k) \/ ConvertCommits(k)
           \/ BeginRelease(k) \/ ClearDir(k) \/ RemoveDir(k) \/ AccountUnlinkAll(k)
    PROVE  /\ Sound(k)' /\ Apart(k)
           /\ Collapses(k) => entry'[k].grant = Cardinality(Linked(k)) /\ Writing(k) = {}
<1> DEFINE n == Cardinality(Linked(k))
           e == entry[k]
           c == conv[k]
           s == stage[k]
<1>0. /\ entry \in [Key -> EntryType] /\ e \in EntryType
      /\ conv \in [Key -> ConvType] /\ c \in ConvType
      /\ stage \in [Key -> StageType] /\ s \in StageType
      /\ Booked(e, task[k]) /\ Stands(e, s, c, n)
  BY DEF TypeOK, Sound
<1>f. e.gen \in Nat /\ n \in Nat
  BY <1>0, EntryFields, LinkedFinite
\* It is enough that the new entry, stage and conversion are sound.
<1>s. ASSUME NEW f, entry'[k] = f, f.life = "retained" => e.life # "retiring",
             \A j \in Key \ {k} : /\ entry'[j] = entry[j] /\ stage'[j] = stage[j]
                                  /\ conv'[j] = conv[j],
             UNCHANGED <<task, file>>,
             Booked(f, task[k]), Stands(f, stage'[k], conv'[k], n)
      PROVE  /\ Sound(k)' /\ Apart(k)
             /\ Collapses(k) => entry'[k].grant = n /\ Writing(k) = {}
  BY <1>s DEF Sound, Linked, Apart, Collapses
\* How a conversion that ends leaves what stands.
<1>d. ASSUME NEW done, Converted(k, done), c.st # "off"
      PROVE  /\ s \notin {"none", "starting", "live", "settling"}
             /\ stage'[k] = IF s = "converting" THEN "serving" ELSE s
             /\ conv'[k].st \in {"off", "retry"}
             /\ \A j \in Key \ {k} : stage'[j] = stage[j] /\ conv'[j] = conv[j]
  <2>1. s \notin {"none", "starting", "live", "settling"}
    BY <1>0, <1>d DEF Stands
  <2>2. /\ stage'[k] = IF s = "converting" THEN "serving" ELSE s
        /\ \A j \in Key \ {k} : stage'[j] = stage[j] /\ conv'[j] = conv[j]
    BY <1>0, <1>d DEF Converted
  <2>3. /\ NoConvert.st = "off"
        /\ \A x : Retrying(x).st = "retry"
    BY DEF NoConvert, Retrying
  <2>4. conv'[k] = IF done THEN NoConvert
                   ELSE IF s = "converting" THEN Retrying(ConversionAttempts)
                   ELSE IF c.left > 1 THEN Retrying(c.left - 1)
                   ELSE NoConvert
    BY <1>0, <1>d DEF Converted
  <2>5. conv'[k].st \in {"off", "retry"}
    BY <2>3, <2>4
  <2> QED
    BY <2>1, <2>2, <2>5
\* An ended conversion leaves an entry standing that differs in nothing that counts.
<1>e. ASSUME NEW done, Converted(k, done), c.st # "off",
             UNCHANGED <<entry, task, file>>
      PROVE  /\ Sound(k)' /\ Apart(k)
             /\ Collapses(k) => entry'[k].grant = n /\ Writing(k) = {}
  <2>1. Stands(e, stage'[k], conv'[k], n)
    BY <1>0, <1>d, <1>e DEF Stands
  <2> QED
    BY <1>0, <1>d, <1>e, <1>s, <2>1
<1>1. CASE BeginRetirement(k)
  <2> DEFINE f == [e EXCEPT !.fenced = TRUE,
                            !.life = IF @ \in {"provisional", "producing"}
                                     THEN "retiring" ELSE @]
  <2>1. f \in EntryType
    BY <1>0 DEF EntryType
  <2>2. /\ f.gen = e.gen /\ f.writers = e.writers /\ f.grant = e.grant
        /\ f.pending = e.pending
        /\ f.life = IF e.life \in {"provisional", "producing"} THEN "retiring" ELSE e.life
    BY <1>0 DEF EntryType
  <2>3. /\ Amend(k, f) /\ s = "live" /\ stage'[k] = "settling"
        /\ \A j \in Key \ {k} : stage'[j] = stage[j]
        /\ UNCHANGED <<task, conv, file>>
    BY <1>0, <1>1 DEF BeginRetirement
  <2> HIDE DEF f
  <2>4. /\ entry'[k] = IF Present(k) THEN f ELSE e
        /\ \A j \in Key \ {k} : entry'[j] = entry[j]
    BY <1>0, <2>1, <2>3, Entering
  <2>5. Present(k) => Booked(f, task[k])
    BY <1>0, <2>2, SameBooks DEF Present
  <2>6. Stands(f, "settling", c, n) /\ Stands(e, "settling", c, n)
    BY <1>0, <2>2, <2>3 DEF Stands
  <2> QED
    BY <1>0, <1>s, <2>2, <2>3, <2>4, <2>5, <2>6
<1>2. CASE WritersSettle(k)
  <2>1. /\ s = "settling" /\ UNCHANGED <<entry, task, file>>
        /\ \A j \in Key \ {k} : stage'[j] = stage[j] /\ conv'[j] = conv[j]
        /\ \/ stage'[k] = "converting" /\ conv'[k].st = "inline"
           \/ stage'[k] = "serving" /\ conv'[k].st = "retry"
    BY <1>0, <1>2 DEF WritersSettle, Retrying
  <2>2. Stands(e, stage'[k], conv'[k], n)
    BY <1>0, <2>1 DEF Stands
  <2> QED
    BY <1>0, <1>s, <2>1, <2>2
<1>3. CASE ConvertBegins(k)
  <2>1. UNCHANGED <<entry, task, file>> /\ c.st \in {"inline", "retry"}
    BY <1>3 DEF ConvertBegins
  <2>2. CASE Converted(k, ~Present(k))
    BY <1>e, <2>1, <2>2
  <2>3. CASE /\ Present(k) /\ e.writers = {}
             /\ conv' = [conv EXCEPT ![k] =
                           [st |-> "walking", left |-> Left(k), gen |-> e.gen]]
             /\ UNCHANGED stage
    <3>1. /\ conv'[k].st = "walking" /\ conv'[k].gen = e.gen
          /\ \A j \in Key \ {k} : stage'[j] = stage[j] /\ conv'[j] = conv[j]
      BY <1>0, <2>3
    <3>2. Stands(e, s, conv'[k], n)
      BY <1>0, <1>f, <2>1, <2>3, <3>1 DEF Stands
    <3> QED
      BY <1>0, <1>s, <2>1, <2>3, <3>1, <3>2
  <2> QED
    BY <1>3, <2>2, <2>3 DEF ConvertBegins
<1>4. CASE ConvertSees(k)
  <2>1. UNCHANGED <<entry, task, file>> /\ c.st = "walking"
    BY <1>4 DEF ConvertSees
  <2>2. CASE Converted(k, FALSE)
    BY <1>e, <2>1, <2>2
  <2>3. CASE /\ conv' = [conv EXCEPT ![k] =
                     [ st |-> "seen", left |-> c.left, gen |-> c.gen, bytes |-> n ]]
             /\ UNCHANGED stage
    <3>1. /\ conv'[k].st = "seen" /\ conv'[k].gen = c.gen /\ conv'[k].bytes = n
          /\ \A j \in Key \ {k} : stage'[j] = stage[j] /\ conv'[j] = conv[j]
      BY <1>0, <2>3
    <3>2. Stands(e, s, conv'[k], n)
      BY <1>0, <2>1, <3>1 DEF Stands
    <3> QED
      BY <1>0, <1>s, <2>1, <2>3, <3>1, <3>2
  <2> QED
    BY <1>4, <2>2, <2>3 DEF ConvertSees
<1>5. CASE ConvertCommits(k)
  <2> DEFINE ok == Present(k) /\ e.writers = {} /\ e.gen = c.gen
             f == [e EXCEPT !.used = c.bytes, !.written = 0, !.grant = c.bytes,
                            !.life = IF @ = "retiring" THEN "retained" ELSE @]
  <2>1. c.st = "seen" /\ Converted(k, ok) /\ UNCHANGED <<task, file>>
    BY <1>5 DEF ConvertCommits
  <2>2. CASE ~ok
    <3>1. entry' = entry
      BY <1>5, <2>2 DEF ConvertCommits
    <3> HIDE DEF ok
    <3> QED
      BY <1>e, <2>1, <3>1
  <2>3. CASE ok
    <3>1. c.bytes \in Nat
      BY <1>0, <2>1, ConvForms
    <3>2. f \in EntryType
      BY <1>0, <3>1, EntryUpdates, EntryFields
    <3>3. /\ f.gen = e.gen /\ f.writers = e.writers /\ f.grant = c.bytes
          /\ f.pending = e.pending
          /\ f.life = IF e.life = "retiring" THEN "retained" ELSE e.life
      BY <1>0, <3>2 DEF EntryType
    <3>4. Enter(k, f)
      BY <1>5, <2>3 DEF ConvertCommits
    <3> HIDE DEF f
    <3>5. entry'[k] = f /\ \A j \in Key \ {k} : entry'[j] = entry[j]
      BY <1>0, <3>2, <3>4, Entering
    <3>6. Booked(f, task[k])
      BY <1>0, <2>3, <3>3, SameBooks DEF Present
    <3>7. f.pending = 0
      BY <1>0, <2>3, <3>3, Quiet
    <3>8. f.pending <= f.grant
      BY <3>1, <3>3, <3>7
    <3> HIDE DEF ok
    <3>9. /\ s \notin {"none", "starting", "live", "settling"}
          /\ stage'[k] = IF s = "converting" THEN "serving" ELSE s
          /\ conv'[k].st \in {"off", "retry"}
          /\ \A j \in Key \ {k} : stage'[j] = stage[j] /\ conv'[j] = conv[j]
      BY <1>d, <2>1
    <3>10. Stands(f, stage'[k], conv'[k], n)
      BY <1>0, <3>3, <3>8, <3>9 DEF Stands
    <3>11. Sound(k)' /\ Apart(k)
      BY <2>1, <3>5, <3>6, <3>9, <3>10 DEF Sound, Linked, Apart
    <3>12. Collapses(k) => entry'[k].grant = n
      BY <1>0, <2>1, <2>3, <3>3, <3>5 DEF Collapses, Stands, ok
    <3>13. Writing(k) = {}
      BY <1>0, <2>3 DEF Booked, WritersOf, Writing, ok
    <3> QED
      BY <3>11, <3>12, <3>13
  <2> QED
    BY <2>2, <2>3
<1>6. CASE BeginRelease(k)
  <2> DEFINE f == [e EXCEPT !.fenced = TRUE, !.life = "releasing"]
  <2>1. f \in EntryType
    BY <1>0 DEF EntryType
  <2>2. /\ f.gen = e.gen /\ f.writers = e.writers /\ f.grant = e.grant
        /\ f.pending = e.pending /\ f.life = "releasing"
    BY <1>0 DEF EntryType
  <2>3. /\ Amend(k, f) /\ s \in {"serving", "live"} /\ stage'[k] = "releasing"
        /\ \A j \in Key \ {k} : stage'[j] = stage[j]
        /\ UNCHANGED <<task, conv, file>>
    BY <1>0, <1>6 DEF BeginRelease
  <2> HIDE DEF f
  <2>4. /\ entry'[k] = IF Present(k) THEN f ELSE e
        /\ \A j \in Key \ {k} : entry'[j] = entry[j]
    BY <1>0, <2>1, <2>3, Entering
  <2>5. Present(k) => Booked(f, task[k])
    BY <1>0, <2>2, SameBooks DEF Present
  <2>6. Present(k) => Stands(f, "releasing", c, n)
    BY <1>0, <2>2, <2>3 DEF Stands, Present
  <2>7. ~Present(k) => Stands(e, "releasing", c, n)
    BY <1>0, <2>3 DEF Stands, Present
  <2> QED
    BY <1>0, <1>s, <2>2, <2>3, <2>4, <2>5, <2>6, <2>7 DEF Present
<1>7. CASE ClearDir(k)
  <2>1. /\ s = "releasing" /\ stage'[k] = "cleared"
        /\ \A j \in Key \ {k} : stage'[j] = stage[j] /\ file'[j] = file[j]
        /\ UNCHANGED <<entry, task, conv>>
    BY <1>0, <1>7 DEF ClearDir, TypeOK
  <2>2. Stands(e, "cleared", c, Cardinality(Linked(k)'))
    BY <1>0, <2>1 DEF Stands
  <2> QED
    BY <1>0, <2>1, <2>2 DEF Sound, Apart, Collapses
<1>8. CASE RemoveDir(k)
  <2>1. /\ s = "cleared" /\ stage'[k] \in {"removed", "releasing"}
        /\ \A j \in Key \ {k} : stage'[j] = stage[j]
        /\ UNCHANGED <<entry, task, conv, file>>
    BY <1>0, <1>8 DEF RemoveDir
  <2>2. Stands(e, stage'[k], c, n)
    BY <1>0, <2>1 DEF Stands
  <2> QED
    BY <1>0, <1>s, <2>1, <2>2
<1>9. CASE AccountUnlinkAll(k)
  <2> DEFINE f == Unlinked(e)
  <2>1. f \in EntryType
    BY <1>0 DEF Unlinked, EntryType
  <2>2. /\ f.gen = e.gen /\ f.writers = e.writers /\ f.pending = e.pending
        /\ f.life = "releasing"
    BY <1>0 DEF EntryType, Unlinked
  <2>3. /\ Amend(k, Collected(f)) /\ s = "removed" /\ stage'[k] = "done"
        /\ \A j \in Key \ {k} : stage'[j] = stage[j]
        /\ UNCHANGED <<task, conv, file>>
    BY <1>0, <1>9 DEF AccountUnlinkAll
  <2> HIDE DEF f
  <2>4. /\ entry'[k] = IF Present(k) THEN Collected(f) ELSE e
        /\ \A j \in Key \ {k} : entry'[j] = entry[j]
    BY <1>0, <2>1, <2>3, CollectedTyped, Entering
  <2>5. Present(k) => Booked(f, task[k])
    BY <1>0, <2>2, SameBooks DEF Present
  <2>6. Present(k) => Stands(f, "done", c, n)
    BY <1>0, <2>2, <2>3 DEF Stands, Present
  <2>7. Present(k) => /\ Booked(Collected(f), task[k])
                      /\ Stands(Collected(f), "done", c, n)
                      /\ Collected(f).life \in {"releasing", "gone"}
    BY <2>1, <2>2, <2>5, <2>6, CollectedSound
  <2>8. ~Present(k) => Stands(e, "done", c, n)
    BY <1>0, <2>3 DEF Stands, Present
  <2> QED
    BY <1>0, <1>s, <2>3, <2>4, <2>7, <2>8 DEF Present
<1> QED
  BY <1>1, <1>2, <1>3, <1>4, <1>5, <1>6, <1>7, <1>8, <1>9

-----------------------------------------------------------------------------
(* The disk and its charge: the part of the invariant DiskIsCharged rests    *)
(* on, over an incarnation's entry e, stage s, belief l, files F, tasks T,   *)
(* walks W, conversion c and reads R.                                        *)

LinkedIn(F) == {o \in Object : F[o] = "linked"}

\* Those that have been charged: their write is settled.
LandedIn(F, T) ==
    {o \in Object : F[o] = "linked"
                      /\ \A w \in Writer : T[w].st = "written" => T[w].obj # o}

Known(e) == e.life \notin {"unminted", "gone"}

\* Landed objects are measured or counted as written, unless the walk believed
\* last was a bad one; a walk that may still be believed has missed none but those
\* written since it began.
Measures(e, l, W, n) ==
    /\ l # "now" => n <= e.used + e.written
    /\ Known(e) =>
         \A v \in Walker :
           W[v].st # "idle" /\ ~W[v].stale =>
             /\ W[v].before <= e.written
             /\ W[v].st = "seen" => n + W[v].before <= W[v].bytes + e.written

\* What is granted, or about to be committed, is not less than what is there.
Retains(e, c, L) ==
    /\ e.grant = 0 => L = {}
    /\ e.life \in {"retiring", "retained"} => e.fenced
    /\ e.life = "retained" => e.writers = {} /\ Cardinality(L) <= e.grant
    /\ c.st = "seen" /\ e.gen = c.gen => Cardinality(L) <= c.bytes

\* What there is at either end of an incarnation's life.
Staged(e, s, L, W, R) ==
    /\ s \in {"none", "starting", "removed", "done", "dropped"} => L = {}
    /\ s \in {"none", "starting"} => e.writers = {} /\ \A v \in Walker : W[v] = Idle
    /\ s \in {"none", "starting", "dropped"} => \A r \in Reader : R[r] = Idle
    /\ s = "done" /\ Known(e) =>
         e.life = "releasing" /\ \A o \in Object : e.pins[o] # {} => ~e.linked[o]

\* A read holds a pin of its own in an entry the ledger has.
Pins(e, R) ==
    \A r \in Reader : R[r].st = "pinned" => Known(e) /\ r \in e.pins[R[r].obj]

Charged(e, s, l, F, T, W, c, R) ==
    /\ Measures(e, l, W, Cardinality(LandedIn(F, T)))
    /\ Retains(e, c, LinkedIn(F))
    /\ Staged(e, s, LinkedIn(F), W, R)
    /\ Pins(e, R)

ChargedAt(k) ==
    Charged(entry[k], stage[k], lost[k], file[k], task[k], walk[k], conv[k], reading[k])

\* Sets of objects are finite, and none has more than one it is part of.
LEMMA Objects ==
    ASSUME NEW A \in SUBSET Object, NEW B \in SUBSET A
    PROVE  /\ IsFiniteSet(A) /\ IsFiniteSet(B)
           /\ Cardinality(A) \in Nat /\ Cardinality(B) \in Nat
           /\ Cardinality(B) <= Cardinality(A)
           /\ Cardinality(A) = 0 <=> A = {}
BY ScratchAssumption, FS_Subset, FS_CardinalityType, FS_EmptySet DEF ScratchAssumption

\* One object more is at most one more.
LEMMA OneMore ==
    ASSUME NEW A \in SUBSET Object, NEW o \in Object, NEW B, B \subseteq A \cup {o}
    PROVE  /\ Cardinality(A) \in Nat /\ Cardinality(B) \in Nat
           /\ Cardinality(B) <= Cardinality(A) + 1
<1> DEFINE C == A \cup {o}
<1>1. C \in SUBSET Object /\ B \in SUBSET C
  OBVIOUS
<1>2. IsFiniteSet(A) /\ Cardinality(A) \in Nat
  BY Objects
<1>3. Cardinality(C) = IF o \in A THEN Cardinality(A) ELSE Cardinality(A) + 1
  BY <1>2, FS_AddElement
<1> HIDE DEF C
<1>4. /\ Cardinality(B) \in Nat /\ Cardinality(C) \in Nat
      /\ Cardinality(B) <= Cardinality(C)
  BY <1>1, Objects
<1> QED
  BY <1>2, <1>3, <1>4

LEMMA LandedLinked ==
    ASSUME NEW F, NEW T
    PROVE  /\ LandedIn(F, T) \in SUBSET LinkedIn(F) /\ LinkedIn(F) \in SUBSET Object
           /\ Cardinality(LandedIn(F, T)) \in Nat /\ Cardinality(LinkedIn(F)) \in Nat
           /\ Cardinality(LandedIn(F, T)) <= Cardinality(LinkedIn(F))
           /\ LinkedIn(F) = {} => Cardinality(LandedIn(F, T)) = 0
<1>1. LandedIn(F, T) \in SUBSET LinkedIn(F) /\ LinkedIn(F) \in SUBSET Object
  BY DEF LandedIn, LinkedIn
<1>2. LandedIn(F, T) \in SUBSET Object
  BY <1>1
<1> QED
  BY <1>1, <1>2, Objects

\* A figure of the charge may not grow out of nothing.
LEMMA FewerLanded ==
    ASSUME NEW F, NEW T, NEW G, NEW U, LandedIn(G, U) \subseteq LandedIn(F, T),
           NEW e \in EntryType, NEW l, NEW W \in [Walker -> WalkType],
           Measures(e, l, W, Cardinality(LandedIn(F, T)))
    PROVE  Measures(e, l, W, Cardinality(LandedIn(G, U)))
<1> DEFINE n == Cardinality(LandedIn(F, T))
           m == Cardinality(LandedIn(G, U))
<1>1. n \in Nat /\ m \in Nat /\ m <= n
  <2>1. LandedIn(F, T) \in SUBSET Object
    BY DEF LandedIn
  <2> QED
    BY <2>1, Objects
<1>2. e.used \in Nat /\ e.written \in Nat
  BY EntryFields
<1>3. \A v \in Walker : /\ W[v].st = "seen" => W[v].before \in Nat /\ W[v].bytes \in Nat
  BY WalkForms
<1> HIDE DEF n, m
<1>4. ASSUME Measures(e, l, W, n) PROVE Measures(e, l, W, m)
  BY <1>1, <1>2, <1>3, <1>4 DEF Measures
<1> QED
  BY <1>4 DEF n, m

\* Other figures do not matter, nor a task that has written nothing it has not.
LEMMA SameFigures ==
    ASSUME NEW e \in EntryType, NEW f \in EntryType,
           NEW s, NEW l, NEW F, NEW T, NEW U, NEW W \in [Walker -> WalkType],
           NEW c, NEW R,
           Charged(e, s, l, F, T, W, c, R),
           f.used = e.used, f.written = e.written, f.grant >= e.grant,
           f.life = e.life, f.fenced = e.fenced, f.writers = e.writers,
           f.gen = e.gen, f.pins = e.pins, f.linked = e.linked,
           LandedIn(F, U) \subseteq LandedIn(F, T)
    PROVE  Charged(f, s, l, F, U, W, c, R)
<1>1. Measures(e, l, W, Cardinality(LandedIn(F, U)))
  BY FewerLanded DEF Charged
<1>2. Measures(f, l, W, Cardinality(LandedIn(F, U)))
  BY <1>1 DEF Measures, Known
<1>3. e.grant \in Nat /\ f.grant \in Nat /\ Cardinality(LinkedIn(F)) \in Nat
  BY EntryFields, LandedLinked
<1>4. Retains(f, c, LinkedIn(F))
  BY <1>3 DEF Charged, Retains
<1>5. Staged(f, s, LinkedIn(F), W, R) /\ Pins(f, R)
  BY DEF Charged, Staged, Pins, Known
<1> QED
  BY <1>2, <1>4, <1>5 DEF Charged

\* An entry is forgotten only with nothing left of it.
LEMMA CollectedCharged ==
    ASSUME NEW e \in EntryType, NEW s, NEW l, NEW F, NEW T, NEW W,
           NEW c \in ConvType, NEW R \in [Reader -> ReadingType],
           Charged(e, s, l, F, T, W, c, R)
    PROVE  /\ Charged(Collected(e), s, l, F, T, W, c, R)
           /\ Releasable(e) => Charged(Forgotten, s, l, F, T, W, c, R)
<1>1. CASE ~Releasable(e)
  BY <1>1 DEF Collected
<1>2. CASE Releasable(e)
  <2>1. /\ Forgotten.life = "gone" /\ Forgotten.used = 0 /\ Forgotten.written = 0
        /\ Forgotten.grant = 0 /\ Forgotten.gen = 0 /\ Forgotten.writers = {}
    BY DEF Forgotten, Blank
  <2>2. LinkedIn(F) = {} /\ Cardinality(LandedIn(F, T)) = 0
    BY <1>2, LandedLinked DEF Releasable, Charged, Retains
  <2>3. Cardinality(LinkedIn(F)) = 0 /\ (c.st = "seen" => c.bytes \in Nat)
    BY <2>2, FS_EmptySet, ConvForms
  <2>4. Measures(Forgotten, l, W, Cardinality(LandedIn(F, T)))
    BY <2>1, <2>2 DEF Measures, Known
  <2>5. Retains(Forgotten, c, LinkedIn(F))
    BY <2>1, <2>2, <2>3 DEF Retains
  <2>6. Staged(Forgotten, s, LinkedIn(F), W, R)
    BY <2>1, <2>2 DEF Charged, Staged, Known
  <2>7. \A r \in Reader : R[r].st = "pinned" => R[r].obj \in Object
    BY DEF ReadingType, Idle
  <2>8. Pins(Forgotten, R)
    BY <1>2, <2>7 DEF Charged, Pins, Releasable
  <2> QED
    BY <1>2, <2>4, <2>5, <2>6, <2>8 DEF Collected, Charged
<1> QED
  BY <1>1, <1>2

\* The incarnations a step does not touch keep the rest of their state, too.
Aside(k) ==
    \A j \in Key \ {k} :
      walk'[j] = walk[j] /\ reading'[j] = reading[j] /\ lost'[j] = lost[j]

\* What the lemmas on the steps of an incarnation start from.
Ours(k) == TypeOK /\ TypeOK' /\ Sound(k) /\ ChargedAt(k)

\* The writers' steps: an object is charged in the step in which it is taken for
\* landed, and linked only while its reservation is drawn.
LEMMA WritersCharged ==
    ASSUME NEW k \in Key, NEW w \in Writer, Ours(k),
           \/ RegisterWriter(k, w) \/ FinishWriter(k, w)
           \/ (\E o \in Object : AskWrite(k, w, o)) \/ Grow(k, w) \/ AskAgain(k, w)
           \/ Write(k, w) \/ Landed(k, w) \/ RenameObject(k, w) \/ Unlanded(k, w)
    PROVE  ChargedAt(k)' /\ Aside(k)
<1> DEFINE e == entry[k]  f == entry'[k]  s == stage[k]  l == lost[k]  F == file[k]
           T == task[k]  U == task'[k]  W == walk[k]  c == conv[k]  R == reading[k]
           t == task[k][w]
<1>0. /\ entry \in [Key -> EntryType] /\ e \in EntryType /\ f \in EntryType
      /\ task \in [Key -> [Writer -> TaskType]] /\ t \in TaskType
      /\ walk \in [Key -> [Walker -> WalkType]] /\ W \in [Walker -> WalkType]
      /\ c \in ConvType /\ R \in [Reader -> ReadingType]
      /\ file \in [Key -> [Object -> {"none", "linked", "removed"}]]
      /\ Booked(e, T) /\ Stands(e, s, c, Cardinality(Linked(k)))
      /\ Charged(e, s, l, F, T, W, c, R)
  BY DEF Ours, TypeOK, Sound, ChargedAt
<1>f. /\ e.grant \in Nat /\ e.used \in Nat /\ e.written \in Nat /\ e.pending \in Nat
      /\ e.gen \in Nat /\ f.grant \in Nat /\ f.used \in Nat /\ f.written \in Nat
      /\ e.writers \in SUBSET Writer
  BY <1>0, EntryFields
<1>p. t.st \notin {"idle", "ended"} => Present(k) /\ w \in e.writers /\ Known(e)
  BY <1>0, AtWork DEF Present, Known
<1>l. Linked(k) = LinkedIn(F)
  BY DEF Linked, LinkedIn
\* A writer at work rules out that anything read before still holds.
<1>r. ASSUME t.st \notin {"idle", "ended"}
      PROVE  /\ s \notin {"none", "starting"} /\ e.life # "retained"
             /\ c.st = "seen" => e.gen # c.gen
  BY <1>0, <1>p, <1>r DEF Charged, Staged, Retains, Stands, Known
\* Where nothing but the entry and the tasks change.
<1>s. ASSUME UNCHANGED <<stage, walk, conv, reading, file, lost>>,
             Charged(f, s, l, F, U, W, c, R)
      PROVE  ChargedAt(k)' /\ Aside(k)
  BY <1>s DEF ChargedAt, Aside
\* A task set anew is the only one.
<1>u. ASSUME NEW x \in TaskType, SetTask(k, w, x)
      PROVE  /\ U[w] = x /\ \A v \in Writer \ {w} : U[v] = T[v]
             /\ x.st \notin {"written"} /\ t.st \notin {"written"} =>
                  LandedIn(F, U) = LandedIn(F, T)
             /\ t.st # "written" => LandedIn(F, U) \subseteq LandedIn(F, T)
  <2>1. U[w] = x /\ \A v \in Writer \ {w} : U[v] = T[v]
    BY <1>0, <1>u, SettingTask
  <2> QED
    BY <2>1 DEF LandedIn
\* Where the figures of the invariant stay what they are.
<1>e. ASSUME UNCHANGED <<stage, walk, conv, reading, file, lost>>,
             f.used = e.used, f.written = e.written, f.grant >= e.grant,
             f.life = e.life, f.fenced = e.fenced, f.writers = e.writers,
             f.gen = e.gen, f.pins = e.pins, f.linked = e.linked,
             NEW x \in TaskType, SetTask(k, w, x), t.st # "written"
      PROVE  ChargedAt(k)' /\ Aside(k)
  <2>1. Charged(f, s, l, F, U, W, c, R)
    BY <1>0, <1>e, <1>u, SameFigures
  <2> QED
    BY <1>e, <1>s, <2>1
<1>n. ASSUME entry' = entry PROVE f = e
  BY <1>n
<1>a. ASSUME NEW x \in Object, Authorized(k, w, x), t.st \in {"ready", "grown"},
             UNCHANGED <<stage, walk, conv, reading, file, lost>>
      PROVE  ChargedAt(k)' /\ Aside(k)
  <2>1. /\ f = [e EXCEPT !.pending = @ + Reservation]
        /\ SetTask(k, w, [st |-> "authorized", obj |-> x])
        /\ [st |-> "authorized", obj |-> x] \in TaskType
    BY <1>0, <1>a, TaskMakers DEF Authorized, Enter
  <2>2. /\ f.used = e.used /\ f.written = e.written /\ f.grant = e.grant
        /\ f.life = e.life /\ f.fenced = e.fenced /\ f.writers = e.writers
        /\ f.gen = e.gen /\ f.pins = e.pins /\ f.linked = e.linked
    BY <1>0, <2>1 DEF EntryType
  <2> HIDE DEF f
  <2> QED
    BY <1>a, <1>e, <1>f, <2>1, <2>2
<1>b. ASSUME NEW x \in TaskType, SetTask(k, w, x), entry' = entry,
             UNCHANGED <<stage, walk, conv, reading, file, lost>>,
             t.st # "written"
      PROVE  ChargedAt(k)' /\ Aside(k)
  BY <1>b, <1>e, <1>f, <1>n
<1>1. CASE RegisterWriter(k, w)
  <2>1. /\ f = [e EXCEPT !.writers = @ \cup {w}, !.gen = @ + 1]
        /\ ~e.fenced /\ Known(e) /\ s \notin {"none", "starting"} /\ t = Idle
        /\ SetTask(k, w, Ready)
        /\ UNCHANGED <<stage, walk, conv, reading, file, lost>>
    BY <1>0, <1>1 DEF RegisterWriter, Enter, Present, Known
  <2>2. /\ f.used = e.used /\ f.written = e.written /\ f.grant = e.grant
        /\ f.life = e.life /\ f.fenced = e.fenced /\ f.gen = e.gen + 1
        /\ f.pins = e.pins /\ f.linked = e.linked
    BY <1>0, <2>1 DEF EntryType
  <2>3. LandedIn(F, U) = LandedIn(F, T)
    BY <1>u, <2>1, TaskMakers
  <2> HIDE DEF f
  <2>4. Measures(f, l, W, Cardinality(LandedIn(F, U)))
    BY <1>0, <2>2, <2>3 DEF Charged, Measures, Known
  <2>5. c.st = "seen" => f.gen # c.gen
    BY <1>0, <1>f, <2>1, <2>2, ConvForms DEF Stands, Known
  <2>6. e.life # "retained" /\ e.life # "retiring"
    BY <1>0, <2>1 DEF Charged, Retains
  <2>7. Retains(f, c, LinkedIn(F))
    BY <1>0, <2>2, <2>5, <2>6 DEF Charged, Retains
  <2>8. Staged(f, s, LinkedIn(F), W, R) /\ Pins(f, R)
    BY <1>0, <2>1, <2>2 DEF Charged, Staged, Pins, Known
  <2> QED
    BY <1>s, <2>1, <2>4, <2>7, <2>8 DEF Charged
<1>2. CASE FinishWriter(k, w)
  <2> DEFINE d == [e EXCEPT !.writers = @ \ {w}, !.gen = @ + 1]
  <2>1. /\ t = Ready /\ SetTask(k, w, Ended)
        /\ UNCHANGED <<stage, walk, conv, reading, file, lost>>
        /\ Amend(k, IF d.writers = {} THEN Collected(d) ELSE d)
    BY <1>2 DEF FinishWriter
  <2>2. e.writers \ {w} \in SUBSET Writer /\ e.gen + 1 \in Nat
    BY <1>f
  <2>a. e \in EntryType
    BY <1>0
  <2>3. d \in EntryType
    BY <2>2, <2>a DEF EntryType
  <2>4. /\ d.used = e.used /\ d.written = e.written /\ d.grant = e.grant
        /\ d.life = e.life /\ d.fenced = e.fenced /\ d.gen = e.gen + 1
        /\ d.pins = e.pins /\ d.linked = e.linked
    BY <1>0, <2>3 DEF EntryType
  <2>5. t.st = "ready" /\ Present(k) /\ Known(e) /\ LandedIn(F, U) = LandedIn(F, T)
    BY <1>p, <1>u, <2>1, TaskMakers
  <2>6. f \in {d, Collected(d)}
    BY <1>0, <2>1, <2>5 DEF Amend
  <2> HIDE DEF d, f
  <2>7. Measures(d, l, W, Cardinality(LandedIn(F, U)))
    BY <1>0, <2>4, <2>5 DEF Charged, Measures, Known
  <2>8. c.st = "seen" => d.gen # c.gen
    BY <1>0, <1>f, <2>4, <2>5, ConvForms DEF Stands, Known
  <2>9. Retains(d, c, LinkedIn(F))
    BY <1>0, <1>r, <2>4, <2>5, <2>8 DEF Charged, Retains
  <2>10. Staged(d, s, LinkedIn(F), W, R) /\ Pins(d, R)
    BY <1>0, <1>r, <2>4, <2>5 DEF Charged, Staged, Pins, Known
  <2>11. Charged(d, s, l, F, U, W, c, R)
    BY <2>7, <2>9, <2>10 DEF Charged
  <2>12. Charged(f, s, l, F, U, W, c, R)
    BY <1>0, <2>3, <2>6, <2>11, CollectedCharged
  <2> QED
    BY <1>s, <2>1, <2>12 DEF f
<1>3. CASE \E o \in Object : AskWrite(k, w, o)
  <2>o. PICK o \in Object : AskWrite(k, w, o)
    BY <1>3
  <2>1. t.st = "ready" /\ UNCHANGED <<stage, walk, conv, reading, file, lost>>
    BY <2>o, TaskMakers DEF AskWrite
  <2>2. CASE Authorized(k, w, o)
    BY <1>a, <2>1, <2>2
  <2>3. CASE ~Authorized(k, w, o)
    <3> DEFINE x == [ st |-> "growing", obj |-> o,
                      ask |-> Reservation - GrantUnused(e) + Headroom ]
    <3>1. SetTask(k, w, x) /\ entry' = entry
      BY <2>o, <2>3 DEF AskWrite
    <3>2. GrantUnused(e) \in Nat /\ ~(GrantUnused(e) >= Reservation)
      BY <1>0, <2>o, <2>3, EntryFields DEF AskWrite
    <3>3. Reservation - GrantUnused(e) + Headroom \in Nat
      BY <3>2, ScratchAssumption DEF ScratchAssumption
    <3>4. x \in TaskType
      BY <3>3, TaskMakers
    <3> HIDE DEF x
    <3> QED
      BY <1>b, <2>1, <3>1, <3>4
  <2> QED
    BY <2>2, <2>3
<1>4. CASE Grow(k, w)
  <2>1. /\ t.st = "growing" /\ t.ask \in Nat /\ t.obj \in Object
        /\ UNCHANGED <<stage, walk, conv, reading, file, lost>>
    BY <1>0, <1>4, TaskForms DEF Grow, Holding
  <2> DEFINE g == [e EXCEPT !.grant = @ + t.ask]
             x == [st |-> "grown", obj |-> t.obj]
  <2>2. x \in TaskType
    BY <2>1, TaskMakers
  <2>3. CASE Enter(k, g) /\ SetTask(k, w, x)
    <3>1. f = g
      BY <1>0, <2>3 DEF Enter
    <3>2. /\ f.used = e.used /\ f.written = e.written /\ f.grant = e.grant + t.ask
          /\ f.life = e.life /\ f.fenced = e.fenced /\ f.writers = e.writers
          /\ f.gen = e.gen /\ f.pins = e.pins /\ f.linked = e.linked
      BY <1>0, <3>1 DEF EntryType
    <3>3. f.grant >= e.grant
      BY <1>f, <2>1, <3>2
    <3> HIDE DEF f, x, g
    <3> QED
      BY <1>e, <2>1, <2>2, <2>3, <3>2, <3>3
  <2>4. CASE SetTask(k, w, Ready) /\ entry' = entry
    BY <1>b, <2>1, <2>4, TaskMakers
  <2> QED
    BY <1>4, <2>3, <2>4 DEF Grow
<1>5. CASE AskAgain(k, w)
  <2>1. /\ t.st = "grown" /\ t.obj \in Object
        /\ UNCHANGED <<stage, walk, conv, reading, file, lost>>
    BY <1>0, <1>5, TaskForms DEF AskAgain, Holding
  <2>2. CASE SetTask(k, w, Ready) /\ entry' = entry
    BY <1>b, <2>1, <2>2, TaskMakers
  <2>3. CASE Authorized(k, w, t.obj)
    BY <1>a, <2>1, <2>3
  <2> QED
    BY <1>5, <2>2, <2>3 DEF AskAgain
<1>6. CASE Write(k, w)
  <2> DEFINE x == [t EXCEPT !.st = "written"]
             G == file'[k]
  <2>1. /\ t.st = "authorized" /\ t.obj \in Object /\ SetTask(k, w, x)
        /\ UNCHANGED <<entry, stage, walk, conv, reading, lost>>
    BY <1>0, <1>6, TaskForms DEF Write, Holding
  <2>2. x \in TaskType
    BY <1>0, <2>1, TaskRenamed
  <2>3. x.st = "written" /\ x.obj = t.obj
    <3>1. t \in [st : {"grown", "authorized", "written", "landed"}, obj : Object]
      BY <1>0, <2>1 DEF TaskType, Idle, Ready, Ended
    <3> QED
      BY <3>1
  <2> HIDE DEF x
  <2>4. U[w] = x /\ \A v \in Writer \ {w} : U[v] = T[v]
    BY <1>u, <2>1, <2>2
  <2>5. G = F \/ (DirExists(k) /\ G = [F EXCEPT ![t.obj] = "linked"])
    BY <1>0, <1>6, <2>1 DEF Write
  <2>6. LandedIn(G, U) \subseteq LandedIn(F, T)
    <3>1. ASSUME NEW o \in LandedIn(G, U) PROVE o \in LandedIn(F, T)
      <4>1. o \in Object /\ G[o] = "linked" /\ o # t.obj
        BY <2>3, <2>4, <3>1 DEF LandedIn
      <4>2. F[o] = "linked"
        BY <1>0, <2>1, <2>5, <4>1
      <4>3. \A v \in Writer : T[v].st = "written" => T[v].obj # o
        BY <2>1, <2>4, <3>1 DEF LandedIn
      <4> QED
        BY <4>1, <4>2, <4>3 DEF LandedIn
    <3> QED
      BY <3>1
  <2>7. Measures(e, l, W, Cardinality(LandedIn(G, U)))
    BY <1>0, <2>6, FewerLanded DEF Charged
  <2>8. Retains(e, c, LinkedIn(G)) /\ Staged(e, s, LinkedIn(G), W, R)
    <3>1. CASE G = F
      BY <1>0, <3>1 DEF Charged
    <3>2. CASE DirExists(k)
      <4>1. s \notin {"none", "starting", "removed", "done", "dropped"}
        BY <1>r, <2>1, <3>2 DEF DirExists
      <4>2. w \in DrawnOf(T)
        BY <2>1 DEF DrawnOf
      <4>3. Cardinality(DrawnOf(T)) # 0 /\ Cardinality(DrawnOf(T)) \in Nat
        BY <4>2, DrawnFinite
      <4>4. e.pending # 0
        BY <1>0, <4>3, ReservationCounted DEF Booked
      <4>5. e.grant # 0
        BY <1>0, <1>f, <4>1, <4>4 DEF Stands
      <4>6. Retains(e, c, LinkedIn(G))
        BY <1>0, <1>r, <2>1, <4>5 DEF Charged, Retains
      <4> QED
        BY <1>0, <4>1, <4>6 DEF Charged, Staged
    <3> QED
      BY <2>5, <3>1, <3>2
  <2>9. Charged(e, s, l, G, U, W, c, R)
    BY <1>0, <2>7, <2>8 DEF Charged
  <2> QED
    BY <2>1, <2>9 DEF ChargedAt, Aside
<1>7. CASE Landed(k, w)
  <2>1. /\ t.st = "written" /\ t.obj \in Object /\ Settled(k, 1)
        /\ UNCHANGED <<stage, walk, conv, reading, file, lost>>
    BY <1>0, <1>7, TaskForms DEF Landed, Holding
  <2>2. PICK x \in {Ready, [t EXCEPT !.st = "landed"]} : SetTask(k, w, x)
    BY <1>7 DEF Landed
  <2>3. x \in TaskType /\ U[w] = x /\ \A v \in Writer \ {w} : U[v] = T[v]
    BY <1>0, <1>u, <2>1, <2>2, TaskMakers, TaskRenamed
  <2>4. f = [e EXCEPT !.pending = Max({@ - Reservation, 0}), !.written = @ + 1]
    BY <1>0, <1>p, <2>1 DEF Settled, Amend
  <2>5. /\ f.used = e.used /\ f.written = e.written + 1 /\ f.grant = e.grant
        /\ f.life = e.life /\ f.fenced = e.fenced /\ f.writers = e.writers
        /\ f.gen = e.gen /\ f.pins = e.pins /\ f.linked = e.linked
    BY <1>0, <2>4 DEF EntryType
  <2> HIDE DEF f
  <2> DEFINE n == Cardinality(LandedIn(F, T))
             m == Cardinality(LandedIn(F, U))
  <2>6. n \in Nat /\ m \in Nat /\ m <= n + 1
    <3>1. LandedIn(F, U) \subseteq LandedIn(F, T) \cup {t.obj}
      BY <2>3 DEF LandedIn
    <3>2. LandedIn(F, T) \in SUBSET Object
      BY DEF LandedIn
    <3> QED
      BY <2>1, <3>1, <3>2, OneMore
  <2>7. \A v \in Walker : W[v].st = "seen" => W[v].before \in Nat /\ W[v].bytes \in Nat
    BY <1>0, WalkForms
  <2>8. \A v \in Walker : W[v].st = "walking" => W[v].before \in Nat
    BY <1>0, WalkForms
  <2>9. \A v \in Walker : W[v].st \in {"idle", "walking", "seen"}
    BY <1>0 DEF WalkType, Idle
  <2>10. Measures(e, l, W, n)
    BY <1>0 DEF Charged
  <2> HIDE DEF n, m
  <2>11. Measures(f, l, W, m)
    BY <1>f, <2>5, <2>6, <2>7, <2>8, <2>9, <2>10 DEF Measures, Known
  <2>12. Retains(f, c, LinkedIn(F)) /\ Staged(f, s, LinkedIn(F), W, R) /\ Pins(f, R)
    BY <1>0, <2>5 DEF Charged, Retains, Staged, Pins, Known
  <2>13. Charged(f, s, l, F, U, W, c, R)
    BY <2>11, <2>12 DEF Charged, m
  <2> QED
    BY <1>s, <2>1, <2>13 DEF f
<1>8. CASE RenameObject(k, w)
  <2> DEFINE X == walk'[k]
  <2>1. /\ t.st = "landed" /\ SetTask(k, w, Ready)
        /\ UNCHANGED <<entry, stage, conv, reading, file, lost>>
        /\ walk' = [walk EXCEPT ![k] = RenamedUnder(k)]
    BY <1>8 DEF RenameObject
  <2>2. LandedIn(F, U) = LandedIn(F, T)
    BY <1>u, <2>1, TaskMakers
  <2>3. X = RenamedUnder(k)
    BY <1>0, <2>1
  <2>4. ASSUME NEW v \in Walker
        PROVE  /\ X[v].st = W[v].st
               /\ W[v].st # "idle" => /\ X[v].stale = W[v].stale
                                      /\ X[v].before = W[v].before
               /\ W[v].st = "seen" => X[v].bytes = W[v].bytes
               /\ W[v] = Idle => X[v] = Idle
    <3>1. W[v] \in WalkType
      BY <1>0
    <3> QED
      BY <2>3, <3>1 DEF RenamedUnder, WalkType, Idle
  <2> HIDE DEF X
  <2>5. Measures(e, l, X, Cardinality(LandedIn(F, U)))
    BY <1>0, <2>2, <2>4 DEF Charged, Measures
  <2>6. Staged(e, s, LinkedIn(F), X, R)
    BY <1>0, <2>4 DEF Charged, Staged
  <2>7. Charged(e, s, l, F, U, X, c, R)
    BY <1>0, <2>5, <2>6 DEF Charged
  <2> QED
    BY <1>0, <2>1, <2>7 DEF ChargedAt, Aside, X
<1>9. CASE Unlanded(k, w)
  <2>1. /\ t.st = "authorized" /\ Settled(k, 0) /\ SetTask(k, w, Ready)
        /\ UNCHANGED <<stage, walk, conv, reading, file, lost>>
    BY <1>9 DEF Unlanded
  <2>2. f = [e EXCEPT !.pending = Max({@ - Reservation, 0}), !.written = @ + 0]
    BY <1>0, <1>p, <2>1 DEF Settled, Amend
  <2>3. /\ f.used = e.used /\ f.written = e.written + 0 /\ f.grant = e.grant
        /\ f.life = e.life /\ f.fenced = e.fenced /\ f.writers = e.writers
        /\ f.gen = e.gen /\ f.pins = e.pins /\ f.linked = e.linked
    BY <1>0, <2>2 DEF EntryType
  <2>4. f.written = e.written /\ f.grant >= e.grant
    BY <1>f, <2>3
  <2> HIDE DEF f
  <2> QED
    BY <1>e, <2>1, <2>3, <2>4, TaskMakers
<1> QED
  BY <1>1, <1>2, <1>3, <1>4, <1>5, <1>6, <1>7, <1>8, <1>9

\* Admission, and its end: nothing has been written at the one, nothing is left at
\* the other.
LEMMA AdmissionCharged ==
    ASSUME NEW k \in Key, Ours(k), Reserve(k) \/ Bind(k) \/ Abandon(k)
    PROVE  ChargedAt(k)' /\ Aside(k)
<1> DEFINE e == entry[k]  f == entry'[k]  s == stage[k]  l == lost[k]  F == file[k]
           T == task[k]  W == walk[k]  c == conv[k]  R == reading[k]
<1>0. /\ entry \in [Key -> EntryType] /\ e \in EntryType /\ f \in EntryType
      /\ stage \in [Key -> StageType]
      /\ W \in [Walker -> WalkType] /\ c \in ConvType /\ R \in [Reader -> ReadingType]
      /\ Booked(e, T) /\ Stands(e, s, c, Cardinality(Linked(k)))
      /\ Charged(e, s, l, F, T, W, c, R)
      /\ UNCHANGED <<task, walk, conv, reading, file, lost>>
  BY DEF Ours, TypeOK, Sound, ChargedAt, Reserve, Bind, Abandon
<1>s. ASSUME Charged(f, stage'[k], l, F, T, W, c, R)
      PROVE  ChargedAt(k)' /\ Aside(k)
  BY <1>0, <1>s DEF ChargedAt, Aside
<1>1. CASE Reserve(k)
  <2> DEFINE grant == IF Configured = 0 THEN 0 ELSE AdmissionGrant
  <2>1. /\ f = [Blank EXCEPT !.life = "provisional", !.grant = grant, !.gen = 1]
        /\ stage'[k] = "starting" /\ e.life = "unminted"
    BY <1>0, <1>1 DEF Reserve, Enter
  <2>2. s = "none" /\ c.st = "off"
    BY <1>0, <2>1 DEF Stands
  <2>3. /\ f.life = "provisional" /\ f.writers = {} /\ f.used = 0 /\ f.written = 0
    BY <2>1 DEF Blank
  <2>4. /\ LinkedIn(F) = {} /\ (\A v \in Walker : W[v] = Idle)
        /\ \A r \in Reader : R[r] = Idle
    BY <1>0, <2>2 DEF Charged, Staged
  <2>5. Cardinality(LandedIn(F, T)) = 0
    BY <2>4, LandedLinked
  <2> HIDE DEF f
  <2>6. Measures(f, l, W, Cardinality(LandedIn(F, T)))
    BY <2>3, <2>4, <2>5 DEF Measures, Idle
  <2>7. Retains(f, c, LinkedIn(F))
    BY <2>2, <2>3, <2>4 DEF Retains
  <2>8. Staged(f, "starting", LinkedIn(F), W, R) /\ Pins(f, R)
    BY <2>3, <2>4 DEF Staged, Pins, Idle
  <2> QED
    BY <1>s, <2>1, <2>6, <2>7, <2>8 DEF Charged, f
<1>2. CASE Bind(k)
  <2>1. /\ f = [e EXCEPT !.life = "producing"]
        /\ s = "starting" /\ stage'[k] = "live"
    BY <1>0, <1>2 DEF Bind, Enter
  <2>2. /\ f.life = "producing" /\ f.used = e.used /\ f.written = e.written
        /\ f.grant = e.grant /\ f.gen = e.gen /\ f.writers = e.writers
        /\ f.pins = e.pins
    BY <1>0, <2>1 DEF EntryType
  <2>3. /\ \A v \in Walker : W[v] = Idle
        /\ \A r \in Reader : R[r] = Idle
    BY <1>0, <2>1 DEF Charged, Staged
  <2> HIDE DEF f
  <2>4. Measures(f, l, W, Cardinality(LandedIn(F, T)))
    BY <1>0, <2>2, <2>3 DEF Charged, Measures, Idle
  <2>5. Retains(f, c, LinkedIn(F))
    BY <1>0, <2>2 DEF Charged, Retains
  <2>6. Staged(f, "live", LinkedIn(F), W, R) /\ Pins(f, R)
    BY <2>3 DEF Staged, Pins, Idle
  <2> QED
    BY <1>s, <2>1, <2>4, <2>5, <2>6 DEF Charged, f
<1>3. CASE Abandon(k)
  <2> DEFINE d == [e EXCEPT !.dropped = TRUE]
  <2>1. /\ s \in {"starting", "done"} /\ stage'[k] = "dropped"
        /\ \A r \in Reader : R[r] = Idle
    BY <1>0, <1>3 DEF Abandon
  <2>2. /\ d \in EntryType /\ d.life = e.life /\ d.used = e.used
        /\ d.written = e.written /\ d.grant = e.grant /\ d.gen = e.gen
        /\ d.writers = e.writers /\ d.pins = e.pins /\ d.fenced = e.fenced
    BY <1>0 DEF EntryType
  <2>3. f \in {e, Forgotten, Collected(d)}
    BY <1>0, <1>3 DEF Abandon, Amend
  <2> HIDE DEF d, f
  <2>4. LinkedIn(F) = {} /\ Cardinality(LandedIn(F, T)) = 0
    BY <1>0, <2>1, LandedLinked DEF Charged, Staged
  <2>5. Charged(e, "dropped", l, F, T, W, c, R)
    BY <1>0, <2>1, <2>4 DEF Charged, Staged
  <2>6. Charged(d, "dropped", l, F, T, W, c, R)
    BY <2>1, <2>2, <2>4, <2>5 DEF Charged, Measures, Retains, Staged, Pins, Known
  <2>7. Charged(Forgotten, "dropped", l, F, T, W, c, R)
    <3>1. /\ Forgotten.life = "gone" /\ Forgotten.used = 0 /\ Forgotten.written = 0
          /\ Forgotten.grant = 0 /\ Forgotten.writers = {}
      BY DEF Forgotten, Blank
    <3>2. Cardinality(LinkedIn(F)) = 0 /\ (c.st = "seen" => c.bytes \in Nat)
      BY <1>0, <2>4, FS_EmptySet, ConvForms
    <3>3. Measures(Forgotten, l, W, Cardinality(LandedIn(F, T)))
      BY <2>4, <3>1 DEF Measures, Known
    <3>4. Retains(Forgotten, c, LinkedIn(F))
      BY <2>4, <3>1, <3>2 DEF Retains
    <3>5. Staged(Forgotten, "dropped", LinkedIn(F), W, R) /\ Pins(Forgotten, R)
      BY <2>1, <2>4 DEF Staged, Pins, Idle
    <3> QED
      BY <3>3, <3>4, <3>5 DEF Charged
  <2>8. Charged(f, "dropped", l, F, T, W, c, R)
    BY <1>0, <2>2, <2>3, <2>5, <2>6, <2>7, CollectedCharged
  <2> QED
    BY <1>s, <2>1, <2>8 DEF f
<1> QED
  BY <1>1, <1>2, <1>3

\* Walks that have been overtaken are not believed.
LEMMA Overtaking ==
    ASSUME NEW k \in Key, TypeOK
    PROVE  \A v \in Walker : /\ Overtaken(k)[v].st # "idle" => Overtaken(k)[v].stale
                             /\ walk[k][v] = Idle => Overtaken(k)[v] = Idle
<1>1. ASSUME NEW v \in Walker
      PROVE  /\ Overtaken(k)[v].st # "idle" => Overtaken(k)[v].stale
             /\ walk[k][v] = Idle => Overtaken(k)[v] = Idle
  <2>1. walk[k][v] \in WalkType
    BY DEF TypeOK
  <2> QED
    BY <2>1 DEF Overtaken, WalkType, Idle
<1> QED
  BY <1>1

\* The walks' steps: what a walk had not seen when it began is still counted as
\* written when it is believed.
LEMMA WalksCharged ==
    ASSUME NEW k \in Key, NEW v \in Walker, Ours(k),
           \/ WalkBegin(k, v) \/ WalkSees(k, v) \/ WalkFails(k, v) \/ WalkObserves(k, v)
    PROVE  ChargedAt(k)' /\ Aside(k)
<1> DEFINE e == entry[k]  f == entry'[k]  s == stage[k]  l == lost[k]  F == file[k]
           T == task[k]  W == walk[k]  X == walk'[k]  c == conv[k]  R == reading[k]
           m == walk[k][v]  n == Cardinality(LandedIn(F, T))
<1>0. /\ entry \in [Key -> EntryType] /\ e \in EntryType
      /\ walk \in [Key -> [Walker -> WalkType]] /\ W \in [Walker -> WalkType]
      /\ m \in WalkType /\ lost \in [Key -> {"never", "now", "healed"}]
      /\ Booked(e, T) /\ Charged(e, s, l, F, T, W, c, R)
  BY DEF Ours, TypeOK, Sound, ChargedAt
<1>f. /\ e.grant \in Nat /\ e.used \in Nat /\ e.written \in Nat
      /\ n \in Nat /\ Cardinality(LinkedIn(F)) \in Nat /\ n <= Cardinality(LinkedIn(F))
  BY <1>0, EntryFields, LandedLinked
<1>l. Linked(k) = LinkedIn(F)
  BY DEF Linked, LinkedIn
<1>m. Measures(e, l, W, n)
  BY <1>0 DEF Charged
\* Where only the one walk changes.
<1>s. ASSUME UNCHANGED <<entry, stage, task, conv, reading, file, lost>>,
             NEW x \in WalkType, walk' = [walk EXCEPT ![k][v] = x],
             x = Idle \/ s \notin {"none", "starting"},
             x.st # "idle" /\ Known(e) /\ ~x.stale =>
                 /\ x.before <= e.written
                 /\ x.st = "seen" => n + x.before <= x.bytes + e.written
      PROVE  ChargedAt(k)' /\ Aside(k)
  <2>1. X[v] = x /\ \A u \in Walker \ {v} : X[u] = W[u]
    BY <1>0, <1>s
  <2>2. \A j \in Key \ {k} : walk'[j] = walk[j]
    BY <1>0, <1>s
  <2> HIDE DEF n, X
  <2>3. Measures(e, l, X, n)
    BY <1>m, <1>s, <2>1 DEF Measures
  <2>4. Staged(e, s, LinkedIn(F), X, R)
    BY <1>0, <1>s, <2>1 DEF Charged, Staged
  <2>5. Charged(e, s, l, F, T, X, c, R)
    BY <1>0, <2>3, <2>4 DEF Charged, n
  <2> QED
    BY <1>s, <2>2, <2>5 DEF ChargedAt, Aside, X
<1>1. CASE WalkBegin(k, v)
  <2> DEFINE x == [ st |-> "walking", before |-> e.written, moved |-> 0, stale |-> FALSE ]
  <2>1. /\ UNCHANGED <<entry, stage, task, conv, reading, file, lost>>
        /\ walk' = [walk EXCEPT ![k][v] = x] /\ s = "live"
    BY <1>1 DEF WalkBegin
  <2>2. x \in WalkType
    BY <1>f, WalkMakers
  <2>3. x.st = "walking" /\ x.before <= e.written
    BY <1>f
  <2> HIDE DEF x
  <2> QED
    BY <1>s, <2>1, <2>2, <2>3
<1>2. CASE WalkSees(k, v)
  <2>1. m.st = "walking" /\ UNCHANGED <<entry, stage, task, conv, reading, file, lost>>
    BY <1>2 DEF WalkSees
  <2>2. m.before \in Nat /\ m.moved \in Nat /\ m.stale \in BOOLEAN
    BY <1>0, <2>1, WalkForms
  <2> DEFINE there == Cardinality(LinkedIn(F))
  <2>3. PICK bytes \in Max({there - m.moved, 0}) .. there :
          walk' = [walk EXCEPT ![k][v] =
                     [ st |-> "seen", before |-> m.before, bytes |-> bytes,
                       stale |-> m.stale \/ bytes < there ]]
    BY <1>2, <1>l DEF WalkSees
  <2>4. Max({there - m.moved, 0}) \in Nat
    BY <1>f, <2>2, MaxOfTwo
  <2>5. bytes \in Nat
    BY <1>f, <2>4
  <2> DEFINE y == m.stale \/ bytes < there
             x == [ st |-> "seen", before |-> m.before, bytes |-> bytes, stale |-> y ]
  <2>6. y \in BOOLEAN /\ (~y => ~m.stale /\ bytes >= there)
    BY <1>f, <2>2, <2>5
  <2> HIDE DEF y
  <2>7. /\ x \in WalkType /\ x.st = "seen" /\ x.before = m.before /\ x.bytes = bytes
        /\ x.stale = y
    BY <2>2, <2>5, <2>6, WalkMakers
  <2>8. walk' = [walk EXCEPT ![k][v] = x]
    BY <2>3 DEF y
  <2>9. s \notin {"none", "starting"}
    BY <1>0, <2>1 DEF Charged, Staged, Idle
  <2>10. Known(e) /\ ~m.stale => m.before <= e.written
    BY <1>m, <2>1 DEF Measures
  <2> HIDE DEF x, n
  <2>11. Known(e) /\ ~x.stale => /\ x.before <= e.written
                                 /\ n + x.before <= x.bytes + e.written
    BY <1>f, <2>2, <2>5, <2>6, <2>7, <2>10
  <2> QED
    BY <1>s, <2>1, <2>7, <2>8, <2>9, <2>11 DEF n
<1>3. CASE WalkFails(k, v)
  <2>1. /\ walk' = [walk EXCEPT ![k][v] = Idle]
        /\ UNCHANGED <<entry, stage, task, conv, reading, file, lost>>
    BY <1>3 DEF WalkFails
  <2> QED
    BY <1>s, <2>1, WalkMakers DEF Idle
<1>4. CASE WalkObserves(k, v)
  <2>1. /\ m.st = "seen" /\ Amend(k, Measured(k, m))
        /\ UNCHANGED <<stage, task, conv, reading, file>>
        /\ walk' = [walk EXCEPT ![k] = [Overtaken(k) EXCEPT ![v] = Idle]]
        /\ lost' = [lost EXCEPT ![k] = IF m.stale THEN "now"
                                       ELSE IF @ = "now" THEN "healed" ELSE @]
    BY <1>4 DEF WalkObserves
  <2>2. m.before \in Nat /\ m.bytes \in Nat /\ m.stale \in BOOLEAN
    BY <1>0, <2>1, WalkForms
  <2>3. /\ X = [Overtaken(k) EXCEPT ![v] = Idle]
        /\ lost'[k] # "now" => ~m.stale
        /\ \A j \in Key \ {k} : walk'[j] = walk[j] /\ lost'[j] = lost[j]
    BY <1>0, <2>1
  <2>4. Overtaken(k) \in [Walker -> WalkType]
    BY OvertakenTyped DEF Ours
  <2>5. \A u \in Walker : /\ X[u].st # "idle" => X[u].stale
                          /\ W[u] = Idle => X[u] = Idle
    BY <2>3, <2>4, Overtaking DEF Ours, Idle
  <2>6. f = IF Present(k) THEN Measured(k, m) ELSE e
    BY <1>0, <2>1 DEF Amend
  <2>7. CASE Present(k)
    <3>1. f = [e EXCEPT !.used = m.bytes, !.written = Max({e.written - m.before, 0})]
      BY <2>6, <2>7 DEF Measured
    <3>2. /\ f.used = m.bytes /\ f.written = Max({e.written - m.before, 0})
          /\ f.grant = e.grant /\ f.life = e.life /\ f.fenced = e.fenced
          /\ f.writers = e.writers /\ f.gen = e.gen /\ f.pins = e.pins
          /\ f.linked = e.linked
      BY <1>0, <3>1 DEF EntryType
    <3>3. e.written - m.before \in Int
      BY <1>f, <2>2
    <3>4. Max({e.written - m.before, 0}) \in Nat
          /\ Max({e.written - m.before, 0}) >= e.written - m.before
      BY <3>3, MaxOfTwo
    <3>5. Known(e)
      BY <2>7 DEF Present, Known
    <3> HIDE DEF f, X, n
    <3>6. ~m.stale => n + m.before <= m.bytes + e.written
      BY <1>m, <2>1, <3>5 DEF Measures
    <3>7. ~m.stale => n <= f.used + f.written
      BY <1>f, <2>2, <3>2, <3>4, <3>6
    <3>8. Measures(f, lost'[k], X, n)
      BY <2>3, <2>5, <3>7 DEF Measures
    <3>9. Retains(f, c, LinkedIn(F)) /\ Staged(f, s, LinkedIn(F), X, R) /\ Pins(f, R)
      BY <1>0, <2>5, <3>2 DEF Charged, Retains, Staged, Pins, Known
    <3>10. Charged(f, s, lost'[k], F, T, X, c, R)
      BY <3>8, <3>9 DEF Charged, n
    <3> QED
      BY <2>1, <2>3, <3>10 DEF ChargedAt, Aside, f, X
  <2>8. CASE ~Present(k)
    <3>1. f = e /\ ~Known(e)
      BY <2>6, <2>8 DEF Present, Known
    <3>2. e.grant = 0
      BY <1>0, <2>8 DEF Booked, Present, Blank, Forgotten
    <3> HIDE DEF f, X
    <3>3. n = 0
      BY <1>0, <3>2, LandedLinked DEF Charged, Retains
    <3> HIDE DEF n
    <3>4. Measures(e, lost'[k], X, n)
      BY <1>f, <3>1, <3>3 DEF Measures
    <3>5. Staged(e, s, LinkedIn(F), X, R)
      BY <1>0, <2>5 DEF Charged, Staged
    <3>6. Charged(f, s, lost'[k], F, T, X, c, R)
      BY <1>0, <3>1, <3>4, <3>5 DEF Charged, n
    <3> QED
      BY <2>1, <2>3, <3>6 DEF ChargedAt, Aside, f, X
  <2> QED
    BY <2>7, <2>8
<1> QED
  BY <1>1, <1>2, <1>3, <1>4

\* A regrant leaves something granted.
LEMMA RegrantCharged ==
    ASSUME NEW k \in Key, Ours(k), Regrant(k)
    PROVE  ChargedAt(k)' /\ Aside(k)
<1> DEFINE e == entry[k]  f == entry'[k]  s == stage[k]  l == lost[k]  F == file[k]
           T == task[k]  W == walk[k]  c == conv[k]  R == reading[k]
           wanted == Max({e.used + Envelope, Materialized(e)})
<1>0. /\ entry \in [Key -> EntryType] /\ e \in EntryType
      /\ Charged(e, s, l, F, T, W, c, R)
      /\ e.used \in Nat /\ Materialized(e) \in Nat /\ Envelope \in Nat
  BY EntryFields, ScratchAssumption DEF Ours, TypeOK, ChargedAt, ScratchAssumption
<1>1. /\ Envelope > 0 /\ ~e.fenced /\ f = [e EXCEPT !.grant = wanted]
      /\ UNCHANGED <<stage, task, walk, conv, reading, file, lost>>
  BY <1>0 DEF Regrant, Enter
<1>a. e.used + Envelope \in Int
  BY <1>0
<1>b. wanted = IF e.used + Envelope >= Materialized(e) THEN e.used + Envelope
               ELSE Materialized(e)
  BY <1>0, <1>a, MaxOfTwo
<1>2. wanted # 0
  BY <1>0, <1>1, <1>b
<1> HIDE DEF wanted
<1>3. /\ f.used = e.used /\ f.written = e.written /\ f.grant # 0
      /\ f.life = e.life /\ f.fenced = e.fenced /\ f.writers = e.writers
      /\ f.gen = e.gen /\ f.pins = e.pins /\ f.linked = e.linked
  BY <1>0, <1>1, <1>2 DEF EntryType
<1> HIDE DEF f
<1>4. Measures(f, l, W, Cardinality(LandedIn(F, T)))
  BY <1>0, <1>3 DEF Charged, Measures, Known
<1>5. Retains(f, c, LinkedIn(F))
  BY <1>0, <1>1, <1>3 DEF Charged, Retains
<1>6. Staged(f, s, LinkedIn(F), W, R) /\ Pins(f, R)
  BY <1>0, <1>3 DEF Charged, Staged, Pins, Known
<1>7. Charged(f, s, l, F, T, W, c, R)
  BY <1>4, <1>5, <1>6 DEF Charged
<1> QED
  BY <1>1, <1>7 DEF ChargedAt, Aside, f

\* What acquire_pin and release_pin make of an entry.
Taken(e, o, r) ==
    [e EXCEPT !.pins[o] = @ \cup {r},
              !.linked[o] = IF e.pins[o] = {} THEN e.life # "releasing" ELSE @]

Given(e, o, r) ==
    [e EXCEPT !.pins[o] = @ \ {r}, !.linked[o] = @ \/ e.pins[o] = {r}]

\* Either changes what the one object's pins are, and nothing else.
LEMMA PinTaken ==
    ASSUME NEW e \in EntryType, NEW o \in Object, NEW r \in Reader
    PROVE  LET g == Taken(e, o, r) IN
           /\ g \in EntryType
           /\ g.used = e.used /\ g.written = e.written /\ g.grant = e.grant
           /\ g.life = e.life /\ g.fenced = e.fenced /\ g.writers = e.writers
           /\ g.gen = e.gen
           /\ g.pins[o] = e.pins[o] \cup {r}
           /\ g.linked[o] <=> (IF e.pins[o] = {} THEN e.life # "releasing" ELSE e.linked[o])
           /\ \A x \in Object \ {o} : g.pins[x] = e.pins[x]
           /\ \A x \in Object \ {o} : g.linked[x] <=> e.linked[x]
<1> DEFINE g == Taken(e, o, r)
<1>1. g \in EntryType
  BY DEF EntryType, Taken
<1>2. /\ g.used = e.used /\ g.written = e.written /\ g.grant = e.grant
      /\ g.life = e.life /\ g.fenced = e.fenced /\ g.writers = e.writers
      /\ g.gen = e.gen
  BY DEF EntryType, Taken
<1>3. /\ g.pins = [e.pins EXCEPT ![o] = @ \cup {r}]
      /\ g.linked = [e.linked EXCEPT ![o] = IF e.pins[o] = {} THEN e.life # "releasing" ELSE @]
  BY DEF EntryType, Taken
<1>4. e.pins \in [Object -> SUBSET Reader] /\ e.linked \in [Object -> BOOLEAN]
  BY DEF EntryType, Taken
<1> HIDE DEF g
<1>5. /\ g.pins[o] = e.pins[o] \cup {r}
      /\ \A x \in Object \ {o} : g.pins[x] = e.pins[x]
  BY <1>3, <1>4
<1>6. /\ g.linked[o] <=> (IF e.pins[o] = {} THEN e.life # "releasing" ELSE e.linked[o])
      /\ \A x \in Object \ {o} : g.linked[x] <=> e.linked[x]
  BY <1>3, <1>4
<1> QED
  BY <1>1, <1>2, <1>5, <1>6 DEF g

LEMMA PinGiven ==
    ASSUME NEW e \in EntryType, NEW o \in Object, NEW r \in Reader
    PROVE  LET g == Given(e, o, r) IN
           /\ g \in EntryType
           /\ g.used = e.used /\ g.written = e.written /\ g.grant = e.grant
           /\ g.life = e.life /\ g.fenced = e.fenced /\ g.writers = e.writers
           /\ g.gen = e.gen
           /\ g.pins[o] = e.pins[o] \ {r}
           /\ g.linked[o] <=> (e.linked[o] \/ e.pins[o] = {r})
           /\ \A x \in Object \ {o} : g.pins[x] = e.pins[x]
           /\ \A x \in Object \ {o} : g.linked[x] <=> e.linked[x]
<1> DEFINE g == Given(e, o, r)
<1>1. g \in EntryType
  BY DEF EntryType, Given
<1>2. /\ g.used = e.used /\ g.written = e.written /\ g.grant = e.grant
      /\ g.life = e.life /\ g.fenced = e.fenced /\ g.writers = e.writers
      /\ g.gen = e.gen
  BY DEF EntryType, Given
<1>3. /\ g.pins = [e.pins EXCEPT ![o] = @ \ {r}]
      /\ g.linked = [e.linked EXCEPT ![o] = @ \/ e.pins[o] = {r}]
  BY DEF EntryType, Given
<1>4. e.pins \in [Object -> SUBSET Reader] /\ e.linked \in [Object -> BOOLEAN]
  BY DEF EntryType, Given
<1> HIDE DEF g
<1>5. /\ g.pins[o] = e.pins[o] \ {r}
      /\ \A x \in Object \ {o} : g.pins[x] = e.pins[x]
  BY <1>3, <1>4
<1>6. /\ g.linked[o] <=> (e.linked[o] \/ e.pins[o] = {r})
      /\ \A x \in Object \ {o} : g.linked[x] <=> e.linked[x]
  BY <1>3, <1>4
<1> QED
  BY <1>1, <1>2, <1>5, <1>6 DEF g

\* The readers' steps: what is opened while the names are there is pinned before
\* or after they go, and its pin keeps the entry.
LEMMA ReadersCharged ==
    ASSUME NEW k \in Key, NEW r \in Reader, Ours(k),
           (\E o \in Object : OpenObject(k, r, o)) \/ AcquirePin(k, r) \/ ReleasePin(k, r)
    PROVE  ChargedAt(k)' /\ Aside(k)
<1> DEFINE e == entry[k]  f == entry'[k]  s == stage[k]  l == lost[k]  F == file[k]
           T == task[k]  W == walk[k]  c == conv[k]  R == reading[k]  Q == reading'[k]
           p == reading[k][r].obj
<1>0. /\ entry \in [Key -> EntryType] /\ e \in EntryType
      /\ reading \in [Key -> [Reader -> ReadingType]]
      /\ R \in [Reader -> ReadingType] /\ Q \in [Reader -> ReadingType]
      /\ c \in ConvType /\ W \in [Walker -> WalkType]
      /\ Charged(e, s, l, F, T, W, c, R)
      /\ UNCHANGED <<stage, task, walk, conv, file, lost>>
  BY DEF Ours, TypeOK, ChargedAt, OpenObject, AcquirePin, ReleasePin
<1>o. \A q \in Reader : R[q].st \in {"opened", "pinned"} => R[q].obj \in Object
  BY <1>0 DEF ReadingType, Idle
\* Where a read that may change becomes x, and the entry but for its pins stays.
<1>s. ASSUME NEW x, SetReading(k, r, x),
             s \notin {"none", "starting", "dropped"},
             NEW g \in EntryType,
             g.used = e.used, g.written = e.written, g.grant = e.grant,
             g.life = e.life, g.fenced = e.fenced, g.writers = e.writers, g.gen = e.gen,
             s = "done" /\ Known(e) =>
               \A o \in Object : g.pins[o] # {} => ~g.linked[o],
             x.st = "pinned" => Known(e) /\ r \in g.pins[x.obj],
             \A q \in Reader \ {r} : R[q].st = "pinned" /\ q \in e.pins[R[q].obj] =>
                                       q \in g.pins[R[q].obj]
      PROVE  /\ Charged(g, s, l, F, T, W, c, Q)
             /\ \A j \in Key \ {k} : reading'[j] = reading[j]
  <2>1. /\ Q[r] = x /\ \A q \in Reader \ {r} : Q[q] = R[q]
        /\ \A j \in Key \ {k} : reading'[j] = reading[j]
    BY <1>0, <1>s DEF SetReading
  <2> HIDE DEF Q
  <2>2. Measures(g, l, W, Cardinality(LandedIn(F, T)))
    BY <1>0, <1>s DEF Charged, Measures, Known
  <2>3. Retains(g, c, LinkedIn(F)) /\ Staged(g, s, LinkedIn(F), W, Q)
    BY <1>0, <1>s DEF Charged, Retains, Staged, Known
  <2>4. Pins(g, Q)
    BY <1>0, <1>s, <2>1 DEF Charged, Pins, Known
  <2> QED
    BY <2>1, <2>2, <2>3, <2>4 DEF Charged
<1>t. ASSUME Charged(f, s, l, F, T, W, c, Q),
             \A j \in Key \ {k} : reading'[j] = reading[j]
      PROVE  ChargedAt(k)' /\ Aside(k)
  BY <1>0, <1>t DEF ChargedAt, Aside
<1>1. CASE \E o \in Object : OpenObject(k, r, o)
  <2>1. PICK o \in Object : OpenObject(k, r, o)
    BY <1>1
  <2> DEFINE x == [st |-> "opened", obj |-> o]
  <2>2. /\ SetReading(k, r, x) /\ x.st = "opened" /\ f = e
        /\ s \notin {"none", "starting", "dropped", "done"}
    BY <2>1 DEF OpenObject
  <2> HIDE DEF x, f, Q
  <2>3. /\ Charged(e, s, l, F, T, W, c, Q)
        /\ \A j \in Key \ {k} : reading'[j] = reading[j]
    BY <1>0, <1>s, <2>2
  <2> QED
    BY <1>t, <2>2, <2>3 DEF f, Q
<1>2. CASE AcquirePin(k, r)
  <2> DEFINE g == Taken(e, p, r)
             y == [st |-> "pinned", obj |-> p]
             x == IF Present(k) THEN y ELSE Idle
  <2>1. SetReading(k, r, x) /\ R[r].st = "opened" /\ Amend(k, g)
    BY <1>2 DEF AcquirePin, Taken
  <2>2. p \in Object /\ s \notin {"none", "starting", "dropped"}
    BY <1>0, <1>o, <2>1 DEF Charged, Staged, Idle
  <2>4. f = IF Present(k) THEN g ELSE e
    BY <1>0, <2>1 DEF Amend
  <2>3. e \in EntryType
    BY <1>0
  <2>5. /\ g \in EntryType
        /\ g.used = e.used /\ g.written = e.written /\ g.grant = e.grant
        /\ g.life = e.life /\ g.fenced = e.fenced /\ g.writers = e.writers
        /\ g.gen = e.gen
        /\ g.pins[p] = e.pins[p] \cup {r}
        /\ g.linked[p] <=> (IF e.pins[p] = {} THEN e.life # "releasing" ELSE e.linked[p])
        /\ \A o \in Object \ {p} : g.pins[o] = e.pins[o]
        /\ \A o \in Object \ {p} : g.linked[o] <=> e.linked[o]
    BY <2>2, <2>3, PinTaken
  <2>6. Present(k) <=> Known(e)
    BY DEF Present, Known
  <2>7. Idle.st = "idle" /\ y.st = "pinned" /\ y.obj = p
    BY DEF Idle
  <2> HIDE DEF g, f, y, Q
  <2>8. CASE Present(k)
    <3>1. x = y
      BY <2>8
    <3> HIDE DEF x
    <3>2. s = "done" => \A o \in Object : g.pins[o] # {} => ~g.linked[o]
      BY <1>0, <2>2, <2>5, <2>6, <2>8 DEF Charged, Staged
    <3>3. r \in g.pins[y.obj]
      BY <2>5, <2>7
    <3>4. \A q \in Reader \ {r} : R[q].st = "pinned" /\ q \in e.pins[R[q].obj] =>
                                    q \in g.pins[R[q].obj]
      BY <1>o, <2>5
    <3>5. /\ Charged(g, s, l, F, T, W, c, Q)
          /\ \A j \in Key \ {k} : reading'[j] = reading[j]
      BY <1>s, <2>1, <2>2, <2>5, <2>6, <2>8, <3>1, <3>2, <3>3, <3>4
    <3> QED
      BY <1>t, <2>4, <2>8, <3>5 DEF f, Q
  <2>9. CASE ~Present(k)
    <3>1. x = Idle
      BY <2>9
    <3> HIDE DEF x
    <3>2. /\ Charged(e, s, l, F, T, W, c, Q)
          /\ \A j \in Key \ {k} : reading'[j] = reading[j]
      BY <1>0, <1>s, <2>1, <2>2, <2>6, <2>7, <2>9, <3>1
    <3> QED
      BY <1>t, <2>4, <2>9, <3>2 DEF f, Q
  <2> QED
    BY <2>8, <2>9
<1>3. CASE ReleasePin(k, r)
  <2> DEFINE g == Given(e, p, r)
  <2>1. SetReading(k, r, Idle) /\ R[r].st = "pinned" /\ Amend(k, Collected(g))
    BY <1>3 DEF ReleasePin, Given
  <2>2. /\ p \in Object /\ s \notin {"none", "starting", "dropped"} /\ Known(e)
    BY <1>0, <1>o, <2>1 DEF Charged, Staged, Pins, Idle
  <2>4. f = Collected(g)
    BY <1>0, <2>1, <2>2 DEF Amend, Present, Known
  <2>3. e \in EntryType
    BY <1>0
  <2>5. /\ g \in EntryType
        /\ g.used = e.used /\ g.written = e.written /\ g.grant = e.grant
        /\ g.life = e.life /\ g.fenced = e.fenced /\ g.writers = e.writers
        /\ g.gen = e.gen
        /\ g.pins[p] = e.pins[p] \ {r}
        /\ g.linked[p] <=> (e.linked[p] \/ e.pins[p] = {r})
        /\ \A o \in Object \ {p} : g.pins[o] = e.pins[o]
        /\ \A o \in Object \ {p} : g.linked[o] <=> e.linked[o]
    BY <2>2, <2>3, PinGiven
  <2>6. Idle.st = "idle"
    BY DEF Idle
  <2> HIDE DEF g, f, Q
  <2>7. s = "done" => \A o \in Object : g.pins[o] # {} => ~g.linked[o]
    BY <1>0, <2>2, <2>5 DEF Charged, Staged
  <2>8. \A q \in Reader \ {r} : R[q].st = "pinned" /\ q \in e.pins[R[q].obj] =>
                                  q \in g.pins[R[q].obj]
    BY <1>o, <2>5
  <2>9. /\ Charged(g, s, l, F, T, W, c, Q)
        /\ \A j \in Key \ {k} : reading'[j] = reading[j]
    BY <1>s, <2>1, <2>2, <2>5, <2>6, <2>7, <2>8
  <2>10. Charged(Collected(g), s, l, F, T, W, c, Q)
    BY <1>0, <2>5, <2>9, CollectedCharged DEF Q
  <2> QED
    BY <1>t, <2>4, <2>9, <2>10 DEF f, Q
<1> QED
  BY <1>1, <1>2, <1>3

\* Retirement, conversion and cleanup: a commit that is made finds no less than
\* what is there, and the names are accounted only when they are gone.
LEMMA RetirementCharged ==
    ASSUME NEW k \in Key, Ours(k),
           \/ BeginRetirement(k) \/ WritersSettle(k)
           \/ ConvertBegins(k) \/ ConvertSees(k) \/ ConvertCommits(k)
           \/ BeginRelease(k) \/ ClearDir(k) \/ RemoveDir(k) \/ AccountUnlinkAll(k)
    PROVE  ChargedAt(k)' /\ Aside(k)
<1> DEFINE e == entry[k]  f == entry'[k]  s == stage[k]  l == lost[k]  F == file[k]
           T == task[k]  W == walk[k]  c == conv[k]  R == reading[k]
<1>0. /\ entry \in [Key -> EntryType] /\ e \in EntryType
      /\ stage \in [Key -> StageType] /\ s \in StageType
      /\ walk \in [Key -> [Walker -> WalkType]] /\ W \in [Walker -> WalkType]
      /\ conv \in [Key -> ConvType] /\ c \in ConvType /\ conv'[k] \in ConvType
      /\ R \in [Reader -> ReadingType]
      /\ lost \in [Key -> {"never", "now", "healed"}]
      /\ file \in [Key -> [Object -> {"none", "linked", "removed"}]]
      /\ Booked(e, T) /\ Stands(e, s, c, Cardinality(Linked(k)))
      /\ Charged(e, s, l, F, T, W, c, R)
  BY DEF Ours, TypeOK, Sound, ChargedAt
<1>f. /\ e.grant \in Nat /\ e.used \in Nat /\ e.written \in Nat /\ e.gen \in Nat
  BY <1>0, EntryFields
<1>l. Linked(k) = LinkedIn(F)
  BY DEF Linked, LinkedIn
\* Where the directory, the walks and what is believed of them stay.
<1>s. ASSUME UNCHANGED <<task, walk, reading, file, lost>>,
             Charged(f, stage'[k], l, F, T, W, conv'[k], R)
      PROVE  ChargedAt(k)' /\ Aside(k)
  BY <1>s DEF ChargedAt, Aside
\* The stages between the first and the last are alike.
<1>m. ASSUME NEW z, z \notin {"none", "starting", "removed", "done", "dropped"},
             NEW d, d.st = "seen" => d = c
      PROVE  Charged(e, z, l, F, T, W, d, R)
  BY <1>0, <1>m DEF Charged, Retains, Staged
<1>d. ASSUME NEW done, Converted(k, done), c.st # "off"
      PROVE  /\ s \notin {"none", "starting"}
             /\ stage'[k] \in {s, "serving"} /\ conv'[k].st # "seen"
             /\ stage'[k] = s \/ s = "converting"
  <2>1. s \notin {"none", "starting"}
    BY <1>0, <1>d DEF Stands
  <2>2. stage'[k] = IF s = "converting" THEN "serving" ELSE s
    BY <1>0, <1>d DEF Converted
  <2>3. NoConvert.st = "off" /\ \A x : Retrying(x).st = "retry"
    BY DEF NoConvert, Retrying
  <2>4. conv'[k] = IF done THEN NoConvert
                   ELSE IF s = "converting" THEN Retrying(ConversionAttempts)
                   ELSE IF c.left > 1 THEN Retrying(c.left - 1)
                   ELSE NoConvert
    BY <1>0, <1>d DEF Converted
  <2> QED
    BY <2>1, <2>2, <2>3, <2>4
<1>e. ASSUME NEW done, Converted(k, done), c.st # "off",
             UNCHANGED <<entry, task, walk, reading, file, lost>>
      PROVE  ChargedAt(k)' /\ Aside(k)
  <2>1. Charged(e, stage'[k], l, F, T, W, conv'[k], R)
    BY <1>0, <1>d, <1>e DEF Charged, Retains, Staged
  <2> QED
    BY <1>e, <1>s, <2>1
<1>1. CASE BeginRetirement(k)
  <2> DEFINE g == [e EXCEPT !.fenced = TRUE,
                            !.life = IF @ \in {"provisional", "producing"}
                                     THEN "retiring" ELSE @]
  <2>1. /\ Amend(k, g) /\ s = "live" /\ stage'[k] = "settling"
        /\ UNCHANGED <<task, walk, conv, reading, file, lost>>
    BY <1>0, <1>1 DEF BeginRetirement
  <2>2. f = IF Present(k) THEN g ELSE e
    BY <1>0, <2>1 DEF Amend
  <2>3. /\ g.used = e.used /\ g.written = e.written /\ g.grant = e.grant
        /\ g.fenced /\ g.writers = e.writers /\ g.gen = e.gen
        /\ g.pins = e.pins /\ g.linked = e.linked
        /\ g.life = IF e.life \in {"provisional", "producing"} THEN "retiring" ELSE e.life
    BY <1>0 DEF EntryType
  <2> HIDE DEF f, g
  <2>4. Charged(e, "settling", l, F, T, W, c, R)
    BY <1>m
  <2>5. Charged(g, "settling", l, F, T, W, c, R)
    BY <2>3, <2>4 DEF Charged, Measures, Retains, Staged, Pins, Known
  <2> QED
    BY <1>s, <2>1, <2>2, <2>4, <2>5 DEF f
<1>2. CASE WritersSettle(k)
  <2>1. /\ s = "settling" /\ UNCHANGED <<entry, task, walk, reading, file, lost>>
        /\ stage'[k] \in {"converting", "serving"} /\ conv'[k].st # "seen"
    BY <1>0, <1>2 DEF WritersSettle, Retrying
  <2>2. Charged(e, stage'[k], l, F, T, W, conv'[k], R)
    BY <1>m, <2>1
  <2> QED
    BY <1>s, <2>1, <2>2
<1>3. CASE ConvertBegins(k)
  <2>1. /\ UNCHANGED <<entry, task, walk, reading, file, lost>>
        /\ c.st \in {"inline", "retry"}
    BY <1>3 DEF ConvertBegins
  <2>2. CASE Converted(k, ~Present(k))
    BY <1>e, <2>1, <2>2
  <2>3. CASE /\ conv' = [conv EXCEPT ![k] =
                           [st |-> "walking", left |-> Left(k), gen |-> e.gen]]
             /\ UNCHANGED stage
    <3>1. conv'[k].st = "walking"
      BY <1>0, <2>3
    <3>2. Charged(e, s, l, F, T, W, conv'[k], R)
      BY <1>0, <3>1 DEF Charged, Retains
    <3> QED
      BY <1>s, <2>1, <2>3, <3>2
  <2> QED
    BY <1>3, <2>2, <2>3 DEF ConvertBegins
<1>4. CASE ConvertSees(k)
  <2>1. UNCHANGED <<entry, task, walk, reading, file, lost>> /\ c.st = "walking"
    BY <1>4 DEF ConvertSees
  <2>2. CASE Converted(k, FALSE)
    BY <1>e, <2>1, <2>2
  <2>3. CASE /\ conv' = [conv EXCEPT ![k] =
                     [ st |-> "seen", left |-> c.left, gen |-> c.gen,
                       bytes |-> Cardinality(Linked(k)) ]]
             /\ UNCHANGED stage
    <3>1. conv'[k].bytes = Cardinality(LinkedIn(F))
      BY <1>0, <1>l, <2>3
    <3>a. Cardinality(LinkedIn(F)) \in Nat
      BY LandedLinked
    <3>2. Charged(e, s, l, F, T, W, conv'[k], R)
      BY <1>0, <3>1, <3>a DEF Charged, Retains
    <3> QED
      BY <1>s, <2>1, <2>3, <3>2
  <2> QED
    BY <1>4, <2>2, <2>3 DEF ConvertSees
<1>5. CASE ConvertCommits(k)
  <2> DEFINE ok == Present(k) /\ e.writers = {} /\ e.gen = c.gen
             g == [e EXCEPT !.used = c.bytes, !.written = 0, !.grant = c.bytes,
                            !.life = IF @ = "retiring" THEN "retained" ELSE @]
  <2>1. c.st = "seen" /\ Converted(k, ok) /\ UNCHANGED <<task, reading, file>>
    BY <1>5 DEF ConvertCommits
  <2>2. CASE ~ok
    <3>1. UNCHANGED <<entry, walk, lost>>
      BY <1>5, <2>2 DEF ConvertCommits
    <3> HIDE DEF ok
    <3> QED
      BY <1>e, <2>1, <3>1
  <2>3. CASE ok
    <3>1. /\ f = g /\ walk' = [walk EXCEPT ![k] = Overtaken(k)]
          /\ lost' = [lost EXCEPT ![k] = IF @ = "now" THEN "healed" ELSE @]
      BY <1>0, <1>5, <2>3 DEF ConvertCommits, Enter
    <3>2. e.writers = {} /\ e.gen = c.gen /\ Known(e)
      BY <2>3 DEF Present, Known
    <3> HIDE DEF ok
    <3>3. /\ s \notin {"none", "starting"}
          /\ stage'[k] \in {s, "serving"} /\ conv'[k].st # "seen"
          /\ stage'[k] = s \/ s = "converting"
      BY <1>d, <2>1
    <3>4. /\ g.used = c.bytes /\ g.written = 0 /\ g.grant = c.bytes
          /\ g.fenced = e.fenced /\ g.writers = {} /\ g.pins = e.pins
          /\ g.linked = e.linked
          /\ g.life = IF e.life = "retiring" THEN "retained" ELSE e.life
      BY <1>0, <3>2 DEF EntryType
    <3>5. c.bytes \in Nat /\ Cardinality(LinkedIn(F)) <= c.bytes
      BY <1>0, <2>1, <3>2, ConvForms DEF Charged, Retains
    <3>6. /\ walk'[k] = Overtaken(k)
          /\ \A j \in Key \ {k} : walk'[j] = walk[j] /\ lost'[j] = lost[j]
      BY <1>0, <3>1
    <3>7. /\ Cardinality(LandedIn(F, T)) \in Nat /\ Cardinality(LinkedIn(F)) \in Nat
          /\ Cardinality(LandedIn(F, T)) <= Cardinality(LinkedIn(F))
          /\ Cardinality(LinkedIn(F)) = 0 => LinkedIn(F) = {}
      <4>1. LinkedIn(F) \in SUBSET Object
        BY DEF LinkedIn
      <4> QED
        BY <4>1, LandedLinked, Objects
    <3> HIDE DEF f, g
    <3>8. Measures(g, lost'[k], walk'[k], Cardinality(LandedIn(F, T)))
      <4>1. \A v \in Walker : walk'[k][v].st # "idle" => walk'[k][v].stale
        BY <3>6, Overtaking DEF Ours
      <4>2. Cardinality(LandedIn(F, T)) <= g.used + g.written
        BY <3>4, <3>5, <3>7
      <4> QED
        BY <4>1, <4>2 DEF Measures
    <3>9. Retains(g, conv'[k], LinkedIn(F))
      BY <1>0, <3>3, <3>4, <3>5, <3>7 DEF Charged, Retains
    <3>10. Staged(g, stage'[k], LinkedIn(F), walk'[k], R)
      BY <1>0, <3>3, <3>4 DEF Charged, Staged, Known
    <3>11. Pins(g, R)
      BY <1>0, <3>4 DEF Charged, Pins, Known
    <3>12. Charged(g, stage'[k], lost'[k], F, T, walk'[k], conv'[k], R)
      BY <3>8, <3>9, <3>10, <3>11 DEF Charged
    <3> QED
      BY <2>1, <3>1, <3>6, <3>12 DEF ChargedAt, Aside, f
  <2> QED
    BY <2>2, <2>3
<1>6. CASE BeginRelease(k)
  <2> DEFINE g == [e EXCEPT !.fenced = TRUE, !.life = "releasing"]
  <2>1. /\ Amend(k, g) /\ s \in {"serving", "live"} /\ stage'[k] = "releasing"
        /\ UNCHANGED <<task, walk, conv, reading, file, lost>>
    BY <1>0, <1>6 DEF BeginRelease
  <2>2. f = IF Present(k) THEN g ELSE e
    BY <1>0, <2>1 DEF Amend
  <2>3. /\ g.used = e.used /\ g.written = e.written /\ g.grant = e.grant
        /\ g.writers = e.writers /\ g.gen = e.gen /\ g.pins = e.pins
        /\ g.life = "releasing"
    BY <1>0 DEF EntryType
  <2> HIDE DEF f, g
  <2>4. Charged(e, "releasing", l, F, T, W, c, R)
    BY <1>m
  <2>5. Present(k) => Charged(g, "releasing", l, F, T, W, c, R)
    BY <2>3, <2>4 DEF Charged, Measures, Retains, Staged, Pins, Known, Present
  <2> QED
    BY <1>s, <2>1, <2>2, <2>4, <2>5 DEF f
<1>7. CASE ClearDir(k)
  <2> DEFINE G == file'[k]
  <2>1. /\ s = "releasing" /\ stage'[k] = "cleared"
        /\ UNCHANGED <<entry, task, walk, conv, reading, lost>>
        /\ G = [o \in Object |-> IF F[o] = "linked" THEN "removed" ELSE F[o]]
    BY <1>0, <1>7 DEF ClearDir
  <2>2. LinkedIn(G) = {} /\ LandedIn(G, T) = {}
    BY <2>1 DEF LinkedIn, LandedIn
  <2> HIDE DEF G
  <2>3. LandedIn(G, T) \subseteq LandedIn(F, T)
    BY <2>2
  <2>4. Measures(e, l, W, Cardinality(LandedIn(G, T)))
    BY <1>0, <2>3, FewerLanded DEF Charged
  <2>5. /\ Cardinality(LinkedIn(G)) = 0 /\ Cardinality(LinkedIn(F)) \in Nat
        /\ (c.st = "seen" => c.bytes \in Nat)
    BY <1>0, <2>2, FS_EmptySet, ConvForms, LandedLinked
  <2>6. Retains(e, c, LinkedIn(G))
    BY <1>0, <1>f, <2>2, <2>5 DEF Charged, Retains
  <2>7. Staged(e, "cleared", LinkedIn(G), W, R) /\ Pins(e, R)
    BY <1>0 DEF Charged, Staged
  <2>8. Charged(e, "cleared", l, G, T, W, c, R)
    BY <2>4, <2>6, <2>7 DEF Charged
  <2> QED
    BY <2>1, <2>8 DEF ChargedAt, Aside, G
<1>8. CASE RemoveDir(k)
  <2>1. /\ s = "cleared" /\ UNCHANGED <<entry, task, walk, conv, reading, file, lost>>
        /\ stage'[k] = IF LinkedIn(F) = {} THEN "removed" ELSE "releasing"
    BY <1>0, <1>8, <1>l DEF RemoveDir
  <2>2. Charged(e, stage'[k], l, F, T, W, c, R)
    BY <1>0, <2>1 DEF Charged, Staged
  <2> QED
    BY <1>s, <2>1, <2>2
<1>9. CASE AccountUnlinkAll(k)
  <2> DEFINE g == Unlinked(e)
  <2>1. /\ Amend(k, Collected(g)) /\ s = "removed" /\ stage'[k] = "done"
        /\ walk' = [walk EXCEPT ![k] = Overtaken(k)]
        /\ lost' = [lost EXCEPT ![k] = IF @ = "now" THEN "healed" ELSE @]
        /\ UNCHANGED <<task, conv, reading, file>>
    BY <1>0, <1>9 DEF AccountUnlinkAll
  <2>2. f = IF Present(k) THEN Collected(g) ELSE e
    BY <1>0, <2>1 DEF Amend
  <2>e. e \in EntryType
    BY <1>0
  <2>3. g \in EntryType
    BY <2>e DEF Unlinked, EntryType
  <2>4. /\ g.used = 0 /\ g.written = 0 /\ g.grant = 0 /\ g.life = "releasing"
        /\ g.pins = e.pins /\ g.linked = [o \in Object |-> e.pins[o] = {}]
    BY <2>e DEF Unlinked, EntryType
  <2>5. /\ LinkedIn(F) = {} /\ Cardinality(LandedIn(F, T)) = 0
        /\ Cardinality(LinkedIn(F)) = 0
    BY <1>0, <2>1, LandedLinked, FS_EmptySet DEF Charged, Staged
  <2>6. /\ walk'[k] = Overtaken(k)
        /\ \A j \in Key \ {k} : walk'[j] = walk[j] /\ lost'[j] = lost[j]
    BY <1>0, <2>1
  <2>7. \A v \in Walker : walk'[k][v].st # "idle" => walk'[k][v].stale
    BY <2>6, Overtaking DEF Ours
  <2>8. c.st = "seen" => c.bytes \in Nat
    BY <1>0, ConvForms
  <2>9. /\ Staged(e, "done", LinkedIn(F), walk'[k], R) \/ Present(k)
        /\ Staged(g, "done", LinkedIn(F), walk'[k], R)
    BY <2>4, <2>5 DEF Staged, Known, Present
  <2> HIDE DEF f, g
  <2>10. /\ Measures(g, lost'[k], walk'[k], Cardinality(LandedIn(F, T)))
         /\ Measures(e, lost'[k], walk'[k], Cardinality(LandedIn(F, T)))
    BY <1>f, <2>4, <2>5, <2>7 DEF Measures
  <2>11. Retains(g, c, LinkedIn(F))
    BY <2>4, <2>5, <2>8 DEF Retains
  <2>12. Present(k) => Pins(g, R)
    BY <1>0, <2>4 DEF Charged, Pins, Known, Present
  <2>13. Present(k) => Charged(Collected(g), "done", lost'[k], F, T, walk'[k], c, R)
    BY <1>0, <2>3, <2>9, <2>10, <2>11, <2>12, CollectedCharged DEF Charged
  <2>14. ~Present(k) => Charged(e, "done", lost'[k], F, T, walk'[k], c, R)
    BY <1>0, <2>9, <2>10 DEF Charged
  <2> QED
    BY <2>1, <2>2, <2>6, <2>13, <2>14 DEF ChargedAt, Aside, f
<1> QED
  BY <1>1, <1>2, <1>3, <1>4, <1>5, <1>6, <1>7, <1>8, <1>9

-----------------------------------------------------------------------------
(* Theorems. *)

\* An incarnation no step touches stays sound.
LEMMA UntouchedSound ==
    ASSUME NEW k \in Key, Apart(k), NEW j \in Key \ {k}, Sound(j)
    PROVE  Sound(j)' /\ ~Collapses(j)
BY DEF Apart, Sound, Linked, Collapses

\* The invariant holds before anything is minted ...
LEMMA InitSound == Init => IInv
<1> SUFFICES ASSUME Init PROVE IInv
  OBVIOUS
<1>1. TypeOK
  BY InitTyped
<1>2. ASSUME NEW k \in Key PROVE Sound(k)
  <2>1. /\ entry[k] = Blank /\ stage[k] = "none" /\ conv[k] = NoConvert
        /\ task[k] = [w \in Writer |-> Idle]
    BY <1>2 DEF Init
  <2>2. WritersOf(task[k]) = {} /\ DrawnOf(task[k]) = {}
    BY <2>1 DEF WritersOf, DrawnOf, Idle
  <2>3. /\ Blank.writers = {} /\ Blank.pending = 0 /\ Blank.grant = 0
        /\ Blank.life = "unminted" /\ NoConvert.st = "off"
    BY DEF Blank, NoConvert
  <2>4. Cardinality(DrawnOf(task[k])) = 0
    BY <2>2, DrawnFinite
  <2>5. Reservation * 0 = 0
    BY ScratchAssumption DEF ScratchAssumption
  <2>6. Booked(entry[k], task[k])
    BY <2>1, <2>2, <2>3, <2>4, <2>5 DEF Booked
  <2>7. Stands(entry[k], stage[k], conv[k], Cardinality(Linked(k)))
    BY <2>1, <2>3 DEF Stands
  <2> QED
    BY <2>6, <2>7 DEF Sound
<1> QED
  BY <1>1, <1>2 DEF IInv

\* A step of one incarnation: the types, its own invariant, and an exact collapse.
LEMMA StepSound ==
    ASSUME IInv, NEW k \in Key, Step(k)
    PROVE  /\ TypeOK' /\ Sound(k)' /\ Apart(k)
           /\ Collapses(k) => entry'[k].grant = Cardinality(Linked(k)) /\ Writing(k) = {}
<1>0. TypeOK /\ Sound(k)
  BY DEF IInv
<1>1. CASE Reserve(k) \/ Bind(k) \/ Abandon(k)
  BY <1>0, <1>1, AdmissionTyped, AdmissionSound
<1>2. CASE \E w \in Writer :
             \/ RegisterWriter(k, w) \/ FinishWriter(k, w)
             \/ \E o \in Object : AskWrite(k, w, o)
             \/ Grow(k, w) \/ AskAgain(k, w)
             \/ Write(k, w) \/ Landed(k, w) \/ RenameObject(k, w) \/ Unlanded(k, w)
  BY <1>0, <1>2, WritersTyped, WritersSound
<1>3. CASE Regrant(k) \/ \E v \in Walker :
             WalkBegin(k, v) \/ WalkSees(k, v) \/ WalkFails(k, v) \/ WalkObserves(k, v)
  BY <1>0, <1>3, WalksTyped, WalksSound, RegrantTyped, RegrantSound
<1>4. CASE \E r \in Reader :
             \/ \E o \in Object : OpenObject(k, r, o)
             \/ AcquirePin(k, r) \/ ReleasePin(k, r)
  BY <1>0, <1>4, ReadersTyped, ReadersSound
<1>5. CASE \/ BeginRetirement(k) \/ WritersSettle(k)
           \/ ConvertBegins(k) \/ ConvertSees(k) \/ ConvertCommits(k)
           \/ BeginRelease(k) \/ ClearDir(k) \/ RemoveDir(k) \/ AccountUnlinkAll(k)
  BY <1>0, <1>5, RetirementTyped, RetirementSound
<1> QED
  BY <1>1, <1>2, <1>3, <1>4, <1>5 DEF Step

\* ... and after every step, each of which is one incarnation's.
LEMMA NextSound ==
    ASSUME IInv, [Next]_vars
    PROVE  /\ IInv'
           /\ \A k \in Key : Collapses(k) =>
                entry'[k].grant = Cardinality(Linked(k)) /\ Writing(k) = {}
<1>1. CASE Next
  <2>1. PICK k \in Key : Step(k)
    BY <1>1 DEF Next
  <2>2. /\ TypeOK' /\ Sound(k)' /\ Apart(k)
        /\ Collapses(k) => entry'[k].grant = Cardinality(Linked(k)) /\ Writing(k) = {}
    BY <2>1, StepSound
  <2>3. ASSUME NEW j \in Key \ {k} PROVE Sound(j)' /\ ~Collapses(j)
    BY <2>2, <2>3, UntouchedSound DEF IInv
  <2> QED
    BY <2>2, <2>3 DEF IInv
<1>2. CASE UNCHANGED vars
  <2>1. TypeOK'
    BY <1>2 DEF IInv, TypeOK, vars
  <2>2. ASSUME NEW k \in Key PROVE Sound(k)' /\ ~Collapses(k)
    <3>1. Sound(k)
      BY <2>2 DEF IInv
    <3> QED
      BY <1>2, <3>1 DEF vars, Sound, Linked, Collapses
  <2> QED
    BY <2>1, <2>2 DEF IInv
<1> QED
  BY <1>1, <1>2

\* No figure of the ledger ever falls below zero, and no walk, conversion or
\* read holds anything but figures, however the critical sections interleave.
THEOREM TypeCorrect == Spec => []TypeOK
<1>1. IInv /\ [Next]_vars => IInv'
  BY NextSound
<1>2. IInv => TypeOK
  BY DEF IInv
<1> QED
  BY <1>1, <1>2, InitSound, PTL DEF Spec

\* What authorize_write has reserved for writes in flight is inside the grant
\* until the names are gone, whatever regrant, the other writers and the owners
\* of the retired charge do between its sections.
THEOREM ReservationsInsideGrant == Spec => []ReservationsGranted
<1>1. IInv /\ [Next]_vars => IInv'
  BY NextSound
<1>2. IInv => ReservationsGranted
  BY DEF IInv, Sound, Stands, ReservationsGranted
<1> QED
  BY <1>1, <1>2, InitSound, PTL DEF Spec

\* commit_quiescent_measurement collapses a retired charge onto exactly what is
\* in the directory, with no writer left: the generation it compares has told
\* apart every writer that came or went since the walk.
THEOREM CollapseIsExact == Spec => ConversionExact
<1>1. IInv /\ [Next]_vars =>
        IInv' /\ [\A k \in Key :
                    entry[k].life = "retiring" /\ entry'[k].life = "retained" =>
                      entry'[k].grant = Cardinality(Linked(k)) /\ Writing(k) = {}]_vars
  BY NextSound DEF Collapses
<1> QED
  BY <1>1, InitSound, PTL DEF Spec, ConversionExact

-----------------------------------------------------------------------------
(* The account of the disk.                                                 *)

\* The incarnations besides the one whose step it is are charged as before.
LEMMA UntouchedCharged ==
    ASSUME NEW k \in Key, Apart(k), Aside(k), NEW j \in Key \ {k}, ChargedAt(j)
    PROVE  ChargedAt(j)'
<1>1. /\ entry'[j] = entry[j] /\ stage'[j] = stage[j] /\ lost'[j] = lost[j]
      /\ file'[j] = file[j] /\ task'[j] = task[j] /\ walk'[j] = walk[j]
      /\ conv'[j] = conv[j] /\ reading'[j] = reading[j]
  BY DEF Apart, Aside
<1> QED
  BY <1>1 DEF ChargedAt

\* Nothing is there before anything is minted ...
LEMMA InitCharged ==
    ASSUME Init, NEW k \in Key
    PROVE  ChargedAt(k)
<1>1. /\ entry[k] = Blank /\ stage[k] = "none" /\ lost[k] = "never"
      /\ file[k] = [o \in Object |-> "none"] /\ conv[k] = NoConvert
      /\ walk[k] = [v \in Walker |-> Idle] /\ reading[k] = [r \in Reader |-> Idle]
  BY DEF Init
<1>2. LinkedIn(file[k]) = {}
  BY <1>1 DEF LinkedIn
<1>3. Cardinality(LandedIn(file[k], task[k])) = 0
  BY <1>2, LandedLinked
<1>4. /\ Blank.life = "unminted" /\ Blank.used = 0 /\ Blank.written = 0
      /\ Blank.writers = {} /\ NoConvert.st = "off" /\ Idle.st = "idle"
  BY DEF Blank, NoConvert, Idle
<1>5. Measures(Blank, "never", walk[k], Cardinality(LandedIn(file[k], task[k])))
  BY <1>3, <1>4 DEF Measures, Known
<1>6. Retains(Blank, NoConvert, LinkedIn(file[k]))
  BY <1>2, <1>4 DEF Retains
<1>7. /\ Staged(Blank, "none", LinkedIn(file[k]), walk[k], reading[k])
      /\ Pins(Blank, reading[k])
  BY <1>1, <1>2, <1>4 DEF Staged, Pins
<1> QED
  BY <1>1, <1>5, <1>6, <1>7 DEF ChargedAt, Charged

\* ... and every step keeps the account.
LEMMA StepCharged ==
    ASSUME NEW k \in Key, Ours(k), Step(k)
    PROVE  ChargedAt(k)' /\ Aside(k)
<1>1. CASE Reserve(k) \/ Bind(k) \/ Abandon(k)
  BY <1>1, AdmissionCharged
<1>2. CASE \E w \in Writer :
             \/ RegisterWriter(k, w) \/ FinishWriter(k, w)
             \/ \E o \in Object : AskWrite(k, w, o)
             \/ Grow(k, w) \/ AskAgain(k, w)
             \/ Write(k, w) \/ Landed(k, w) \/ RenameObject(k, w) \/ Unlanded(k, w)
  BY <1>2, WritersCharged
<1>3. CASE Regrant(k) \/ \E v \in Walker :
             WalkBegin(k, v) \/ WalkSees(k, v) \/ WalkFails(k, v) \/ WalkObserves(k, v)
  BY <1>3, WalksCharged, RegrantCharged
<1>4. CASE \E r \in Reader :
             \/ \E o \in Object : OpenObject(k, r, o)
             \/ AcquirePin(k, r) \/ ReleasePin(k, r)
  BY <1>4, ReadersCharged
<1>5. CASE \/ BeginRetirement(k) \/ WritersSettle(k)
           \/ ConvertBegins(k) \/ ConvertSees(k) \/ ConvertCommits(k)
           \/ BeginRelease(k) \/ ClearDir(k) \/ RemoveDir(k) \/ AccountUnlinkAll(k)
  BY <1>5, RetirementCharged
<1> QED
  BY <1>1, <1>2, <1>3, <1>4, <1>5 DEF Step

\* The inductive invariant of the account.
Account == IInv /\ \A k \in Key : ChargedAt(k)

LEMMA AccountKept ==
    ASSUME Account, [Next]_vars
    PROVE  Account'
<1>1. CASE Next
  <2>1. PICK k \in Key : Step(k)
    BY <1>1 DEF Next
  <2>2. IInv /\ IInv' /\ Apart(k)
    BY <1>1, <2>1, NextSound, StepSound DEF Account
  <2>3. Ours(k)
    BY <2>2 DEF Account, IInv, Ours
  <2>4. ChargedAt(k)' /\ Aside(k)
    BY <2>1, <2>3, StepCharged
  <2>5. ASSUME NEW j \in Key \ {k} PROVE ChargedAt(j)'
    BY <2>2, <2>4, <2>5, UntouchedCharged DEF Account
  <2> QED
    BY <2>2, <2>4, <2>5 DEF Account
<1>2. CASE UNCHANGED vars
  <2>1. IInv'
    BY <1>2, NextSound DEF Account
  <2>2. ASSUME NEW k \in Key PROVE ChargedAt(k)'
    <3>1. ChargedAt(k)
      BY <2>2 DEF Account
    <3> QED
      BY <1>2, <3>1 DEF vars, ChargedAt
  <2> QED
    BY <2>1, <2>2 DEF Account
<1> QED
  BY <1>1, <1>2

\* Drawn reservations cover what is written and not landed, and the writes in
\* flight besides.
LEMMA DrawnCovers ==
    ASSUME TypeOK, NEW k \in Key, Sound(k)
    PROVE  /\ Cardinality(InFlight(k)) \in Nat
           /\ Cardinality(Linked(k)) + Cardinality(InFlight(k))
                <= Cardinality(LandedIn(file[k], task[k])) + entry[k].pending
<1> DEFINE T == task[k]  F == file[k]
           I == InFlight(k)
           V == {w \in Writer : T[w].st = "written"}
           P == {o \in LinkedIn(F) : \E w \in V : T[w].obj = o}
           A == LandedIn(F, T)
<1>1. /\ IsFiniteSet(I) /\ IsFiniteSet(V) /\ I \cap V = {}
      /\ DrawnOf(T) = I \cup V
      /\ Cardinality(I) \in Nat /\ Cardinality(V) \in Nat
  <2>1. I \in SUBSET Writer /\ V \in SUBSET Writer
    BY DEF InFlight
  <2>2. IsFiniteSet(I) /\ IsFiniteSet(V)
    BY <2>1, ScratchAssumption, FS_Subset DEF ScratchAssumption
  <2>3. I \cap V = {} /\ DrawnOf(T) = I \cup V
    BY DEF InFlight, DrawnOf
  <2> QED
    BY <2>2, <2>3, FS_CardinalityType
<1>2. Cardinality(DrawnOf(T)) = Cardinality(I) + Cardinality(V)
  <2>1. Cardinality(I \cap V) = 0
    BY <1>1, FS_EmptySet
  <2>2. Cardinality(I \cup V) = Cardinality(I) + Cardinality(V) - Cardinality(I \cap V)
    BY <1>1, FS_Union
  <2> QED
    BY <1>1, <2>1, <2>2
<1>3. Cardinality(P) \in Nat /\ IsFiniteSet(P) /\ Cardinality(P) <= Cardinality(V)
  <2> DEFINE D == {w \in V : T[w].obj \in P}
             h == [w \in D |-> T[w].obj]
  <2>1. D \in SUBSET V
    OBVIOUS
  <2>2. IsFiniteSet(D) /\ Cardinality(D) <= Cardinality(V) /\ Cardinality(D) \in Nat
    BY <1>1, <2>1, FS_Subset, FS_CardinalityType
  <2>3. h \in Surjection(D, P)
    <3>1. h \in [D -> P]
      OBVIOUS
    <3>2. ASSUME NEW o \in P PROVE \E w \in D : h[w] = o
      OBVIOUS
    <3> QED
      BY <3>1, <3>2 DEF Surjection
  <2> HIDE DEF D, h, P
  <2>4. IsFiniteSet(P) /\ Cardinality(P) <= Cardinality(D)
    BY <2>2, <2>3, FS_Surjection
  <2>5. Cardinality(P) \in Nat
    BY <2>4, FS_CardinalityType
  <2> QED
    BY <1>1, <2>2, <2>4, <2>5
<1>4. /\ IsFiniteSet(A) /\ Cardinality(A) \in Nat
      /\ Cardinality(Linked(k)) \in Nat
      /\ Cardinality(Linked(k)) <= Cardinality(A) + Cardinality(P)
  <2>1. A \in SUBSET Object /\ A \cup P \in SUBSET Object
    BY DEF LandedIn, LinkedIn
  <2>2. Linked(k) \in SUBSET (A \cup P)
    BY DEF Linked, LandedIn, LinkedIn
  <2>3. IsFiniteSet(A) /\ Cardinality(A) \in Nat
    BY <2>1, Objects
  <2>4. /\ Cardinality(A \cup P) \in Nat /\ Cardinality(Linked(k)) \in Nat
        /\ Cardinality(Linked(k)) <= Cardinality(A \cup P)
    BY <2>1, <2>2, Objects
  <2> HIDE DEF A, P
  <2>5. /\ Cardinality(A \cup P) = Cardinality(A) + Cardinality(P) - Cardinality(A \cap P)
    BY <1>3, <2>3, FS_Union
  <2>6. Cardinality(A \cap P) \in Nat
    BY <1>3, <2>3, FS_Intersection, FS_CardinalityType
  <2> QED
    BY <1>3, <2>3, <2>4, <2>5, <2>6
<1>5. /\ entry[k].pending = Reservation * Cardinality(DrawnOf(T))
      /\ Cardinality(DrawnOf(T)) \in Nat
  BY DrawnFinite DEF Sound, Booked
<1> HIDE DEF A, P, V, I
<1>6. entry[k].pending >= Cardinality(DrawnOf(T)) /\ entry[k].pending \in Nat
  <2> DEFINE q == Cardinality(DrawnOf(T))
  <2>1. q \in Nat /\ Reservation \in Nat /\ Reservation >= 1
    BY <1>5, ScratchAssumption DEF ScratchAssumption
  <2>2. PICK b \in Nat : Reservation = b + 1
    <3>1. Reservation - 1 \in Nat /\ Reservation = (Reservation - 1) + 1
      BY <2>1
    <3> QED
      BY <3>1
  <2> HIDE DEF q
  <2>3. Reservation * q = b * q + q /\ b * q \in Nat
    BY <2>1, <2>2
  <2> QED
    BY <1>5, <2>1, <2>3 DEF q
<1> QED
  BY <1>1, <1>2, <1>3, <1>4, <1>5, <1>6 DEF A, I

\* The charge of an entry is no less than its figures, nor than its grant.
LEMMA ChargeOf ==
    ASSUME NEW e \in EntryType
    PROVE  /\ PinnedExtra(e) \in Nat
           /\ Charge(e) \in Nat
           /\ Charge(e) >= Materialized(e) + PinnedExtra(e)
           /\ Charge(e) >= e.grant + PinnedExtra(e)
<1>1. {o \in Object : e.pins[o] # {} /\ ~e.linked[o]} \in SUBSET Object
  OBVIOUS
<1>2. PinnedExtra(e) \in Nat
  BY <1>1, Objects DEF PinnedExtra
<1>3. e.grant \in Nat /\ Materialized(e) \in Nat
  BY EntryFields
<1> DEFINE top == Max({e.grant, Materialized(e)})
<1>4. top \in Nat /\ top >= e.grant /\ top >= Materialized(e)
  BY <1>3, MaxOfTwo
<1>5. Charge(e) = top + PinnedExtra(e)
  BY DEF Charge
<1> HIDE DEF top
<1> QED
  BY <1>2, <1>3, <1>4, <1>5

\* The account covers the disk.
LEMMA AccountCovers == Account => DiskIsCharged
<1> SUFFICES ASSUME Account PROVE DiskIsCharged
  OBVIOUS
<1>0. TypeOK
  BY DEF Account, IInv
<1>1. ASSUME NEW k \in Key
      PROVE  /\ Present(k) /\ lost[k] # "now" =>
                  Cardinality(Linked(k)) + Cardinality(InFlight(k))
                    <= Materialized(entry[k])
             /\ Present(k) /\ (lost[k] = "never" \/ entry[k].life = "retained") =>
                  Owed(k) <= Charge(entry[k])
             /\ ~Present(k) => Owed(k) = 0 /\ Writing(k) = {}
  <2> DEFINE e == entry[k]  s == stage[k]  F == file[k]  T == task[k]
             n == Cardinality(LandedIn(F, T))
             here == Cardinality(Linked(k))
             fly == Cardinality(InFlight(k))
             open == Cardinality(HeldOpen(k))
  <2>0. /\ e \in EntryType /\ Sound(k) /\ Booked(e, T) /\ ChargedAt(k)
        /\ Charged(e, s, lost[k], F, T, walk[k], conv[k], reading[k])
        /\ reading[k] \in [Reader -> ReadingType]
    BY <1>0, <1>1 DEF Account, IInv, Sound, ChargedAt, TypeOK
  <2>1. /\ e.used \in Nat /\ e.written \in Nat /\ e.pending \in Nat /\ e.grant \in Nat
        /\ Materialized(e) = e.used + e.written + e.pending
    BY <2>0, EntryFields
  <2>l. Linked(k) = LinkedIn(F)
    BY DEF Linked, LinkedIn
  <2>2. /\ n \in Nat /\ here \in Nat /\ fly \in Nat /\ n <= here
        /\ here + fly <= n + e.pending
    BY <1>0, <2>0, <2>l, LandedLinked, DrawnCovers
  <2>3. HeldOpen(k) \in SUBSET Object
    BY DEF HeldOpen, Removed
  <2>4. open \in Nat
    BY <2>3, Objects
  <2>5. Owed(k) = here + fly + (IF s \in {"done", "dropped"} THEN open ELSE 0)
    BY DEF Owed
  <2>6. lost[k] # "now" => n <= e.used + e.written
    BY <2>0 DEF Charged, Measures
  <2>7. \A r \in Reader : reading[k][r].st = "pinned" => reading[k][r].obj \in Object
    BY <2>0 DEF ReadingType, Idle
\* What is held open after the names are gone has a pin that says so.
  <2>8. s \in {"done", "dropped"} /\ Known(e) => open <= PinnedExtra(e)
    <3>1. CASE s = "dropped"
      <4>1. HeldOpen(k) = {}
        BY <2>0, <3>1 DEF Charged, Staged, HeldOpen, Idle
      <4>2. open = 0
        BY <4>1, FS_EmptySet
      <4> QED
        BY <2>0, <4>2, ChargeOf
    <3>2. CASE s = "done" /\ Known(e)
      <4> DEFINE B == {o \in Object : e.pins[o] # {} /\ ~e.linked[o]}
      <4>1. B \in SUBSET Object
        OBVIOUS
      <4>2. HeldOpen(k) \in SUBSET B
        <5>1. ASSUME NEW o \in HeldOpen(k) PROVE o \in B
          <6>1. PICK r \in Reader : reading[k][r].st = "pinned" /\ reading[k][r].obj = o
            BY <5>1 DEF HeldOpen
          <6>2. o \in Object /\ r \in e.pins[o]
            BY <2>0, <2>7, <6>1 DEF Charged, Pins
          <6> QED
            BY <2>0, <3>2, <6>2 DEF Charged, Staged
        <5> QED
          BY <5>1
      <4> QED
        BY <4>1, <4>2, Objects DEF PinnedExtra
    <3> QED
      BY <3>1, <3>2
  <2>9. /\ PinnedExtra(e) \in Nat /\ Charge(e) \in Nat
        /\ Charge(e) >= Materialized(e) + PinnedExtra(e)
        /\ Charge(e) >= e.grant + PinnedExtra(e)
    BY <2>0, ChargeOf
  <2>p. Present(k) <=> Known(e)
    BY DEF Present, Known
  <2>r. e.life = "retained" => /\ s \notin {"done"} \/ ~Known(e)
                               /\ fly = 0 /\ here <= e.grant
    <3>1. e.life = "retained" => e.writers = {} /\ Cardinality(LinkedIn(F)) <= e.grant
      BY <2>0 DEF Charged, Retains
    <3>2. e.writers = {} => InFlight(k) = {}
      BY <2>0 DEF Booked, WritersOf, InFlight
    <3>3. e.writers = {} => fly = 0
      BY <3>2, FS_EmptySet
    <3> QED
      BY <2>0, <2>l, <3>1, <3>3 DEF Charged, Staged
  <2>g. ~Known(e) => /\ Linked(k) = {} /\ e.writers = {}
                     /\ \A r \in Reader : reading[k][r].st # "pinned"
    <3>1. ~Known(e) => e.grant = 0 /\ e.writers = {}
      BY <2>0 DEF Booked, Known, Blank, Forgotten
    <3> QED
      BY <2>0, <2>l, <3>1 DEF Charged, Retains, Pins
  <2>w. ~Known(e) => /\ Writing(k) = {} /\ InFlight(k) = {} /\ HeldOpen(k) = {}
    BY <2>0, <2>g DEF Booked, WritersOf, Writing, InFlight, HeldOpen
  <2>z. ~Known(e) => here = 0 /\ fly = 0 /\ open = 0
    BY <2>g, <2>w, FS_EmptySet
  <2>k. Charge(e) >= Materialized(e) /\ Charge(e) >= e.grant
    BY <2>1, <2>9
  <2> HIDE DEF e, s, n, here, fly, open
  <2>10. Present(k) /\ lost[k] # "now" => here + fly <= Materialized(e)
    BY <2>1, <2>2, <2>6
  <2>11. Present(k) /\ lost[k] = "never" => Owed(k) <= Charge(e)
    BY <2>1, <2>2, <2>4, <2>5, <2>8, <2>9, <2>k, <2>p, <2>10
  <2>12. Present(k) /\ e.life = "retained" => Owed(k) <= Charge(e)
    BY <2>1, <2>2, <2>4, <2>5, <2>8, <2>9, <2>k, <2>p, <2>r
  <2>13. ~Present(k) => Owed(k) = 0 /\ Writing(k) = {}
    BY <2>5, <2>p, <2>w, <2>z
  <2> QED
    BY <2>10, <2>11, <2>12, <2>13 DEF e, here, fly
<1> QED
  BY <1>1 DEF DiskIsCharged, Accounted, ChargeCovers, NotForgotten

\* What is in a session's directory, or about to be put there, is charged, however
\* its writers, its refreshes and its owners interleave, but for the time between
\* a walk that was wrongly believed and the next; what readers still hold
\* open stays charged after the names are gone; and an incarnation is forgotten only
\* when nothing of it is left.
THEOREM TheDiskIsCharged == Spec => []DiskIsCharged
<1>1. Init => Account
  BY InitSound, InitCharged DEF Account
<1>2. Account /\ [Next]_vars => Account'
  BY AccountKept
<1> QED
  BY <1>1, <1>2, AccountCovers, PTL DEF Spec

-----------------------------------------------------------------------------
(* Sums.  MapThenSumSet is a recursion over the subsets of a finite set, and  *)
(* what holds of it for every set is shown of a smallest set it fails for.    *)

\* Every non-empty set of subsets of a finite set has a smallest.
LEMMA Smallest ==
    ASSUME NEW S, IsFiniteSet(S), NEW T \in SUBSET SUBSET S, T # {}
    PROVE  \E A \in T : \A B \in T : B \subseteq A => B = A
<1>1. FiniteSubsetsOf(S) = SUBSET S
  BY FS_FiniteSubsetsOfFinite
<1>2. IsWellFoundedOn(StrictSubsetOrdering(S), SUBSET S)
  BY <1>1, FS_StrictSubsetOrderingWellFounded
<1> DEFINE R == StrictSubsetOrdering(S)
<1>3. \E A \in T : \A B \in T : <<B, A>> \notin R
  <2> HIDE DEF R
  <2> QED BY <1>2, WFMin DEF R
<1> QED
  BY <1>3 DEF StrictSubsetOrdering

\* Every non-empty set of numbers has a least.
LEMMA Least ==
    ASSUME NEW T \in SUBSET Nat, T # {}
    PROVE  \E n \in T : \A m \in T : n <= m
<1>1. PICK n \in T : TRUE
  OBVIOUS
<1> DEFINE Below(m) == 0 .. m
           B == {Below(m) : m \in {i \in T : i <= n}}
<1>2. IsFiniteSet(0 .. n)
  BY FS_Interval
<1>3. B \in SUBSET SUBSET (0 .. n) /\ B # {}
  BY <1>1
<1>4. PICK A \in B : \A C \in B : C \subseteq A => C = A
  <2> DEFINE S == 0 .. n
  <2>1. IsFiniteSet(S) /\ B \in SUBSET SUBSET S /\ B # {}
    BY <1>2, <1>3
  <2> HIDE DEF B, S
  <2> QED
    BY <2>1, Smallest
<1>5. PICK m \in T : m <= n /\ A = Below(m)
  BY <1>4
<1>6. ASSUME NEW i \in T, i < m
      PROVE  FALSE
  <2>1. Below(i) \in B /\ Below(i) \subseteq A
    BY <1>5, <1>6
  <2>2. Below(i) = A
    BY <1>4, <2>1
  <2> QED
    BY <1>5, <1>6, <2>2
<1> QED
  BY <1>5, <1>6

\* The element the recursion takes first.
Some(s) == CHOOSE x \in s : TRUE

\* The equation MapThenSumSet obeys: what the sum over s is, if g has the sums
\* over smaller sets.
Part(g, f, s) == IF s = {} THEN 0 ELSE f[Some(s)] + g[s \ {Some(s)}]

Sums(g, f, S) == g = [s \in SUBSET S |-> Part(g, f, s)]

\* A set that is not empty has some element.
LEMMA SomeElement ==
    ASSUME NEW s, s # {}
    PROVE  Some(s) \in s
BY DEF Some

\* There are such sums.
LEMMA SumsExist ==
    ASSUME NEW S, IsFiniteSet(S), NEW f \in [S -> Int]
    PROVE  \E g \in [SUBSET S -> Int] : Sums(g, f, S)
<1> DEFINE Upto(n, g) == \A s \in SUBSET S : Cardinality(s) <= n => g[s] = Part(g, f, s)
           P(n) == \E g \in [SUBSET S -> Int] : Upto(n, g)
           Bad == {n \in Nat : ~P(n)}
<1>1. \A s \in SUBSET S : /\ IsFiniteSet(s) /\ Cardinality(s) \in Nat
                          /\ Cardinality(s) <= Cardinality(S)
                          /\ Cardinality(s) = 0 <=> s = {}
  BY FS_Subset, FS_CardinalityType, FS_EmptySet
<1>2. P(0)
  <2> DEFINE g == [s \in SUBSET S |-> 0]
  <2>1. g \in [SUBSET S -> Int]
    OBVIOUS
  <2>2. Upto(0, g)
    BY <1>1 DEF Part
  <2> QED
    BY <2>1, <2>2
<1>3. ASSUME NEW n \in Nat, P(n)
      PROVE  P(n + 1)
  <2>1. PICK g \in [SUBSET S -> Int] : Upto(n, g)
    BY <1>3
  <2> DEFINE h == [s \in SUBSET S |-> IF Cardinality(s) <= n THEN g[s] ELSE Part(g, f, s)]
  <2>2. ASSUME NEW s \in SUBSET S, s # {}
        PROVE  /\ Some(s) \in s /\ s \ {Some(s)} \in SUBSET S
               /\ Cardinality(s \ {Some(s)}) = Cardinality(s) - 1
    BY <1>1, <2>2, SomeElement, FS_RemoveElement
  <2>3. ASSUME NEW s \in SUBSET S
        PROVE  Part(g, f, s) \in Int
    <3>1. CASE s = {}
      BY <3>1 DEF Part
    <3>2. CASE s # {}
      <4>1. f[Some(s)] \in Int /\ g[s \ {Some(s)}] \in Int
        BY <2>2, <3>2
      <4> QED
        BY <3>2, <4>1 DEF Part
    <3> QED
      BY <3>1, <3>2
  <2>4. h \in [SUBSET S -> Int]
    BY <2>3
  <2>5. ASSUME NEW s \in SUBSET S, Cardinality(s) <= n + 1
        PROVE  h[s] = Part(h, f, s)
    <3>1. CASE s = {}
      BY <1>1, <2>1, <3>1 DEF Part
    <3>2. CASE s # {}
      <4> DEFINE t == s \ {Some(s)}
      <4>1. t \in SUBSET S /\ Cardinality(t) <= n
        BY <1>1, <2>2, <2>5, <3>2
      <4>2. h[t] = g[t]
        BY <4>1
      <4>3. Part(h, f, s) = Part(g, f, s)
        BY <3>2, <4>2 DEF Part
      <4>4. h[s] = Part(g, f, s)
        BY <2>1
      <4> QED
        BY <4>3, <4>4
    <3> QED
      BY <3>1, <3>2
  <2> QED
    BY <2>4, <2>5
<1>4. Bad = {}
  <2>1. SUFFICES ASSUME Bad # {}
                 PROVE  FALSE
    OBVIOUS
  <2>2. PICK n \in Bad : \A m \in Bad : n <= m
    <3> HIDE DEF P
    <3> QED BY <2>1, Least
  <2> HIDE DEF P
  <2>3. n # 0
    BY <1>2, <2>2
  <2>4. n - 1 \in Nat /\ n - 1 \notin Bad
    BY <2>2, <2>3
  <2>5. P(n - 1)
    BY <2>4
  <2>6. P((n - 1) + 1)
    BY <1>3, <2>4, <2>5
  <2> QED
    BY <2>2, <2>6
<1>5. PICK g \in [SUBSET S -> Int] : Upto(Cardinality(S), g)
  <2>1. Cardinality(S) \in Nat
    BY FS_CardinalityType
  <2>2. P(Cardinality(S))
    <3> HIDE DEF P
    <3> QED BY <1>4, <2>1
  <2> QED
    BY <2>2
<1>6. \A s \in SUBSET S : g[s] = Part(g, f, s)
  BY <1>1, <1>5
<1> QED
  BY <1>6 DEF Sums

\* Sums are determined by their summands ...
LEMMA SumsAgree ==
    ASSUME NEW S, IsFiniteSet(S), NEW f, NEW g, NEW h, Sums(g, f, S), Sums(h, f, S)
    PROVE  g = h
<1> DEFINE Bad == {s \in SUBSET S : g[s] # h[s]}
<1>1. \A s \in SUBSET S : g[s] = Part(g, f, s) /\ h[s] = Part(h, f, s)
  BY DEF Sums
<1>2. Bad = {}
  <2>1. SUFFICES ASSUME Bad # {}
                 PROVE  FALSE
    OBVIOUS
  <2>2. PICK s \in Bad : \A t \in Bad : t \subseteq s => t = s
    <3> HIDE DEF Bad
    <3>1. Bad \in SUBSET SUBSET S
      BY DEF Bad
    <3> QED BY <2>1, <3>1, Smallest
  <2>3. s # {}
    <3>1. g[{}] = 0 /\ h[{}] = 0
      BY <1>1 DEF Part
    <3>2. {} \notin Bad
      BY <3>1
    <3> QED
      BY <2>2, <3>2
  <2> DEFINE x == Some(s)
             t == s \ {x}
  <2>4. x \in s /\ s \in SUBSET S /\ t \in SUBSET S /\ t # s /\ t \subseteq s
    BY <2>2, <2>3, SomeElement
  <2>5. g[t] = h[t]
    BY <2>2, <2>4
  <2>6. g[s] = f[x] + g[t] /\ h[s] = f[x] + h[t]
    BY <1>1, <2>3, <2>4 DEF Part
  <2> QED
    BY <2>2, <2>5, <2>6
<1>3. g = [s \in SUBSET S |-> g[s]] /\ h = [s \in SUBSET S |-> h[s]]
  BY DEF Sums
<1> QED
  BY <1>2, <1>3

\* The sum of f over S, and the three facts about it.
SumOver(f, S) == (CHOOSE g : Sums(g, f, S))[S]

LEMMA SumOf ==
    ASSUME NEW S, IsFiniteSet(S), NEW f \in [S -> Int]
    PROVE  \E g \in [SUBSET S -> Int] : Sums(g, f, S) /\ SumOver(f, S) = g[S]
<1> DEFINE h == CHOOSE g : Sums(g, f, S)
<1>1. PICK g \in [SUBSET S -> Int] : Sums(g, f, S)
  BY SumsExist
<1>2. Sums(h, f, S)
  BY <1>1
<1>3. h = g
  <2> HIDE DEF h
  <2> QED BY <1>1, <1>2, SumsAgree
<1> QED
  BY <1>1, <1>3 DEF SumOver

\* A sum of figures is a figure.
LEMMA SumType ==
    ASSUME NEW S, IsFiniteSet(S), NEW f \in [S -> Int]
    PROVE  SumOver(f, S) \in Int
<1>1. PICK g \in [SUBSET S -> Int] : Sums(g, f, S) /\ SumOver(f, S) = g[S]
  BY SumOf
<1> QED
  BY <1>1

\* One summand more or less makes the sum so much more or less.
LEMMA SumChanges ==
    ASSUME NEW S, IsFiniteSet(S), NEW f \in [S -> Int], NEW e \in [S -> Int],
           NEW k \in S, \A x \in S \ {k} : e[x] = f[x]
    PROVE  SumOver(e, S) = SumOver(f, S) - f[k] + e[k]
<1>g. PICK g \in [SUBSET S -> Int] : Sums(g, f, S) /\ SumOver(f, S) = g[S]
  BY SumOf
<1>h. PICK h \in [SUBSET S -> Int] : Sums(h, e, S) /\ SumOver(e, S) = h[S]
  BY SumOf
<1> DEFINE Differ(s) == h[s] = g[s] + (IF k \in s THEN e[k] - f[k] ELSE 0)
           Bad == {s \in SUBSET S : ~Differ(s)}
<1>1. \A s \in SUBSET S : g[s] = Part(g, f, s) /\ h[s] = Part(h, e, s)
  BY <1>g, <1>h DEF Sums
<1>2. Bad = {}
  <2>1. SUFFICES ASSUME Bad # {}
                 PROVE  FALSE
    OBVIOUS
  <2>2. PICK s \in Bad : \A t \in Bad : t \subseteq s => t = s
    <3> HIDE DEF Bad
    <3>1. Bad \in SUBSET SUBSET S
      BY DEF Bad
    <3> QED BY <2>1, <3>1, Smallest
  <2>3. s # {}
    <3>1. g[{}] = 0 /\ h[{}] = 0
      BY <1>1 DEF Part
    <3>2. {} \notin Bad
      BY <3>1
    <3> QED
      BY <2>2, <3>2
  <2> DEFINE x == Some(s)
             t == s \ {x}
  <2>4. x \in s /\ s \in SUBSET S /\ t \in SUBSET S /\ t # s /\ t \subseteq s
    BY <2>2, <2>3, SomeElement
  <2>5. Differ(t)
    BY <2>2, <2>4
  <2>6. g[s] = f[x] + g[t] /\ h[s] = e[x] + h[t]
    BY <1>1, <2>3, <2>4 DEF Part
  <2> HIDE DEF x
  <2>7. Differ(s)
    BY <2>4, <2>5, <2>6
  <2> QED
    BY <2>2, <2>7
<1>3. Differ(S)
  BY <1>2
<1> QED
  BY <1>g, <1>h, <1>3

\* Smaller summands make a smaller sum.
LEMMA SumGrows ==
    ASSUME NEW S, IsFiniteSet(S), NEW f \in [S -> Int], NEW e \in [S -> Int],
           \A x \in S : f[x] <= e[x]
    PROVE  SumOver(f, S) <= SumOver(e, S)
<1>g. PICK g \in [SUBSET S -> Int] : Sums(g, f, S) /\ SumOver(f, S) = g[S]
  BY SumOf
<1>h. PICK h \in [SUBSET S -> Int] : Sums(h, e, S) /\ SumOver(e, S) = h[S]
  BY SumOf
<1> DEFINE Bad == {s \in SUBSET S : ~(g[s] <= h[s])}
<1>1. \A s \in SUBSET S : g[s] = Part(g, f, s) /\ h[s] = Part(h, e, s)
  BY <1>g, <1>h DEF Sums
<1>2. Bad = {}
  <2>1. SUFFICES ASSUME Bad # {}
                 PROVE  FALSE
    OBVIOUS
  <2>2. PICK s \in Bad : \A t \in Bad : t \subseteq s => t = s
    <3> HIDE DEF Bad
    <3>1. Bad \in SUBSET SUBSET S
      BY DEF Bad
    <3> QED BY <2>1, <3>1, Smallest
  <2>3. s # {}
    <3>1. g[{}] = 0 /\ h[{}] = 0
      BY <1>1 DEF Part
    <3>2. {} \notin Bad
      BY <3>1
    <3> QED
      BY <2>2, <3>2
  <2> DEFINE x == Some(s)
             t == s \ {x}
  <2>4. x \in s /\ s \in SUBSET S /\ t \in SUBSET S /\ t # s /\ t \subseteq s
    BY <2>2, <2>3, SomeElement
  <2>5. g[t] <= h[t]
    BY <2>2, <2>4
  <2>6. g[s] = f[x] + g[t] /\ h[s] = e[x] + h[t]
    BY <1>1, <2>3, <2>4 DEF Part
  <2> HIDE DEF x
  <2>7. g[s] <= h[s]
    BY <2>4, <2>5, <2>6
  <2> QED
    BY <2>2, <2>7
<1> QED
  BY <1>g, <1>h, <1>2

-----------------------------------------------------------------------------
(* The ceiling.  What an incarnation is obliged to grows only where the sum  *)
(* of the charges is looked at, and a charge covers its obligation.          *)

\* total() is the sum of the charges.
LEMMA TotalIsSum ==
    TypeOK => Total = SumOver([k \in Key |-> Charge(entry[k])], Key)
<1> SUFFICES ASSUME TypeOK
             PROVE  Total = SumOver([k \in Key |-> Charge(entry[k])], Key)
  OBVIOUS
<1> DEFINE f == [k \in Key |-> Charge(entry[k])]
           Term(h, s) == IF s = {} THEN 0
                         ELSE Charge(entry[Some(s)]) + h[s \ {Some(s)}]
           Is(h) == h = [s \in SUBSET Key |-> Term(h, s)]
           h == CHOOSE g : Is(g)
<1>1. f \in [Key -> Int]
  BY ChargeOf DEF TypeOK
<1>2. PICK g \in [SUBSET Key -> Int] : Sums(g, f, Key) /\ SumOver(f, Key) = g[Key]
  BY <1>1, SumOf, ScratchAssumption DEF ScratchAssumption
<1>3. ASSUME NEW i, NEW s \in SUBSET Key
      PROVE  Term(i, s) = Part(i, f, s)
  BY SomeElement DEF Part
<1>4. ASSUME NEW i
      PROVE  Is(i) <=> Sums(i, f, Key)
  <2>1. [s \in SUBSET Key |-> Term(i, s)] = [s \in SUBSET Key |-> Part(i, f, s)]
    BY <1>3
  <2> QED
    BY <2>1 DEF Sums
<1>5. Is(h)
  <2> HIDE DEF Is
  <2> QED
    BY <1>2, <1>4
<1>6. Sums(h, f, Key)
  BY <1>4, <1>5
<1>7. Total = h[Key]
  BY DEF Total, MapThenSumSet, MapThenFoldSet, Some
<1>8. h = g
  <2> HIDE DEF h, f
  <2> QED
    BY <1>2, <1>6, SumsAgree, ScratchAssumption DEF ScratchAssumption
<1> QED
  BY <1>2, <1>7, <1>8

\* What k has in its directory, or on the way there.
Footprint(k) == Cardinality(Linked(k)) + Cardinality(InFlight(k))

Over(s) == s \in {"done", "dropped"}

LEMMA ObligationOf ==
    ASSUME TypeOK, NEW k \in Key
    PROVE  /\ Cardinality(Linked(k)) \in Nat /\ Cardinality(InFlight(k)) \in Nat
           /\ Footprint(k) \in Nat /\ entry[k].grant \in Nat
           /\ Obligation(k) = IF ~Over(stage[k]) /\ entry[k].grant >= Footprint(k)
                              THEN entry[k].grant ELSE Footprint(k)
<1>1. Linked(k) \in SUBSET Object /\ InFlight(k) \in SUBSET Writer
  BY DEF Linked, InFlight
<1>2. IsFiniteSet(Linked(k)) /\ IsFiniteSet(InFlight(k))
  BY <1>1, ScratchAssumption, FS_Subset DEF ScratchAssumption
<1>3. Cardinality(Linked(k)) \in Nat /\ Cardinality(InFlight(k)) \in Nat
  BY <1>2, FS_CardinalityType
<1>4. entry[k].grant \in Nat
  BY EntryFields DEF TypeOK
<1>5. Footprint(k) \in Nat
  BY <1>3 DEF Footprint
<1> DEFINE d == IF Over(stage[k]) THEN 0 ELSE entry[k].grant
<1>6. Obligation(k) = Max({d, Footprint(k)})
  BY DEF Obligation, Footprint, Over
<1>7. d \in Nat
  BY <1>4
<1>8. Obligation(k) = IF d >= Footprint(k) THEN d ELSE Footprint(k)
  BY <1>5, <1>6, <1>7, MaxOfTwo
<1> QED
  BY <1>3, <1>4, <1>5, <1>8

\* What all incarnations are obliged to is a sum as well.
LEMMA ObligationsAreSum ==
    TypeOK => MapThenSumSet(Obligation, Key) = SumOver([k \in Key |-> Obligation(k)], Key)
<1> SUFFICES ASSUME TypeOK
             PROVE  MapThenSumSet(Obligation, Key) = SumOver([k \in Key |-> Obligation(k)], Key)
  OBVIOUS
<1> DEFINE f == [k \in Key |-> Obligation(k)]
           Term(h, s) == IF s = {} THEN 0 ELSE Obligation(Some(s)) + h[s \ {Some(s)}]
           Is(h) == h = [s \in SUBSET Key |-> Term(h, s)]
           h == CHOOSE g : Is(g)
<1>1. f \in [Key -> Int]
  BY ObligationOf
<1>2. PICK g \in [SUBSET Key -> Int] : Sums(g, f, Key) /\ SumOver(f, Key) = g[Key]
  BY <1>1, SumOf, ScratchAssumption DEF ScratchAssumption
<1>3. ASSUME NEW i, NEW s \in SUBSET Key
      PROVE  Term(i, s) = Part(i, f, s)
  BY SomeElement DEF Part
<1>4. ASSUME NEW i
      PROVE  Is(i) <=> Sums(i, f, Key)
  <2>1. [s \in SUBSET Key |-> Term(i, s)] = [s \in SUBSET Key |-> Part(i, f, s)]
    BY <1>3
  <2> QED
    BY <2>1 DEF Sums
<1>5. Is(h)
  <2> HIDE DEF Is
  <2> QED
    BY <1>2, <1>4
<1>6. Sums(h, f, Key)
  BY <1>4, <1>5
<1>7. MapThenSumSet(Obligation, Key) = h[Key]
  BY DEF MapThenSumSet, MapThenFoldSet, Some
<1>8. h = g
  <2> HIDE DEF h, f
  <2> QED
    BY <1>2, <1>6, SumsAgree, ScratchAssumption DEF ScratchAssumption
<1> QED
  BY <1>2, <1>7, <1>8

\* Once a release has begun the entry is fenced, or has no writer.
Fences(e, s) ==
    /\ s \in {"releasing", "cleared", "removed", "done"} /\ Known(e) => e.fenced
    /\ s = "dropped" /\ Known(e) /\ e.writers # {} => e.fenced

\* Until the names are accounted as gone the grant covers the n objects that are
\* there or on their way, and is covered by what a conversion has read.
Allots(e, s, l, c, n) ==
    l = "never" /\ ~Over(s) =>
      /\ n <= e.grant
      /\ c.st = "seen" /\ Known(e) /\ c.gen = e.gen => c.bytes <= e.grant

AllottedAt(k) ==
    /\ Fences(entry[k], stage[k])
    /\ Allots(entry[k], stage[k], lost[k], conv[k], Footprint(k))

\* The check that grow, regrant and reserve make.
Admitted(k) ==
    Configured > 0 => Total - Charge(entry[k]) + Charge(entry'[k]) <= Configured

\* What the lemmas on the steps start from, and what they show.
Mine(k) == Ours(k) /\ Sound(k)' /\ AllottedAt(k)

Kept(k) ==
    /\ AllottedAt(k)'
    /\ lost'[k] = "never" =>
         lost[k] = "never" /\ (Obligation(k)' <= Obligation(k) \/ Admitted(k))

\* The same facts, for every incarnation, so that they hold after a step, too.
LEMMA ObligationsOf ==
    TypeOK => \A j \in Key :
           /\ Cardinality(Linked(j)) \in Nat /\ Cardinality(InFlight(j)) \in Nat
           /\ Footprint(j) = Cardinality(Linked(j)) + Cardinality(InFlight(j))
           /\ Footprint(j) \in Nat /\ entry[j].grant \in Nat
           /\ Obligation(j) = IF ~Over(stage[j]) /\ entry[j].grant >= Footprint(j)
                              THEN entry[j].grant ELSE Footprint(j)
BY ObligationOf DEF Footprint

LEMMA ObligationNext ==
    ASSUME TypeOK', NEW k \in Key
    PROVE  /\ Cardinality(Linked(k)') \in Nat /\ Cardinality(InFlight(k)') \in Nat
           /\ Footprint(k)' = Cardinality(Linked(k)') + Cardinality(InFlight(k)')
           /\ Footprint(k)' \in Nat /\ entry'[k].grant \in Nat
           /\ Obligation(k)' = IF ~Over(stage'[k]) /\ entry'[k].grant >= Footprint(k)'
                               THEN entry'[k].grant ELSE Footprint(k)'
<1>1. (TypeOK => \A j \in Key :
           /\ Cardinality(Linked(j)) \in Nat /\ Cardinality(InFlight(j)) \in Nat
           /\ Footprint(j) = Cardinality(Linked(j)) + Cardinality(InFlight(j))
           /\ Footprint(j) \in Nat /\ entry[j].grant \in Nat
           /\ Obligation(j) = IF ~Over(stage[j]) /\ entry[j].grant >= Footprint(j)
                              THEN entry[j].grant ELSE Footprint(j))'
  BY ObligationsOf, PTL
<1> QED
  BY <1>1

\* A running session's figures cover its footprint.
LEMMA Covered ==
    ASSUME TypeOK, NEW k \in Key, Sound(k), ChargedAt(k), lost[k] = "never"
    PROVE  Footprint(k) <= Materialized(entry[k]) /\ Materialized(entry[k]) \in Nat
<1>1. entry[k] \in EntryType
  BY DEF TypeOK
<1>2. Cardinality(LandedIn(file[k], task[k])) <= entry[k].used + entry[k].written
  BY DEF ChargedAt, Charged, Measures
<1>3. Cardinality(LandedIn(file[k], task[k])) \in Nat
  BY LandedLinked
<1>4. /\ Materialized(entry[k]) = entry[k].used + entry[k].written + entry[k].pending
      /\ entry[k].used \in Nat /\ entry[k].written \in Nat /\ entry[k].pending \in Nat
  BY <1>1, EntryFields
<1>5. /\ Cardinality(Linked(k)) \in Nat /\ Cardinality(InFlight(k)) \in Nat
      /\ Footprint(k) <= Cardinality(LandedIn(file[k], task[k])) + entry[k].pending
  BY ObligationOf, DrawnCovers DEF Footprint
<1> QED
  BY <1>2, <1>3, <1>4, <1>5, ObligationOf

\* A step that leaves the grant alone and adds nothing to the footprint.
LEMMA Steady ==
    ASSUME NEW k \in Key, Mine(k),
           entry'[k].grant = entry[k].grant,
           Footprint(k)' <= Footprint(k),
           Fences(entry'[k], stage'[k]),
           lost'[k] = "never" => lost[k] = "never",
           Over(stage[k]) => Over(stage'[k]),
           conv'[k].st = "seen" /\ Known(entry'[k]) /\ conv'[k].gen = entry'[k].gen =>
             \/ /\ conv[k].st = "seen" /\ Known(entry[k]) /\ conv[k].gen = entry[k].gen
                /\ conv'[k].bytes = conv[k].bytes
             \/ conv'[k].bytes = Cardinality(Linked(k))
    PROVE  Kept(k)
<1> DEFINE n == Footprint(k)  m == Footprint(k)'
           g == entry[k].grant  here == Cardinality(Linked(k))
           fly == Cardinality(InFlight(k))
<1>1. /\ n \in Nat /\ g \in Nat /\ here \in Nat /\ fly \in Nat /\ n = here + fly
      /\ Obligation(k) = IF ~Over(stage[k]) /\ g >= n THEN g ELSE n
  BY ObligationOf DEF Mine, Ours, Footprint
<1>2. /\ m \in Nat
      /\ Obligation(k)' = IF ~Over(stage'[k]) /\ entry'[k].grant >= m
                          THEN entry'[k].grant ELSE m
  BY ObligationNext DEF Mine, Ours
<1>3. Allots(entry[k], stage[k], lost[k], conv[k], n)
  BY DEF Mine, AllottedAt
<1> HIDE DEF n, m, g, here, fly
<1>4. m <= n
  BY DEF n, m
<1>5. Allots(entry'[k], stage'[k], lost'[k], conv'[k], m)
  BY <1>1, <1>2, <1>3, <1>4 DEF Allots, g, here
<1>6. Obligation(k)' <= Obligation(k)
  BY <1>1, <1>2, <1>4 DEF g
<1> QED
  BY <1>5, <1>6 DEF Kept, AllottedAt, m

\* A step that draws a reservation from the grant.
LEMMA Drawn ==
    ASSUME NEW k \in Key, Mine(k), NEW w \in Writer,
           entry'[k] = [entry[k] EXCEPT !.pending = @ + Reservation],
           GrantUnused(entry[k]) >= Reservation,
           ~entry[k].fenced, task[k][w].st \in {"ready", "grown"},
           InFlight(k)' \subseteq InFlight(k) \cup {w},
           UNCHANGED <<stage, conv, file, lost>>
    PROVE  Kept(k)
<1> DEFINE n == Footprint(k)  m == Footprint(k)'  e == entry[k]  f == entry'[k]
<1>0. /\ e \in EntryType /\ Sound(k) /\ ChargedAt(k) /\ TypeOK /\ TypeOK'
      /\ Booked(e, task[k])
      /\ Fences(e, stage[k]) /\ Allots(e, stage[k], lost[k], conv[k], n)
  BY DEF Mine, Ours, TypeOK, AllottedAt, Sound
<1>1. /\ f.grant = e.grant /\ f.life = e.life /\ f.gen = e.gen /\ f.fenced = e.fenced
      /\ f.writers = e.writers
  BY <1>0 DEF EntryType
<1>2. w \in e.writers /\ Known(e)
  BY <1>0, AtWork DEF Known
<1>3. ~Over(stage[k])
  BY <1>0, <1>2 DEF Fences, Over
<1>4. /\ Cardinality(InFlight(k)) \in Nat /\ Cardinality(Linked(k)) \in Nat
      /\ n = Cardinality(Linked(k)) + Cardinality(InFlight(k)) /\ n \in Nat
      /\ e.grant \in Nat
      /\ Obligation(k) = IF ~Over(stage[k]) /\ e.grant >= n THEN e.grant ELSE n
  BY <1>0, ObligationOf DEF Footprint
<1>5. /\ Cardinality(InFlight(k)') \in Nat /\ m \in Nat
      /\ m = Cardinality(Linked(k)') + Cardinality(InFlight(k)')
      /\ Obligation(k)' = IF ~Over(stage'[k]) /\ f.grant >= m THEN f.grant ELSE m
  BY <1>0, ObligationNext
<1>6. Cardinality(InFlight(k)') <= Cardinality(InFlight(k)) + 1
  <2> DEFINE I == InFlight(k)  J == InFlight(k)'
  <2>1. I \in SUBSET Writer
    BY DEF InFlight
  <2>2. IsFiniteSet(I)
    BY <2>1, ScratchAssumption, FS_Subset DEF ScratchAssumption
  <2>3. /\ IsFiniteSet(I \cup {w})
        /\ Cardinality(I \cup {w}) = IF w \in I THEN Cardinality(I) ELSE Cardinality(I) + 1
    BY <2>2, FS_AddElement
  <2>4. Cardinality(J) <= Cardinality(I \cup {w})
    <3> HIDE DEF I, J
    <3>1. J \in SUBSET (I \cup {w})
      BY DEF I, J
    <3> QED
      BY <2>3, <3>1, FS_Subset
  <2> HIDE DEF I, J
  <2>5. Cardinality(I) \in Nat /\ Cardinality(J) \in Nat
    BY <1>4, <1>5 DEF I, J
  <2> QED
    BY <2>3, <2>4, <2>5 DEF I, J
<1>7. Linked(k)' = Linked(k)
  BY DEF Linked
<1>8. m <= n + 1
  BY <1>4, <1>5, <1>6, <1>7
<1>9. lost[k] = "never" => m <= e.grant
  <2>1. lost[k] = "never" => n <= Materialized(e) /\ Materialized(e) \in Nat
    BY <1>0, Covered
  <2>2. Reservation >= 1 /\ Reservation \in Nat
    BY ScratchAssumption DEF ScratchAssumption
  <2>3. /\ GrantUnused(e) > 0 => GrantUnused(e) = e.grant - Materialized(e)
        /\ GrantUnused(e) \in Nat
    BY <1>0, EntryFields
  <2> HIDE DEF n, m, e
  <2> QED
    BY <1>4, <1>5, <1>8, <2>1, <2>2, <2>3 DEF e
<1> HIDE DEF n, m, e, f
<1>10. Fences(f, stage[k])
  BY <1>0, <1>1 DEF Fences, Known
<1>11. Allots(f, stage[k], lost[k], conv[k], m)
  BY <1>0, <1>1, <1>9 DEF Allots, Known
<1>12. lost[k] = "never" => Obligation(k)' <= Obligation(k)
  BY <1>0, <1>1, <1>3, <1>4, <1>5, <1>9 DEF Allots
<1> QED
  BY <1>10, <1>11, <1>12 DEF Kept, AllottedAt, f, m

\* The sum of the charges is a figure.
LEMMA TotalType ==
    ASSUME TypeOK
    PROVE  Total \in Int
<1>1. [k \in Key |-> Charge(entry[k])] \in [Key -> Int]
  BY ChargeOf DEF TypeOK
<1> QED
  BY <1>1, SumType, TotalIsSum, ScratchAssumption DEF ScratchAssumption

\* Fewer objects and fewer writes in flight are no more in all.
LEMMA FootprintLess ==
    ASSUME NEW k \in Key, TypeOK, TypeOK',
           Linked(k)' \subseteq Linked(k), InFlight(k)' \subseteq InFlight(k)
    PROVE  Footprint(k)' <= Footprint(k)
<1>1. Linked(k) \in SUBSET Object /\ InFlight(k) \in SUBSET Writer
  BY DEF Linked, InFlight
<1>2. IsFiniteSet(Linked(k)) /\ IsFiniteSet(InFlight(k))
  BY <1>1, ScratchAssumption, FS_Subset DEF ScratchAssumption
<1> DEFINE L == Linked(k)  M == Linked(k)'  I == InFlight(k)  J == InFlight(k)'
<1>3. /\ Cardinality(L) \in Nat /\ Cardinality(I) \in Nat
      /\ Footprint(k) = Cardinality(L) + Cardinality(I)
  BY ObligationOf DEF Footprint
<1>4. /\ Cardinality(M) \in Nat /\ Cardinality(J) \in Nat
      /\ Footprint(k)' = Cardinality(M) + Cardinality(J)
  BY ObligationNext
<1>5. M \in SUBSET L /\ J \in SUBSET I
  OBVIOUS
<1> HIDE DEF L, M, I, J
<1>6. Cardinality(M) <= Cardinality(L) /\ Cardinality(J) <= Cardinality(I)
  BY <1>2, <1>5, FS_Subset DEF L, I
<1> QED
  BY <1>3, <1>4, <1>6

\* Admission: a start is admitted by the ceiling, and has nothing on the disk.
LEMMA AdmissionAllots ==
    ASSUME NEW k \in Key, Mine(k), Reserve(k) \/ Bind(k) \/ Abandon(k)
    PROVE  Kept(k)
<1> DEFINE e == entry[k]  f == entry'[k]  s == stage[k]  c == conv[k]
<1>0. /\ entry \in [Key -> EntryType] /\ e \in EntryType /\ f \in EntryType
      /\ TypeOK /\ TypeOK' /\ stage \in [Key -> StageType]
      /\ Booked(e, task[k]) /\ Stands(e, s, c, Cardinality(Linked(k)))
      /\ Stands(f, stage'[k], conv'[k], Cardinality(Linked(k)'))
      /\ Charged(e, s, lost[k], file[k], task[k], walk[k], c, reading[k])
      /\ UNCHANGED <<task, walk, conv, reading, file, lost>>
      /\ Fences(e, s)
  BY DEF Mine, Ours, TypeOK, Sound, ChargedAt, AllottedAt, Reserve, Bind, Abandon
<1>1. Linked(k)' = Linked(k) /\ InFlight(k)' = InFlight(k)
  BY <1>0 DEF Linked, InFlight
<1>2. Footprint(k)' <= Footprint(k) /\ Footprint(k) \in Nat /\ Footprint(k)' \in Nat
  BY <1>0, <1>1, FootprintLess, ObligationOf, ObligationNext
<1>3. CASE Reserve(k)
  <2> DEFINE grant == IF Configured = 0 THEN 0 ELSE AdmissionGrant
  <2>1. /\ f = [Blank EXCEPT !.life = "provisional", !.grant = grant, !.gen = 1]
        /\ stage'[k] = "starting" /\ e.life = "unminted"
        /\ Configured > 0 => Total + grant <= Configured
    BY <1>0, <1>3 DEF Reserve, Enter
  <2>2. grant \in Nat /\ Configured \in Nat
    BY ScratchAssumption DEF ScratchAssumption
  <2>3. s = "none" /\ c.st = "off"
    BY <1>0, <2>1 DEF Stands
  <2>4. Charge(e) = 0
    <3>1. Forgotten.life = "gone"
      BY DEF Forgotten, Blank
    <3>2. e = Blank
      BY <1>0, <2>1, <3>1 DEF Booked
    <3>3. /\ e.grant = 0 /\ Materialized(e) = 0
          /\ {o \in Object : e.pins[o] # {} /\ ~e.linked[o]} = {}
      BY <3>2 DEF Blank, Materialized
    <3>4. PinnedExtra(e) = 0
      BY <3>3, FS_EmptySet DEF PinnedExtra
    <3>5. Max({0, 0}) = 0
      BY MaxOfTwo
    <3> HIDE DEF e
    <3> QED
      BY <3>3, <3>4, <3>5 DEF Charge
  <2>5. Charge(f) = grant /\ f.grant = grant
    <3>1. /\ f.grant = grant /\ Materialized(f) = 0
          /\ {o \in Object : f.pins[o] # {} /\ ~f.linked[o]} = {}
      BY <2>1 DEF Blank, Materialized
    <3> HIDE DEF f, grant
    <3> QED
      BY <2>2, <3>1, FS_EmptySet, MaxOfTwo DEF Charge, PinnedExtra
  <2>6. Footprint(k) = 0
    <3>1. LinkedIn(file[k]) = {} /\ e.writers = {}
      BY <1>0, <2>3 DEF Charged, Staged
    <3>2. Linked(k) = {} /\ InFlight(k) = {}
      BY <1>0, <3>1 DEF Linked, LinkedIn, InFlight, Booked, WritersOf
    <3> QED
      BY <3>2, FS_EmptySet DEF Footprint
  <2> HIDE DEF e, f, grant
  <2>7. Admitted(k)
    <3>1. Configured > 0 => Total - 0 + grant <= Configured
      <4>1. CASE Configured > 0
        <5>1. Total \in Int
          BY <1>0, TotalType
        <5> QED
          BY <2>1, <2>2, <5>1
      <4> QED
        BY <4>1
    <3> QED
      BY <2>4, <2>5, <3>1 DEF Admitted, e, f
  <2>8. Fences(f, stage'[k])
    BY <2>1 DEF Fences
  <2>9. Allots(f, stage'[k], lost'[k], conv'[k], Footprint(k)')
    BY <1>0, <1>2, <2>2, <2>3, <2>5, <2>6 DEF Allots, c
  <2> QED
    BY <1>0, <2>7, <2>8, <2>9 DEF Kept, AllottedAt, f
<1>4. CASE Bind(k)
  <2>1. f = [e EXCEPT !.life = "producing"] /\ s = "starting" /\ stage'[k] = "live"
    BY <1>0, <1>4 DEF Bind, Enter
  <2>2. f.grant = e.grant
    BY <1>0, <2>1 DEF EntryType
  <2>3. Fences(f, stage'[k]) /\ conv'[k].st # "seen" /\ ~Over(s)
    BY <1>0, <2>1 DEF Fences, Stands, Over
  <2> QED
    BY <1>0, <1>2, <2>2, <2>3, Steady
<1>5. CASE Abandon(k)
  <2> DEFINE d == [e EXCEPT !.dropped = TRUE]
  <2>1. s \in {"starting", "done"} /\ stage'[k] = "dropped"
    BY <1>0, <1>5 DEF Abandon
  <2>2. /\ d \in EntryType /\ d.grant = e.grant /\ d.fenced = e.fenced
        /\ d.life = e.life /\ d.writers = e.writers /\ d.gen = e.gen
    BY <1>0 DEF EntryType
  <2>3. f \in {e, Forgotten, Collected(d)}
    BY <1>0, <1>5 DEF Abandon, Amend
  <2>4. ~Known(Forgotten)
    BY DEF Known, Forgotten, Blank
  <2> HIDE DEF d
  <2>5. f = Forgotten \/ (f.fenced = e.fenced /\ f.life = e.life /\ f.writers = e.writers)
    BY <2>2, <2>3 DEF Collected
  <2>6. s = "starting" => e.writers = {}
    BY <1>0 DEF Charged, Staged
  <2>7. Fences(f, stage'[k])
    BY <1>0, <2>1, <2>4, <2>5, <2>6 DEF Fences, Known
  <2>8. Allots(f, stage'[k], lost'[k], conv'[k], Footprint(k)')
    BY <2>1 DEF Allots, Over
  <2>9. Obligation(k)' <= Obligation(k)
    <3>1. Obligation(k)' = Footprint(k)'
      BY <1>0, <2>1, ObligationNext DEF Over
    <3>2. Obligation(k) >= Footprint(k)
      BY <1>0, ObligationOf
    <3>3. Obligation(k) \in Nat
      BY <1>0, ObligationOf
    <3> QED
      BY <1>2, <3>1, <3>2, <3>3
  <2> QED
    BY <1>0, <2>7, <2>8, <2>9 DEF Kept, AllottedAt
<1> QED
  BY <1>3, <1>4, <1>5

\* collect keeps what the ceiling looks at.
LEMMA CollectedAllots ==
    ASSUME NEW e \in EntryType, NEW s, Fences(e, s)
    PROVE  /\ Collected(e).grant = e.grant /\ Fences(Collected(e), s)
           /\ Known(Collected(e)) => Collected(e) = e
<1>1. CASE Collected(e) = e
  BY <1>1
<1>2. CASE Collected(e) = Forgotten /\ Releasable(e)
  <2>1. Forgotten.grant = 0 /\ ~Known(Forgotten) /\ e.grant = 0
    BY <1>2 DEF Forgotten, Blank, Known, Releasable
  <2> QED
    BY <1>2, <2>1 DEF Fences
<1> QED
  BY <1>1, <1>2, CollectedTyped

\* The writers' steps: an object takes the place of a write in flight, a write in
\* flight is drawn from the grant, and the grant grows by admission.
LEMMA WritersAllots ==
    ASSUME NEW k \in Key, NEW w \in Writer, Mine(k),
           \/ RegisterWriter(k, w) \/ FinishWriter(k, w)
           \/ (\E o \in Object : AskWrite(k, w, o)) \/ Grow(k, w) \/ AskAgain(k, w)
           \/ Write(k, w) \/ Landed(k, w) \/ RenameObject(k, w) \/ Unlanded(k, w)
    PROVE  Kept(k)
<1> DEFINE e == entry[k]  f == entry'[k]  s == stage[k]  c == conv[k]
           t == task[k][w]
<1>0. /\ entry \in [Key -> EntryType] /\ e \in EntryType /\ f \in EntryType
      /\ TypeOK /\ TypeOK'
      /\ task \in [Key -> [Writer -> TaskType]] /\ t \in TaskType /\ c \in ConvType
      /\ file \in [Key -> [Object -> {"none", "linked", "removed"}]]
      /\ Booked(e, task[k]) /\ Stands(e, s, c, Cardinality(Linked(k)))
      /\ Fences(e, s) /\ UNCHANGED <<stage, conv, lost>>
  BY DEF Mine, Ours, TypeOK, Sound, AllottedAt, RegisterWriter, FinishWriter, AskWrite,
         Grow, AskAgain, Write, Landed, RenameObject, Unlanded
<1>f. e.grant \in Nat /\ e.gen \in Nat /\ (c.st = "seen" => c.gen \in Nat)
  BY <1>0, EntryFields, ConvForms
<1>p. t.st \notin {"idle", "ended"} => Present(k) /\ w \in e.writers /\ Known(e)
  BY <1>0, AtWork DEF Present, Known
\* A task set anew is the only one.
<1>u. ASSUME NEW x \in TaskType, SetTask(k, w, x)
      PROVE  /\ task'[k][w] = x
             /\ InFlight(k)' \subseteq InFlight(k) \cup {w}
             /\ x.st # "authorized" => InFlight(k)' \subseteq InFlight(k) \ {w}
  <2>1. task'[k][w] = x /\ \A v \in Writer \ {w} : task'[k][v] = task[k][v]
    BY <1>0, <1>u, SettingTask
  <2> QED
    BY <2>1 DEF InFlight
\* Where the grant stays, and the directory.
<1>s. ASSUME f.grant = e.grant, Fences(f, s), file' = file,
             c.st = "seen" /\ Known(f) /\ c.gen = f.gen => Known(e) /\ c.gen = e.gen,
             NEW x \in TaskType, SetTask(k, w, x), x.st # "authorized"
      PROVE  Kept(k)
  <2>1. Linked(k)' = Linked(k)
    BY <1>s DEF Linked
  <2>2. Footprint(k)' <= Footprint(k)
    BY <1>0, <1>s, <1>u, <2>1, FootprintLess
  <2> QED
    BY <1>0, <1>s, <2>2, Steady
<1>b. ASSUME entry' = entry, file' = file,
             NEW x \in TaskType, SetTask(k, w, x), x.st # "authorized"
      PROVE  Kept(k)
  BY <1>0, <1>b, <1>s
<1>a. ASSUME NEW o \in Object, Authorized(k, w, o), t.st \in {"ready", "grown"},
             GrantUnused(e) >= Reservation, ~e.fenced, file' = file
      PROVE  Kept(k)
  <2>1. /\ f = [e EXCEPT !.pending = @ + Reservation]
        /\ SetTask(k, w, [st |-> "authorized", obj |-> o])
        /\ [st |-> "authorized", obj |-> o] \in TaskType
    BY <1>0, <1>a, TaskMakers DEF Authorized, Enter
  <2>2. InFlight(k)' \subseteq InFlight(k) \cup {w}
    BY <1>u, <2>1
  <2> QED
    BY <1>0, <1>a, <2>1, <2>2, Drawn
<1>r. Ready \in TaskType /\ Ready.st = "ready" /\ Ended \in TaskType /\ Ended.st = "ended"
  BY TaskMakers
<1>1. CASE RegisterWriter(k, w)
  <2>1. /\ f = [e EXCEPT !.writers = @ \cup {w}, !.gen = @ + 1]
        /\ ~e.fenced /\ Known(e) /\ s # "dropped"
        /\ SetTask(k, w, Ready) /\ file' = file
    BY <1>0, <1>1 DEF RegisterWriter, Enter, Present, Known
  <2>2. f.grant = e.grant /\ f.life = e.life /\ f.fenced = e.fenced /\ f.gen = e.gen + 1
    BY <1>0, <2>1 DEF EntryType
  <2>3. Fences(f, s)
    BY <1>0, <2>1, <2>2 DEF Fences, Known
  <2>4. ~(c.st = "seen" /\ c.gen = f.gen)
    BY <1>0, <1>f, <2>1, <2>2 DEF Stands, Known
  <2> QED
    BY <1>r, <1>s, <2>1, <2>2, <2>3, <2>4
<1>2. CASE FinishWriter(k, w)
  <2> DEFINE d == [e EXCEPT !.writers = @ \ {w}, !.gen = @ + 1]
  <2>1. /\ t = Ready /\ SetTask(k, w, Ended) /\ file' = file
        /\ Amend(k, IF d.writers = {} THEN Collected(d) ELSE d)
    BY <1>2 DEF FinishWriter
  <2>2. e.writers \ {w} \in SUBSET Writer /\ e.gen + 1 \in Nat
    BY <1>0, <1>f, EntryFields
  <2>3. /\ d \in EntryType /\ d.grant = e.grant /\ d.life = e.life
        /\ d.fenced = e.fenced /\ d.gen = e.gen + 1 /\ d.writers = e.writers \ {w}
    BY <1>0, <2>2, EntryUpdates DEF EntryType
  <2>4. Present(k) /\ Known(e)
    BY <1>p, <1>r, <2>1
  <2>5. f \in {d, Collected(d)}
    BY <1>0, <2>1, <2>4 DEF Amend
  <2> HIDE DEF d
  <2>6. Fences(d, s)
    BY <1>0, <2>3 DEF Fences, Known
  <2>7. f.grant = e.grant /\ Fences(f, s) /\ (Known(f) => f = d)
    BY <2>3, <2>5, <2>6, CollectedAllots
  <2>8. ~(c.st = "seen" /\ Known(f) /\ c.gen = f.gen)
    BY <1>0, <1>f, <2>3, <2>4, <2>7 DEF Stands, Known
  <2> QED
    BY <1>r, <1>s, <2>1, <2>7, <2>8
<1>3. CASE \E o \in Object : AskWrite(k, w, o)
  <2>1. PICK o \in Object : AskWrite(k, w, o)
    BY <1>3
  <2>2. t.st = "ready" /\ ~e.fenced /\ file' = file
    BY <1>r, <2>1 DEF AskWrite
  <2>3. CASE GrantUnused(e) >= Reservation
    BY <1>a, <2>1, <2>2, <2>3 DEF AskWrite
  <2>4. CASE ~(GrantUnused(e) >= Reservation)
    <3> DEFINE x == [ st |-> "growing", obj |-> o,
                      ask |-> Reservation - GrantUnused(e) + Headroom ]
    <3>1. SetTask(k, w, x) /\ entry' = entry
      BY <2>1, <2>4 DEF AskWrite
    <3>2. GrantUnused(e) \in Nat
      BY <1>0, EntryFields
    <3>3. Reservation - GrantUnused(e) + Headroom \in Nat
      BY <2>4, <3>2, ScratchAssumption DEF ScratchAssumption
    <3>4. x \in TaskType /\ x.st = "growing"
      BY <3>3, TaskMakers
    <3> HIDE DEF x
    <3> QED
      BY <1>b, <2>2, <3>1, <3>4
  <2> QED
    BY <2>3, <2>4
<1>4. CASE Grow(k, w)
  <2>1. t.st = "growing" /\ t.ask \in Nat /\ t.obj \in Object /\ file' = file
    BY <1>0, <1>4, TaskForms DEF Grow, Holding
  <2> DEFINE g == [e EXCEPT !.grant = @ + t.ask]
             x == [st |-> "grown", obj |-> t.obj]
  <2>2. x \in TaskType /\ x.st = "grown"
    BY <2>1, TaskMakers
  <2>3. CASE Fits(k, g) /\ Enter(k, g) /\ SetTask(k, w, x)
    <3>1. f = g
      BY <1>0, <2>3 DEF Enter
    <3>2. /\ f.grant = e.grant + t.ask /\ f.life = e.life /\ f.fenced = e.fenced
          /\ f.writers = e.writers /\ f.gen = e.gen
      BY <1>0, <3>1 DEF EntryType
    <3>3. Admitted(k)
      BY <2>3, <3>1 DEF Admitted, Fits
    <3> HIDE DEF f, g, x
    <3>4. Fences(f, s)
      BY <1>0, <3>2 DEF Fences, Known
    <3>5. Footprint(k)' <= Footprint(k) /\ Footprint(k) \in Nat /\ Footprint(k)' \in Nat
      <4>1. Linked(k)' = Linked(k)
        BY <2>1 DEF Linked
      <4>2. InFlight(k)' \subseteq InFlight(k)
        BY <1>u, <2>2, <2>3
      <4> QED
        BY <1>0, <4>1, <4>2, FootprintLess, ObligationOf, ObligationNext
    <3>6. Allots(e, s, lost[k], c, Footprint(k))
      BY DEF Mine, AllottedAt
    <3>7. c.st = "seen" => c.bytes \in Nat
      BY <1>0, ConvForms
    <3> HIDE DEF e, s, c, t
    <3>8. lost[k] = "never" /\ ~Over(s) => Footprint(k)' <= f.grant
      BY <1>f, <2>1, <3>2, <3>5, <3>6 DEF Allots
    <3>9. lost[k] = "never" /\ c.st = "seen" /\ Known(f) /\ c.gen = f.gen =>
            (~Over(s) => c.bytes <= f.grant)
      BY <1>f, <2>1, <3>2, <3>6, <3>7 DEF Allots, Known
    <3> QED
      BY <1>0, <3>3, <3>4, <3>8, <3>9 DEF Kept, AllottedAt, Allots, f, s, c
  <2>4. CASE SetTask(k, w, Ready) /\ entry' = entry
    BY <1>b, <1>r, <2>1, <2>4
  <2> QED
    BY <1>4, <2>3, <2>4 DEF Grow
<1>5. CASE AskAgain(k, w)
  <2>1. t.st = "grown" /\ t.obj \in Object /\ file' = file
    BY <1>0, <1>5, TaskForms DEF AskAgain, Holding
  <2>2. CASE SetTask(k, w, Ready) /\ entry' = entry
    BY <1>b, <1>r, <2>1, <2>2
  <2>3. CASE Authorized(k, w, t.obj) /\ ~e.fenced /\ GrantUnused(e) >= Reservation
    BY <1>a, <2>1, <2>3
  <2> QED
    BY <1>5, <2>2, <2>3 DEF AskAgain
<1>6. CASE Write(k, w)
  <2> DEFINE x == [t EXCEPT !.st = "written"]
  <2>1. /\ t.st = "authorized" /\ t.obj \in Object /\ SetTask(k, w, x) /\ entry' = entry
    BY <1>0, <1>6, TaskForms DEF Write, Holding
  <2>2. x \in TaskType
    BY <1>0, <2>1, TaskRenamed
  <2>3. x.st = "written"
    <3>1. t \in [st : {"grown", "authorized", "written", "landed"}, obj : Object]
      BY <1>0, <2>1 DEF TaskType, Idle, Ready, Ended
    <3> QED
      BY <3>1
  <2> HIDE DEF x
  <2>4. InFlight(k)' \subseteq InFlight(k) \ {w}
    BY <1>u, <2>1, <2>2, <2>3
  <2>5. Linked(k)' \subseteq Linked(k) \cup {t.obj}
    BY <1>0, <1>6 DEF Write, Linked
  <2> DEFINE L == Linked(k)  M == Linked(k)'  I == InFlight(k)  J == InFlight(k)'
  <2>6. L \in SUBSET Object /\ I \in SUBSET Writer /\ w \in I
    BY <2>1 DEF Linked, InFlight
  <2>7. IsFiniteSet(I)
    BY <2>6, ScratchAssumption, FS_Subset DEF ScratchAssumption
  <2>8. /\ Footprint(k) = Cardinality(L) + Cardinality(I)
        /\ Footprint(k)' = Cardinality(M) + Cardinality(J)
        /\ Cardinality(L) \in Nat /\ Cardinality(M) \in Nat
        /\ Cardinality(I) \in Nat /\ Cardinality(J) \in Nat
    BY <1>0, ObligationOf, ObligationNext DEF Footprint
  <2> HIDE DEF L, M, I, J
  <2>9. Cardinality(M) <= Cardinality(L) + 1
    BY <2>1, <2>5, <2>6, OneMore DEF L, M
  <2>10. Cardinality(J) <= Cardinality(I) - 1
    <3>1. IsFiniteSet(I \ {w}) /\ Cardinality(I \ {w}) = Cardinality(I) - 1
      BY <2>6, <2>7, FS_RemoveElement
    <3>2. J \in SUBSET (I \ {w})
      BY <2>4 DEF I, J
    <3>3. Cardinality(J) <= Cardinality(I \ {w})
      BY <3>1, <3>2, FS_Subset
    <3> QED
      BY <3>1, <3>3
  <2>11. Footprint(k)' <= Footprint(k)
    BY <2>8, <2>9, <2>10
  <2> QED
    BY <1>0, <2>1, <2>11, Steady
<1>7. CASE Landed(k, w)
  <2>1. t.st = "written" /\ Settled(k, 1) /\ file' = file
    BY <1>7 DEF Landed
  <2>2. PICK x \in {Ready, [t EXCEPT !.st = "landed"]} : SetTask(k, w, x)
    BY <1>7 DEF Landed
  <2>3. x \in TaskType /\ x.st # "authorized"
    <3>1. t \in [st : {"grown", "authorized", "written", "landed"}, obj : Object]
      BY <1>0, <2>1 DEF TaskType, Idle, Ready, Ended
    <3>2. [t EXCEPT !.st = "landed"].st = "landed"
      BY <3>1
    <3> QED
      BY <1>0, <1>r, <2>1, <3>2, TaskRenamed
  <2>4. f = [e EXCEPT !.pending = Max({@ - Reservation, 0}), !.written = @ + 1]
    BY <1>0, <1>p, <2>1 DEF Settled, Amend
  <2>5. /\ f.grant = e.grant /\ f.life = e.life /\ f.fenced = e.fenced
        /\ f.writers = e.writers /\ f.gen = e.gen
    BY <1>0, <2>4 DEF EntryType
  <2> HIDE DEF f
  <2>6. Fences(f, s)
    BY <1>0, <2>5 DEF Fences, Known
  <2> QED
    BY <1>s, <2>1, <2>2, <2>3, <2>5, <2>6 DEF f, Known
<1>8. CASE RenameObject(k, w)
  <2>1. entry' = entry /\ file' = file /\ SetTask(k, w, Ready)
    BY <1>8 DEF RenameObject
  <2> QED
    BY <1>b, <1>r, <2>1
<1>9. CASE Unlanded(k, w)
  <2>1. t.st = "authorized" /\ Settled(k, 0) /\ SetTask(k, w, Ready) /\ file' = file
    BY <1>9 DEF Unlanded
  <2>2. f = [e EXCEPT !.pending = Max({@ - Reservation, 0}), !.written = @ + 0]
    BY <1>0, <1>p, <2>1 DEF Settled, Amend
  <2>3. /\ f.grant = e.grant /\ f.life = e.life /\ f.fenced = e.fenced
        /\ f.writers = e.writers /\ f.gen = e.gen
    BY <1>0, <2>2 DEF EntryType
  <2> HIDE DEF f
  <2>4. Fences(f, s)
    BY <1>0, <2>3 DEF Fences, Known
  <2> QED
    BY <1>r, <1>s, <2>1, <2>3, <2>4 DEF f, Known
<1> QED
  BY <1>1, <1>2, <1>3, <1>4, <1>5, <1>6, <1>7, <1>8, <1>9

\* A step that leaves the entry, the tasks, the directory and the owners' stage.
LEMMA StillAllotted ==
    ASSUME NEW k \in Key, Mine(k), lost'[k] = "never" => lost[k] = "never",
           entry'[k].grant = entry[k].grant, Fences(entry'[k], stage[k]),
           Known(entry'[k]) => Known(entry[k]) /\ entry'[k].gen = entry[k].gen,
           UNCHANGED <<stage, task, conv, file>>
    PROVE  Kept(k)
<1>1. Linked(k)' = Linked(k) /\ InFlight(k)' = InFlight(k)
  BY DEF Linked, InFlight
<1>2. Footprint(k)' <= Footprint(k)
  BY <1>1, FootprintLess DEF Mine, Ours
<1> QED
  BY <1>2, Steady

\* The steps of a refresh leave the grant alone, and belief is not regained.
LEMMA WalksAllots ==
    ASSUME NEW k \in Key, NEW v \in Walker, Mine(k),
           \/ WalkBegin(k, v) \/ WalkSees(k, v) \/ WalkFails(k, v) \/ WalkObserves(k, v)
    PROVE  Kept(k)
<1> DEFINE e == entry[k]  f == entry'[k]  s == stage[k]  m == walk[k][v]
<1>0. /\ entry \in [Key -> EntryType] /\ e \in EntryType
      /\ lost \in [Key -> {"never", "now", "healed"}]
      /\ Fences(e, s) /\ UNCHANGED <<stage, task, conv, file>>
  BY DEF Mine, Ours, TypeOK, AllottedAt, WalkBegin, WalkSees, WalkFails, WalkObserves
<1>1. CASE WalkObserves(k, v)
  <2>1. /\ f \in {e, Measured(k, m)}
        /\ lost'[k] = IF m.stale THEN "now"
                      ELSE IF lost[k] = "now" THEN "healed" ELSE lost[k]
    BY <1>0, <1>1 DEF WalkObserves, Amend
  <2>2. /\ f.grant = e.grant /\ f.gen = e.gen /\ f.life = e.life
        /\ f.fenced = e.fenced /\ f.writers = e.writers
    BY <1>0, <2>1 DEF Measured, EntryType
  <2> HIDE DEF f
  <2>3. Fences(f, s) /\ (Known(f) => Known(e))
    BY <1>0, <2>2 DEF Fences, Known
  <2> QED
    BY <1>0, <2>1, <2>2, <2>3, StillAllotted DEF f
<1>2. CASE ~WalkObserves(k, v)
  <2>1. f = e /\ lost' = lost
    BY <1>2 DEF WalkBegin, WalkSees, WalkFails
  <2> QED
    BY <1>0, <2>1, StillAllotted
<1> QED
  BY <1>1, <1>2

\* A regrant is admitted, and asks for no less than the figures.
LEMMA RegrantAllots ==
    ASSUME NEW k \in Key, Mine(k), Regrant(k)
    PROVE  Kept(k)
<1> DEFINE e == entry[k]  f == entry'[k]  s == stage[k]
           wanted == Max({e.used + Envelope, Materialized(e)})
<1>0. /\ entry \in [Key -> EntryType] /\ e \in EntryType /\ TypeOK /\ TypeOK'
      /\ Stands(e, s, conv[k], Cardinality(Linked(k)))
      /\ Sound(k) /\ ChargedAt(k) /\ Fences(e, s)
      /\ e.used \in Nat /\ Materialized(e) \in Nat /\ Envelope \in Nat
  BY EntryFields, ScratchAssumption DEF Mine, Ours, TypeOK, Sound, AllottedAt,
                                        ScratchAssumption
<1>1. /\ s = "live" /\ f = [e EXCEPT !.grant = wanted]
      /\ Fits(k, f) /\ UNCHANGED <<stage, task, walk, conv, reading, file, lost>>
  BY <1>0 DEF Regrant, Enter
<1>2. e.used + Envelope \in Int
  BY <1>0
<1>3. wanted = IF e.used + Envelope >= Materialized(e) THEN e.used + Envelope
               ELSE Materialized(e)
  BY <1>0, <1>2, MaxOfTwo
<1>4. wanted >= Materialized(e) /\ wanted \in Nat
  BY <1>0, <1>3
<1> HIDE DEF wanted
<1>5. f.grant = wanted
  BY <1>0, <1>1 DEF EntryType
<1> HIDE DEF f
<1>6. Admitted(k)
  BY <1>1 DEF Admitted, Fits, f
<1>7. Linked(k)' = Linked(k) /\ InFlight(k)' = InFlight(k)
  BY <1>1 DEF Linked, InFlight
<1>8. Footprint(k)' <= Footprint(k) /\ Footprint(k) \in Nat /\ Footprint(k)' \in Nat
  BY <1>0, <1>7, FootprintLess, ObligationOf, ObligationNext
<1>9. lost[k] = "never" => Footprint(k)' <= f.grant
  <2>1. lost[k] = "never" => Footprint(k) <= Materialized(e)
    BY <1>0, Covered
  <2> QED
    BY <1>0, <1>4, <1>5, <1>8, <2>1
<1>10. conv[k].st = "off" /\ Fences(f, s)
  BY <1>0, <1>1 DEF Stands, Fences
<1> QED
  BY <1>1, <1>6, <1>9, <1>10 DEF Kept, AllottedAt, Allots, f

\* Readers change nothing the ceiling looks at.
LEMMA ReadersAllots ==
    ASSUME NEW k \in Key, NEW r \in Reader, Mine(k),
           (\E o \in Object : OpenObject(k, r, o)) \/ AcquirePin(k, r) \/ ReleasePin(k, r)
    PROVE  Kept(k)
<1> DEFINE e == entry[k]  f == entry'[k]  s == stage[k]  R == reading[k]
           p == reading[k][r].obj
<1>0. /\ entry \in [Key -> EntryType] /\ e \in EntryType
      /\ R \in [Reader -> ReadingType] /\ Fences(e, s)
      /\ UNCHANGED <<stage, task, conv, file, lost>>
  BY DEF Mine, Ours, TypeOK, AllottedAt, OpenObject, AcquirePin, ReleasePin
<1>o. \A q \in Reader : R[q].st \in {"opened", "pinned"} => R[q].obj \in Object
  BY <1>0 DEF ReadingType, Idle
<1>1. f \in {e, Taken(e, p, r), Collected(Given(e, p, r))}
      /\ (f # e => R[r].st \in {"opened", "pinned"})
  BY <1>0 DEF OpenObject, AcquirePin, ReleasePin, Amend, Taken, Given
<1>2. CASE f = e
  BY <1>0, <1>2, StillAllotted
<1>3. CASE f # e
  <2>1. p \in Object
    BY <1>1, <1>3, <1>o
  <2>e. e \in EntryType
    BY <1>0
  <2>2. CASE f = Taken(e, p, r)
    <3>1. /\ f.grant = e.grant /\ f.gen = e.gen /\ f.life = e.life
          /\ f.fenced = e.fenced /\ f.writers = e.writers
      BY <2>1, <2>2, <2>e, PinTaken
    <3>2. Fences(f, s) /\ (Known(f) => Known(e))
      BY <1>0, <3>1 DEF Fences, Known
    <3> QED
      BY <1>0, <3>1, <3>2, StillAllotted
  <2>3. CASE f = Collected(Given(e, p, r))
    <3> DEFINE g == Given(e, p, r)
    <3>1. /\ g \in EntryType /\ g.grant = e.grant /\ g.gen = e.gen /\ g.life = e.life
          /\ g.fenced = e.fenced /\ g.writers = e.writers
      BY <2>1, <2>e, PinGiven
    <3>2. f = Collected(g)
      BY <2>3
    <3> HIDE DEF g
    <3>3. Fences(g, s)
      BY <1>0, <3>1 DEF Fences, Known
    <3>4. f.grant = e.grant /\ Fences(f, s) /\ (Known(f) => f = g)
      BY <3>1, <3>2, <3>3, CollectedAllots
    <3> QED
      BY <1>0, <3>1, <3>4, StillAllotted DEF Known
  <2> QED
    BY <1>1, <1>3, <2>2, <2>3
<1> QED
  BY <1>2, <1>3

\* Retirement: a commit grants what has been read, which is no less than what is
\* there and no more than was granted; after a release nothing is added.
LEMMA RetirementAllots ==
    ASSUME NEW k \in Key, Mine(k),
           \/ BeginRetirement(k) \/ WritersSettle(k)
           \/ ConvertBegins(k) \/ ConvertSees(k) \/ ConvertCommits(k)
           \/ BeginRelease(k) \/ ClearDir(k) \/ RemoveDir(k) \/ AccountUnlinkAll(k)
    PROVE  Kept(k)
<1> DEFINE e == entry[k]  f == entry'[k]  s == stage[k]  z == stage'[k]  c == conv[k]
           d == conv'[k]  here == Cardinality(Linked(k))
           n == Footprint(k)  m == Footprint(k)'
<1>0. /\ entry \in [Key -> EntryType] /\ e \in EntryType
      /\ stage \in [Key -> StageType] /\ s \in StageType
      /\ conv \in [Key -> ConvType] /\ c \in ConvType
      /\ lost \in [Key -> {"never", "now", "healed"}]
      /\ file \in [Key -> [Object -> {"none", "linked", "removed"}]]
      /\ TypeOK /\ TypeOK' /\ Booked(e, task[k]) /\ Stands(e, s, c, here)
      /\ Charged(e, s, lost[k], file[k], task[k], walk[k], c, reading[k])
      /\ Fences(e, s) /\ Allots(e, s, lost[k], c, n) /\ UNCHANGED task
  BY DEF Mine, Ours, TypeOK, Sound, ChargedAt, AllottedAt, BeginRetirement, WritersSettle,
         ConvertBegins, ConvertSees, ConvertCommits, BeginRelease, ClearDir, RemoveDir,
         AccountUnlinkAll
<1>1. m <= n /\ n \in Nat /\ m \in Nat
  <2>1. file' = file \/ file'[k] = [o \in Object |-> IF file[k][o] = "linked" THEN "removed"
                                                     ELSE file[k][o]]
    BY <1>0 DEF BeginRetirement, WritersSettle, ConvertBegins, ConvertSees,
         ConvertCommits, BeginRelease, ClearDir, RemoveDir, AccountUnlinkAll
  <2>2. Linked(k)' \subseteq Linked(k)
    BY <2>1 DEF Linked
  <2>3. InFlight(k)' = InFlight(k)
    BY <1>0 DEF InFlight
  <2> QED
    BY <1>0, <2>2, <2>3, FootprintLess, ObligationOf, ObligationNext
<1>l. Linked(k) = LinkedIn(file[k])
  BY DEF Linked, LinkedIn
\* Where the grant and the generation stay.
<1>s. ASSUME lost'[k] = "never" => lost[k] = "never", f.grant = e.grant, f.gen = e.gen,
             Known(f) => Known(e), Fences(f, z), Over(s) => Over(z),
             d.st = "seen" => d = c \/ d.bytes = here
      PROVE  Kept(k)
  BY <1>0, <1>1, <1>s, Steady
\* How a conversion ends.
<1>d. ASSUME NEW done, Converted(k, done)
      PROVE  /\ z = IF s = "converting" THEN "serving" ELSE s
             /\ d.st # "seen"
  <2>1. NoConvert.st = "off" /\ \A x : Retrying(x).st = "retry"
    BY DEF NoConvert, Retrying
  <2> QED
    BY <1>0, <1>d, <2>1 DEF Converted
<1>e. ASSUME NEW done, Converted(k, done), entry' = entry, lost' = lost
      PROVE  Kept(k)
  <2>1. Fences(e, z) /\ (Over(s) => Over(z))
    BY <1>0, <1>d, <1>e DEF Fences, Over
  <2> QED
    BY <1>d, <1>e, <1>s, <2>1
<1>2. CASE BeginRetirement(k)
  <2> DEFINE g == [e EXCEPT !.fenced = TRUE,
                            !.life = IF @ \in {"provisional", "producing"}
                                     THEN "retiring" ELSE @]
  <2>1. f \in {e, g} /\ s = "live" /\ z = "settling" /\ UNCHANGED <<conv, lost>>
    BY <1>0, <1>2 DEF BeginRetirement, Amend
  <2>2. g.grant = e.grant /\ g.gen = e.gen /\ (Known(g) => Known(e))
    BY <1>0 DEF EntryType, Known
  <2> HIDE DEF f, g
  <2> QED
    BY <1>s, <2>1, <2>2 DEF f, Fences, Over
<1>3. CASE WritersSettle(k)
  <2>1. /\ f = e /\ s = "settling" /\ lost' = lost
        /\ z \in {"converting", "serving"} /\ d.st # "seen"
    BY <1>0, <1>3 DEF WritersSettle, Retrying
  <2>2. Fences(e, z) /\ ~Over(s)
    BY <2>1 DEF Fences, Over
  <2> QED
    BY <1>s, <2>1, <2>2
<1>4. CASE ConvertBegins(k)
  <2>1. entry' = entry /\ lost' = lost
    BY <1>4 DEF ConvertBegins
  <2>2. CASE Converted(k, ~Present(k))
    BY <1>e, <2>1, <2>2
  <2>3. CASE /\ conv' = [conv EXCEPT ![k] =
                           [st |-> "walking", left |-> Left(k), gen |-> e.gen]]
             /\ UNCHANGED stage
    <3>1. d.st = "walking" /\ z = s
      BY <1>0, <2>3
    <3> QED
      BY <1>0, <1>s, <2>1, <3>1
  <2> QED
    BY <1>4, <2>2, <2>3 DEF ConvertBegins
<1>5. CASE ConvertSees(k)
  <2>1. entry' = entry /\ lost' = lost
    BY <1>5 DEF ConvertSees
  <2>2. CASE Converted(k, FALSE)
    BY <1>e, <2>1, <2>2
  <2>3. CASE /\ conv' = [conv EXCEPT ![k] =
                     [ st |-> "seen", left |-> c.left, gen |-> c.gen,
                       bytes |-> Cardinality(Linked(k)) ]]
             /\ UNCHANGED stage
    <3>1. d.bytes = here /\ z = s
      BY <1>0, <2>3
    <3> QED
      BY <1>0, <1>s, <2>1, <3>1
  <2> QED
    BY <1>5, <2>2, <2>3 DEF ConvertSees
<1>6. CASE ConvertCommits(k)
  <2> DEFINE ok == Present(k) /\ e.writers = {} /\ e.gen = c.gen
             g == [e EXCEPT !.used = c.bytes, !.written = 0, !.grant = c.bytes,
                            !.life = IF @ = "retiring" THEN "retained" ELSE @]
  <2>1. c.st = "seen" /\ Converted(k, ok)
    BY <1>6 DEF ConvertCommits
  <2>2. CASE ~ok
    <3>1. entry' = entry /\ lost' = lost
      BY <1>6, <2>2 DEF ConvertCommits
    <3> HIDE DEF ok
    <3> QED
      BY <1>e, <2>1, <3>1
  <2>3. CASE ok
    <3>1. /\ f = g /\ file' = file
          /\ lost' = [lost EXCEPT ![k] = IF @ = "now" THEN "healed" ELSE @]
      BY <1>0, <1>6, <2>3 DEF ConvertCommits, Enter
    <3>2. e.writers = {} /\ e.gen = c.gen /\ Known(e)
      BY <2>3 DEF Present, Known
    <3> HIDE DEF ok
    <3>3. z = (IF s = "converting" THEN "serving" ELSE s) /\ d.st # "seen"
      BY <1>d, <2>1
    <3>4. /\ g.grant = c.bytes /\ g.fenced = e.fenced /\ g.writers = {}
          /\ g.life = IF e.life = "retiring" THEN "retained" ELSE e.life
      BY <1>0, <3>2 DEF EntryType
    <3>5. c.bytes \in Nat /\ here <= c.bytes
      BY <1>0, <1>l, <2>1, <3>2, ConvForms DEF Charged, Retains
    <3>6. lost'[k] = "never" => lost[k] = "never"
      BY <1>0, <3>1
    <3>7. InFlight(k) = {}
      BY <1>0, <3>2 DEF Booked, WritersOf, InFlight
    <3>8. n = here /\ here \in Nat
      BY <1>0, <3>7, FS_EmptySet, ObligationOf DEF Footprint
    <3>9. ~Over(s) /\ lost[k] = "never" => c.bytes <= e.grant
      BY <1>0, <2>1, <3>2 DEF Allots
    <3>10. /\ Obligation(k) = IF ~Over(s) /\ e.grant >= n THEN e.grant ELSE n
           /\ Obligation(k)' = IF ~Over(z) /\ f.grant >= m THEN f.grant ELSE m
           /\ e.grant \in Nat
      BY <1>0, ObligationOf, ObligationNext
    <3> HIDE DEF f, g, e, z, s, d, c, here, n, m
    <3>11. Over(z) <=> Over(s)
      BY <3>3 DEF Over
    <3>12. Fences(f, z)
      BY <1>0, <3>1, <3>2, <3>3, <3>4 DEF Fences, Known
    <3>13. Allots(f, z, lost'[k], d, m)
      BY <1>1, <3>1, <3>3, <3>4, <3>5, <3>8 DEF Allots
    <3>14. lost[k] = "never" => Obligation(k)' <= Obligation(k)
      BY <1>1, <3>1, <3>4, <3>5, <3>8, <3>9, <3>10, <3>11
    <3> QED
      BY <3>6, <3>12, <3>13, <3>14 DEF Kept, AllottedAt, f, z, d, m
  <2> QED
    BY <2>2, <2>3
<1>7. CASE BeginRelease(k)
  <2> DEFINE g == [e EXCEPT !.fenced = TRUE, !.life = "releasing"]
  <2>1. /\ f = IF Present(k) THEN g ELSE e
        /\ s \in {"serving", "live"} /\ z = "releasing" /\ UNCHANGED <<conv, lost>>
    BY <1>0, <1>7 DEF BeginRelease, Amend
  <2>2. g.grant = e.grant /\ g.gen = e.gen /\ g.fenced
    BY <1>0 DEF EntryType
  <2> HIDE DEF f, g
  <2>3. Fences(f, z) /\ ~Over(s) /\ (Known(f) => Known(e))
    BY <2>1, <2>2 DEF Fences, Over, Known, Present
  <2> QED
    BY <1>s, <2>1, <2>2, <2>3 DEF f
<1>8. CASE ClearDir(k)
  <2>1. f = e /\ z = "cleared" /\ s = "releasing" /\ UNCHANGED <<conv, lost>>
    BY <1>0, <1>8 DEF ClearDir
  <2> QED
    BY <1>0, <1>s, <2>1 DEF Fences, Over
<1>9. CASE RemoveDir(k)
  <2>1. f = e /\ z \in {"removed", "releasing"} /\ s = "cleared" /\ UNCHANGED <<conv, lost>>
    BY <1>0, <1>9 DEF RemoveDir
  <2>2. Fences(e, z) /\ ~Over(s)
    BY <1>0, <2>1 DEF Fences, Over
  <2> QED
    BY <1>s, <2>1, <2>2
<1>10. CASE AccountUnlinkAll(k)
  <2> DEFINE g == Unlinked(e)
  <2>1. /\ f = IF Present(k) THEN Collected(g) ELSE e
        /\ s = "removed" /\ z = "done"
        /\ lost'[k] = IF lost[k] = "now" THEN "healed" ELSE lost[k]
    BY <1>0, <1>10 DEF AccountUnlinkAll, Amend
  <2>2. g \in EntryType /\ g.fenced = e.fenced
    BY <1>0 DEF Unlinked, EntryType
  <2> HIDE DEF g
  <2>3. Known(e) => e.fenced
    BY <1>0, <2>1 DEF Fences
  <2>4. Fences(f, z)
    BY <1>0, <2>1, <2>2, <2>3, CollectedAllots DEF Fences, Known, Present
  <2>5. Allots(f, z, lost'[k], d, m)
    BY <2>1 DEF Allots, Over
  <2>6. /\ Obligation(k) = IF ~Over(s) /\ e.grant >= n THEN e.grant ELSE n
        /\ Obligation(k)' = m /\ e.grant \in Nat
    BY <1>0, <2>1, ObligationOf, ObligationNext DEF Over
  <2> HIDE DEF f, e, z, s, d, n, m
  <2>7. Obligation(k)' <= Obligation(k)
    BY <1>1, <2>6
  <2> QED
    BY <2>1, <2>4, <2>5, <2>7 DEF Kept, AllottedAt, f, z, d, m
<1> QED
  BY <1>2, <1>3, <1>4, <1>5, <1>6, <1>7, <1>8, <1>9, <1>10

\* Every step keeps what its incarnation is allotted ...
LEMMA StepAllots ==
    ASSUME NEW k \in Key, Mine(k), Step(k)
    PROVE  Kept(k)
<1>1. CASE Reserve(k) \/ Bind(k) \/ Abandon(k)
  BY <1>1, AdmissionAllots
<1>2. CASE \E w \in Writer :
             \/ RegisterWriter(k, w) \/ FinishWriter(k, w)
             \/ \E o \in Object : AskWrite(k, w, o)
             \/ Grow(k, w) \/ AskAgain(k, w)
             \/ Write(k, w) \/ Landed(k, w) \/ RenameObject(k, w) \/ Unlanded(k, w)
  BY <1>2, WritersAllots
<1>3. CASE Regrant(k) \/ \E v \in Walker :
             WalkBegin(k, v) \/ WalkSees(k, v) \/ WalkFails(k, v) \/ WalkObserves(k, v)
  BY <1>3, WalksAllots, RegrantAllots
<1>4. CASE \E r \in Reader :
             \/ \E o \in Object : OpenObject(k, r, o)
             \/ AcquirePin(k, r) \/ ReleasePin(k, r)
  BY <1>4, ReadersAllots
<1>5. CASE \/ BeginRetirement(k) \/ WritersSettle(k)
           \/ ConvertBegins(k) \/ ConvertSees(k) \/ ConvertCommits(k)
           \/ BeginRelease(k) \/ ClearDir(k) \/ RemoveDir(k) \/ AccountUnlinkAll(k)
  BY <1>5, RetirementAllots
<1> QED
  BY <1>1, <1>2, <1>3, <1>4, <1>5 DEF Step

\* ... and leaves the others theirs.
LEMMA UntouchedAllotted ==
    ASSUME NEW k \in Key, Apart(k), Aside(k), NEW j \in Key \ {k}, AllottedAt(j)
    PROVE  AllottedAt(j)' /\ Obligation(j)' = Obligation(j)
<1>1. /\ entry'[j] = entry[j] /\ stage'[j] = stage[j] /\ lost'[j] = lost[j]
      /\ file'[j] = file[j] /\ task'[j] = task[j] /\ conv'[j] = conv[j]
  BY DEF Apart, Aside
<1>2. Linked(j)' = Linked(j) /\ InFlight(j)' = InFlight(j)
  BY <1>1 DEF Linked, InFlight
<1>3. Footprint(j)' = Footprint(j)
  BY <1>2 DEF Footprint
<1> QED
  BY <1>1, <1>2, <1>3 DEF AllottedAt, Obligation

\* Before anything is minted nothing is owed, and nothing charged.
LEMMA InitAllotted ==
    ASSUME Init, NEW k \in Key
    PROVE  AllottedAt(k) /\ Obligation(k) = 0
<1>0. TypeOK
  BY InitTyped
<1>1. /\ entry[k] = Blank /\ stage[k] = "none" /\ conv[k] = NoConvert
      /\ file[k] = [o \in Object |-> "none"] /\ task[k] = [w \in Writer |-> Idle]
  BY DEF Init
<1>2. Linked(k) = {} /\ InFlight(k) = {}
  BY <1>1 DEF Linked, InFlight, Idle
<1>3. Footprint(k) = 0
  BY <1>2, FS_EmptySet DEF Footprint
<1>4. entry[k].grant = 0 /\ conv[k].st = "off"
  BY <1>1 DEF Blank, NoConvert
<1>5. AllottedAt(k)
  BY <1>1, <1>3, <1>4 DEF AllottedAt, Fences, Allots
<1> QED
  BY <1>0, <1>3, <1>4, <1>5, ObligationOf

\* The charge of an incarnation covers what it is obliged to.
LEMMA ChargeCoversObligation ==
    Account => \A k \in Key : lost[k] = "never" => Obligation(k) <= Charge(entry[k])
<1> SUFFICES ASSUME Account, NEW k \in Key, lost[k] = "never"
             PROVE  Obligation(k) <= Charge(entry[k])
  OBVIOUS
<1>0. TypeOK /\ Sound(k) /\ entry[k] \in EntryType
  BY DEF Account, IInv, TypeOK
<1>1. /\ Charge(entry[k]) \in Nat /\ PinnedExtra(entry[k]) \in Nat
      /\ Charge(entry[k]) >= entry[k].grant + PinnedExtra(entry[k])
      /\ Charge(entry[k]) >= Materialized(entry[k]) + PinnedExtra(entry[k])
  BY <1>0, ChargeOf
<1>2. /\ Footprint(k) \in Nat /\ entry[k].grant \in Nat
      /\ Obligation(k) = IF ~Over(stage[k]) /\ entry[k].grant >= Footprint(k)
                         THEN entry[k].grant ELSE Footprint(k)
  BY <1>0, ObligationOf
<1>3. ChargedAt(k) /\ Materialized(entry[k]) \in Nat /\ Footprint(k) <= Materialized(entry[k])
  BY <1>0, Covered DEF Account
<1> QED
  BY <1>1, <1>2, <1>3

\* The inductive invariant of the ceiling.
Ceiling == Account /\ (\A k \in Key : AllottedAt(k)) /\ WithinCeiling

\* The figures as functions on the incarnations.
Charges == [j \in Key |-> Charge(entry[j])]
Obligations == [j \in Key |-> Obligation(j)]

\* total(), and what the ceiling is about, are sums of these.
LEMMA FiguresAreSums ==
    TypeOK =>
      /\ Charges \in [Key -> Int] /\ Obligations \in [Key -> Int]
      /\ Total = SumOver(Charges, Key)
      /\ WithinCeiling <=> (Configured > 0 /\ (\A j \in Key : lost[j] = "never") =>
                              SumOver(Obligations, Key) <= Configured)
<1> SUFFICES ASSUME TypeOK
             PROVE  /\ Charges \in [Key -> Int] /\ Obligations \in [Key -> Int]
                    /\ Total = SumOver(Charges, Key)
                    /\ MapThenSumSet(Obligation, Key) = SumOver(Obligations, Key)
  BY DEF WithinCeiling
<1>1. Charges \in [Key -> Int]
  BY ChargeOf DEF TypeOK, Charges
<1>2. Obligations \in [Key -> Int]
  BY ObligationOf DEF Obligations
<1> QED
  BY <1>1, <1>2, TotalIsSum, ObligationsAreSum DEF Charges, Obligations

\* A sum of nothings is nothing.
LEMMA SumOfNothing ==
    ASSUME NEW S, IsFiniteSet(S), NEW f \in [S -> Int], \A x \in S : f[x] = 0
    PROVE  SumOver(f, S) = 0
<1> DEFINE z == [s \in SUBSET S |-> 0]
<1>1. ASSUME NEW s \in SUBSET S PROVE z[s] = Part(z, f, s)
  BY SomeElement DEF Part
<1>2. Sums(z, f, S)
  BY <1>1 DEF Sums
<1>3. PICK g \in [SUBSET S -> Int] : Sums(g, f, S) /\ SumOver(f, S) = g[S]
  BY SumOf
<1>4. g = z
  <2> HIDE DEF z
  <2> QED
    BY <1>2, <1>3, SumsAgree
<1> QED
  BY <1>3, <1>4

\* The ceiling is kept before anything is minted.
LEMMA InitCeiling == Init => Ceiling
<1> SUFFICES ASSUME Init PROVE Ceiling
  OBVIOUS
<1>1. Account /\ TypeOK
  BY InitTyped, InitSound, InitCharged DEF Account
<1>2. \A k \in Key : AllottedAt(k) /\ Obligations[k] = 0
  BY InitAllotted DEF Obligations
<1>3. SumOver(Obligations, Key) = 0
  BY <1>1, <1>2, FiguresAreSums, SumOfNothing, ScratchAssumption DEF ScratchAssumption
<1>4. WithinCeiling
  BY <1>1, <1>3, FiguresAreSums, ScratchAssumption DEF ScratchAssumption
<1> QED
  BY <1>1, <1>2, <1>4 DEF Ceiling

\* A step adds to what is obliged only where it is admitted, and then the charges
\* it is admitted by cover all that is obliged.
LEMMA CeilingKept ==
    ASSUME Ceiling, [Next]_vars
    PROVE  Ceiling'
<1>0. Account /\ Account' /\ TypeOK /\ TypeOK' /\ IsFiniteSet(Key) /\ Configured \in Nat
  BY AccountKept, ScratchAssumption DEF Ceiling, Account, IInv, ScratchAssumption
<1>1. /\ Charges \in [Key -> Int] /\ Obligations \in [Key -> Int]
      /\ Total = SumOver(Charges, Key)
      /\ WithinCeiling <=> (Configured > 0 /\ (\A j \in Key : lost[j] = "never") =>
                              SumOver(Obligations, Key) <= Configured)
  BY <1>0, FiguresAreSums
<1>2. /\ Charges' \in [Key -> Int] /\ Obligations' \in [Key -> Int]
      /\ WithinCeiling' <=> (Configured > 0 /\ (\A j \in Key : lost'[j] = "never") =>
                               SumOver(Obligations', Key) <= Configured)
  <2>1. (TypeOK =>
           /\ Charges \in [Key -> Int] /\ Obligations \in [Key -> Int]
           /\ Total = SumOver(Charges, Key)
           /\ WithinCeiling <=> (Configured > 0 /\ (\A j \in Key : lost[j] = "never") =>
                                   SumOver(Obligations, Key) <= Configured))'
    BY FiguresAreSums, PTL
  <2> QED
    BY <1>0, <2>1
<1>3. \A j \in Key : lost'[j] = "never" => Obligations'[j] <= Charges'[j]
  <2>1. (Account => \A k \in Key : lost[k] = "never" => Obligation(k) <= Charge(entry[k]))'
    BY ChargeCoversObligation, PTL
  <2> QED
    BY <1>0, <2>1 DEF Obligations, Charges
\* Where no obligation grows and no belief is regained.
<1>4. ASSUME \A j \in Key : AllottedAt(j)',
             \A j \in Key : lost'[j] = "never" =>
                              lost[j] = "never" /\ Obligations'[j] <= Obligations[j]
      PROVE  Ceiling'
  <2>1. (\A j \in Key : lost'[j] = "never") =>
           SumOver(Obligations', Key) <= SumOver(Obligations, Key)
    BY <1>0, <1>1, <1>2, <1>4, SumGrows
  <2>2. SumOver(Obligations', Key) \in Int /\ SumOver(Obligations, Key) \in Int
    BY <1>0, <1>1, <1>2, SumType
  <2>3. WithinCeiling'
    BY <1>0, <1>1, <1>2, <1>4, <2>1, <2>2 DEF Ceiling
  <2> QED
    BY <1>0, <1>4, <2>3 DEF Ceiling
<1>5. CASE Next
  <2>1. PICK k \in Key : Step(k)
    BY <1>5 DEF Next
  <2>2. Apart(k) /\ Sound(k)'
    BY <1>0, <1>5, <2>1, NextSound, StepSound DEF Account, IInv
  <2>3. Ours(k) /\ Mine(k)
    BY <1>0, <2>2 DEF Ceiling, Account, IInv, Ours, Mine
  <2>4. Aside(k) /\ Kept(k)
    BY <2>1, <2>3, StepCharged, StepAllots
  <2>5. \A j \in Key \ {k} : /\ AllottedAt(j)' /\ Obligation(j)' = Obligation(j)
                             /\ lost'[j] = lost[j] /\ entry'[j] = entry[j]
    BY <2>2, <2>4, UntouchedAllotted DEF Ceiling, Apart, Aside
  <2>6. \A j \in Key : AllottedAt(j)'
    BY <2>4, <2>5 DEF Kept
  <2>7. CASE lost'[k] = "never" => Obligation(k)' <= Obligation(k)
    <3>1. \A j \in Key : lost'[j] = "never" =>
                           lost[j] = "never" /\ Obligations'[j] <= Obligations[j]
      BY <1>1, <2>4, <2>5, <2>7 DEF Kept, Obligations
    <3> QED
      BY <1>4, <2>6, <3>1
  <2>8. CASE Admitted(k)
    <3>1. \A j \in Key \ {k} : Charges'[j] = Charges[j]
      BY <2>5 DEF Charges
    <3>2. SumOver(Charges', Key) = SumOver(Charges, Key) - Charges[k] + Charges'[k]
      BY <1>0, <1>1, <1>2, <3>1, SumChanges
    <3>3. Charges[k] = Charge(entry[k]) /\ Charges'[k] = Charge(entry'[k])
      BY DEF Charges
    <3>4. Configured > 0 => SumOver(Charges', Key) <= Configured
      BY <1>1, <2>8, <3>2, <3>3 DEF Admitted
    <3>5. (\A j \in Key : lost'[j] = "never") =>
             SumOver(Obligations', Key) <= SumOver(Charges', Key)
      BY <1>0, <1>2, <1>3, SumGrows
    <3>6. SumOver(Obligations', Key) \in Int /\ SumOver(Charges', Key) \in Int
      BY <1>0, <1>2, SumType
    <3>7. WithinCeiling'
      BY <1>0, <1>2, <3>4, <3>5, <3>6
    <3> QED
      BY <1>0, <2>6, <3>7 DEF Ceiling
  <2> QED
    BY <2>4, <2>7, <2>8 DEF Kept
<1>6. CASE UNCHANGED vars
  <2>1. ASSUME NEW j \in Key PROVE AllottedAt(j)' /\ Obligation(j)' = Obligation(j)
    <3>1. Linked(j)' = Linked(j) /\ InFlight(j)' = InFlight(j)
      BY <1>6 DEF vars, Linked, InFlight
    <3>2. Footprint(j)' = Footprint(j)
      BY <3>1 DEF Footprint
    <3> QED
      BY <1>6, <3>1, <3>2 DEF vars, Ceiling, AllottedAt, Obligation
  <2>2. \A j \in Key : lost'[j] = lost[j] /\ Obligations'[j] <= Obligations[j]
    BY <1>1, <1>6, <2>1 DEF vars, Obligations
  <2> QED
    BY <1>4, <2>1, <2>2
<1> QED
  BY <1>5, <1>6

\* What all incarnations together have in their directories, or are authorised to
\* put there, stays within the configured ceiling, for any number of them: a write
\* authorised in three critical sections, a regrant between any two of them, and a
\* conversion that gives back in steps add to it only where reserve, grow or regrant
\* looks at the sum of the charges, and a charge covers what it is for.
THEOREM TheCeilingHolds == Spec => []WithinCeiling
<1>1. Ceiling /\ [Next]_vars => Ceiling'
  BY CeilingKept
<1>2. Ceiling => WithinCeiling
  BY DEF Ceiling
<1> QED
  BY <1>1, <1>2, InitCeiling, PTL DEF Spec
=============================================================================
