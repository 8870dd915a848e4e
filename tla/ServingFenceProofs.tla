---- MODULE ServingFenceProofs ----
(***************************************************************************)
(* For any sets of responses and sessions, any grace and any number of     *)
(* losses: the safety properties of ServingFence, and that the finding is  *)
(* the only way for a session to survive an outage that is called expired. *)
(***************************************************************************)
EXTENDS ServingFence, TLAPS

-----------------------------------------------------------------------------
(* Who changes what                                                         *)

RequestStep(r) == Arrive(r) \/ Observation(r) \/ Deciding(r) \/ TakeGuard(r) \/ Answer(r) \/ TimeOut(r)
StartStep(s) == Begin(s) \/ Registering(s) \/ EndSession(s) \/ Retire(s)
PublisherStep == (\E desired \in BOOLEAN : Poll(desired)) \/ Publication

\* Every step is one of the poller, of a response, of a session being
\* registered, of the owner, or of time.
LEMMA StepKinds ==
    ASSUME Next
    PROVE  \/ PublisherStep
           \/ \E r \in Requests : RequestStep(r)
           \/ \E s \in Starts : StartStep(s)
           \/ Resolution
           \/ Tick
BY Zenon DEF Next, PublisherStep, RequestStep, StartStep

\* The poller touches the word, the watch and its own state.
LEMMA PublisherOnly ==
    ASSUME PublisherStep
    PROVE  UNCHANGED <<glance, request, start, registry, resolution, owner, grace, swept, dark>>
BY DEF PublisherStep, Poll, Publication, Store, Send, Unlock, Withdraw, outage

\* A response touches its own state.
LEMMA RequestsOnly ==
    ASSUME NEW r \in Requests, RequestStep(r)
    PROVE  UNCHANGED <<word, watch, unseen, publisher, start, registry,
                       resolution, owner, grace, swept, dark>>
<1>1. CASE Arrive(r)
  BY <1>1 DEF Arrive, authority, outage
<1>2. CASE Observation(r)
  BY <1>2 DEF Observation, ReadCount, ReadWord, ReadAgain, authority, outage
<1>3. CASE Look(r) \/ Gate(r) \/ Admit(r)
  BY <1>3 DEF Look, Gate, Admit, authority, outage
<1>4. CASE CheckGuard(r) \/ Commit(r) \/ TakeGuard(r)
  BY <1>4 DEF CheckGuard, Commit, TakeGuard, authority, outage
<1>5. CASE Answer(r) \/ TimeOut(r)
  BY <1>5 DEF Answer, TimeOut, authority, outage
<1> QED
  BY <1>1, <1>2, <1>3, <1>4, <1>5 DEF RequestStep, Deciding

\* A registration touches its session and the registry's lock.
LEMMA StartsOnly ==
    ASSUME NEW s \in Starts, StartStep(s)
    PROVE  UNCHANGED <<word, watch, unseen, publisher, glance, request,
                       resolution, owner, grace, swept, dark>>
BY DEF StartStep, Begin, Registering, LockRegistry, Register, EndSession, Retire, authority, outage

\* The owner leaves authority and the responses alone, and, but for the sweep,
\* the sessions.
LEMMA OwnerOnly ==
    ASSUME Resolution
    PROVE  /\ UNCHANGED <<word, watch, publisher, glance, request, registry>>
           /\ unseen' = FALSE \/ unseen' = unseen
           /\ Sweep \/ UNCHANGED <<start, swept>>
<1>1. CASE StayTorn \/ NoticeLoss \/ NoLoss \/ Resolve
  BY <1>1 DEF StayTorn, NoticeLoss, NoLoss, Resolve, Sees, authority
<1>2. CASE Expire \/ TellRecovered \/ CountKept \/ TellExpired
  BY <1>2 DEF Expire, TellRecovered, CountKept, TellExpired, authority
<1>3. CASE Sweep \/ Stopped \/ Rearm \/ Wake
  BY <1>3 DEF Sweep, Stopped, Rearm, Wake, Sees, authority
<1> QED
  BY <1>1, <1>2, <1>3 DEF Resolution

\* Time changes the clocks only.
LEMMA TickOnly ==
    ASSUME Tick
    PROVE  UNCHANGED <<word, watch, unseen, publisher, glance, request, start,
                       registry, resolution, owner, swept>>
BY DEF Tick, authority

-----------------------------------------------------------------------------
(* The poller                                                               *)

\* What is being published, and how far the watch is behind the word.
Published ==
    /\ publisher.pc = "lock" =>
         publisher.desired # word.ready /\ (~publisher.desired => word.gen < MaxLosses)
    /\ publisher.pc = "stored" => publisher.desired = word.ready
    /\ publisher.pc # "stored" => watch = word
    /\ publisher.pc = "stored" /\ word.ready => watch.gen = word.gen /\ ~watch.ready
    /\ publisher.pc = "stored" /\ ~word.ready => watch.gen + 1 = word.gen

\* Authority was held under a generation that is over, or is held under it now.
Held(gen) == gen < word.gen \/ (gen = word.gen /\ word.ready)

\* The types of what the poller changes.
AuthorityTyped ==
    /\ word \in Words /\ watch \in Words
    /\ unseen \in BOOLEAN
    /\ publisher \in [pc : {"poll", "lock", "stored", "sent", "unlocked"}, desired : BOOLEAN]

\* A publication under way keeps the watch just behind the word.
LEMMA PublicationSound ==
    ASSUME AuthorityTyped, Published, PublisherStep
    PROVE  AuthorityTyped' /\ Published'
<1> USE LossesAreBounded DEF AuthorityTyped, Words, Generations
<1>1. ASSUME NEW desired \in BOOLEAN, Poll(desired)
      PROVE  AuthorityTyped' /\ Published'
  BY <1>1 DEF Poll, Published, outage
<1>2. CASE Store
  <2>1. CASE publisher.desired
    <3>1. word' = [ready |-> TRUE, gen |-> word.gen]
      BY <1>2, <2>1 DEF Store
    <3>2. publisher' = [pc |-> "stored", desired |-> TRUE]
      BY <1>2, <2>1 DEF Store
    <3>3. watch' = watch /\ unseen' = unseen /\ watch = word /\ ~word.ready
      BY <1>2, <2>1 DEF Store, Published
    <3> QED
      BY <3>1, <3>2, <3>3 DEF Published
  <2>2. CASE ~publisher.desired
    <3>1. word' = [ready |-> FALSE, gen |-> word.gen + 1] /\ word.gen + 1 \in 0 .. MaxLosses
      BY <1>2, <2>2 DEF Store, Published, Lost
    <3>2. publisher' = [pc |-> "stored", desired |-> FALSE]
      BY <1>2, <2>2 DEF Store
    <3>3. watch' = watch /\ unseen' = unseen /\ watch = word
      BY <1>2 DEF Store, Published
    <3> QED
      BY <3>1, <3>2, <3>3 DEF Published
  <2> QED
    BY <2>1, <2>2
<1>3. CASE Send
  BY <1>3 DEF Send, Published
<1>4. CASE Unlock \/ Withdraw
  <2>0. publisher.desired = TRUE \/ publisher.desired = FALSE
    OBVIOUS
  <2>1. \/ publisher' = [pc |-> "poll", desired |-> FALSE]
        \/ publisher' = [pc |-> "unlocked", desired |-> TRUE]
        \/ publisher' = [pc |-> "unlocked", desired |-> FALSE]
    BY <1>4, <2>0 DEF Unlock, Withdraw, Polling
  <2>2. /\ publisher'.pc \in {"poll", "unlocked"}
        /\ publisher' \in [pc : {"poll", "lock", "stored", "sent", "unlocked"}, desired : BOOLEAN]
    <3>1. ASSUME NEW pc \in {"poll", "unlocked"}, NEW b \in BOOLEAN
          PROVE  /\ [pc |-> pc, desired |-> b]
                      \in [pc : {"poll", "lock", "stored", "sent", "unlocked"}, desired : BOOLEAN]
                 /\ [pc |-> pc, desired |-> b].pc = pc
      OBVIOUS
    <3> QED
      BY <2>1, <3>1, Zenon
  <2>3. word = watch /\ UNCHANGED <<word, watch, unseen>>
    BY <1>4 DEF Unlock, Withdraw, Published
  <2> QED
    BY <2>2, <2>3 DEF Published
<1> QED
  BY <1>1, <1>2, <1>3, <1>4 DEF PublisherStep, Publication

\* The watch is behind the word, and shows nothing that was not held.
LEMMA WatchBehind ==
    ASSUME AuthorityTyped, Published
    PROVE  /\ watch.gen \in Generations /\ word.gen \in Generations
           /\ watch.gen <= word.gen
           /\ watch.ready => Held(watch.gen)
BY LossesAreBounded DEF AuthorityTyped, Words, Generations, Published, Held

\* The generations only grow, in the word and in the watch, and what was held
\* stays held.
LEMMA AuthorityGrows ==
    ASSUME AuthorityTyped, Published, PublisherStep
    PROVE  /\ word.gen <= word'.gen /\ watch.gen <= watch'.gen
           /\ \A gen \in Generations : Held(gen) => Held(gen)'
<1> USE LossesAreBounded DEF AuthorityTyped, Words, Generations
<1>1. watch.gen <= word.gen /\ (watch.ready => Held(watch.gen))
  BY WatchBehind
<1>2. ASSUME NEW desired \in BOOLEAN, Poll(desired)
      PROVE  word' = word /\ watch' = watch
  BY <1>2 DEF Poll
<1>3. CASE Store
  <2>1. watch' = watch
    BY <1>3 DEF Store
  <2>2. \/ word' = [ready |-> TRUE, gen |-> word.gen]
        \/ word' = [ready |-> FALSE, gen |-> word.gen + 1]
    BY <1>3 DEF Store, Lost
  <2> QED
    BY <1>1, <2>1, <2>2 DEF Held
<1>4. CASE Send
  BY <1>1, <1>4 DEF Send, Held
<1>5. CASE Unlock \/ Withdraw
  BY <1>1, <1>5 DEF Unlock, Withdraw, Held
<1> QED
  BY <1>1, <1>2, <1>3, <1>4, <1>5 DEF PublisherStep, Publication, Held

-----------------------------------------------------------------------------
(* The responses                                                            *)

RequestRecord == [pc : RequestPcs, gen : Generations, after : Generations, retried : BOOLEAN]

RequestsTyped ==
    /\ glance \in [Requests -> [at : {"none", "count", "word"}, pending : 0..1, word : Words]]
    /\ request \in [Requests -> RequestRecord]

\* A response that does not observe has no reading, and a reading taken under
\* the read lock is of the word there is.
Glanced ==
    \A r \in Requests :
        /\ ~Observing(r) => glance[r].at = "none"
        /\ request[r].pc = "guarded" /\ glance[r].at = "word" => glance[r].word = word

\* Looking away, and going on to a new state, keep the types.
LEMMA RecordTyped ==
    ASSUME RequestsTyped, NEW r \in Requests, NEW rec \in RequestRecord,
           request' = [request EXCEPT ![r] = rec]
    PROVE  /\ request' \in [Requests -> RequestRecord]
           /\ request'[r] = rec
           /\ \A q \in Requests : q # r => request'[q] = request[q]
BY DEF RequestsTyped

LEMMA LookAwayTyped ==
    ASSUME RequestsTyped, NEW r \in Requests, LookAway(r)
    PROVE  /\ glance' \in [Requests -> [at : {"none", "count", "word"}, pending : 0..1, word : Words]]
           /\ glance'[r].at = "none"
           /\ \A q \in Requests : q # r => glance'[q] = glance[q]
<1>1. NoGlance \in [at : {"none", "count", "word"}, pending : 0..1, word : Words]
  BY LossesAreBounded DEF NoGlance, Words, Generations
<1> QED
  BY <1>1 DEF RequestsTyped, LookAway, NoGlance

\* A baseline is a generation, the first one's included.
LEMMA BaselineTyped ==
    ASSUME RequestsTyped, NEW r \in Requests
    PROVE  OutageBaseline(glance[r]) \in Generations
<1>1. glance[r].word \in Words
  BY DEF RequestsTyped
<1>2. glance[r].word.gen \in 0 .. MaxLosses
  BY <1>1 DEF Words, Generations
<1> QED
  BY <1>2, LossesAreBounded DEF OutageBaseline, Generations

\* Where a response may go with a reading over.
LEMMA RefusedTyped ==
    ASSUME NEW rec \in RequestRecord, NEW gen \in Generations
    PROVE  /\ Refused(rec, gen) \in RequestRecord
           /\ Refused(rec, gen).pc \in {"out", "recovering"}
<1>1. 0 \in Generations /\ NoRequest \in RequestRecord /\ NoRequest.pc = "out"
  BY LossesAreBounded DEF NoRequest, RequestRecord, RequestPcs, Generations
<1>2. /\ [rec EXCEPT !.pc = "recovering", !.gen = 0, !.after = gen] \in RequestRecord
      /\ [rec EXCEPT !.pc = "recovering", !.gen = 0, !.after = gen].pc = "recovering"
  BY <1>1 DEF RequestRecord, RequestPcs
<1> QED
  BY <1>1, <1>2 DEF Refused

\* What the steps of a response make of it: how far its observation is, and
\* that it commits only under a word that is still there.
RequestMoves(r) ==
    \/ /\ UNCHANGED request
       /\ Observing(r)
       /\ \/ glance'[r].at = "count"
          \/ glance'[r].at = "word" /\ glance'[r].word = word
          \/ glance'[r].at = "none"
    \/ /\ glance'[r].at = "none"
       /\ request'[r].pc = "committing" =>
            /\ request[r].pc = "guarded" /\ glance[r].at = "word"
            /\ glance[r].word.ready /\ glance[r].word.gen = request'[r].gen

\* Each step of a response keeps the types and the other responses.
LEMMA RequestSound ==
    ASSUME RequestsTyped, Glanced, word \in Words,
           NEW r \in Requests, RequestStep(r)
    PROVE  /\ RequestsTyped'
           /\ \A q \in Requests : q # r => request'[q] = request[q] /\ glance'[q] = glance[q]
           /\ RequestMoves(r)
<1> DEFINE Others == \A q \in Requests : q # r => request'[q] = request[q] /\ glance'[q] = glance[q]
           Goal == RequestsTyped' /\ Others /\ RequestMoves(r)
<1> SUFFICES Goal
  OBVIOUS
<1>0. /\ request[r] \in RequestRecord /\ request[r].pc \in RequestPcs
      /\ request[r].gen \in Generations /\ request[r].after \in Generations
      /\ request[r].retried \in BOOLEAN /\ 0 \in Generations
      /\ glance[r] \in [at : {"none", "count", "word"}, pending : 0..1, word : Words]
      /\ Pending \in 0..1
      /\ NoRequest \in RequestRecord
      /\ OutageBaseline(glance[r]) \in Generations
  BY LossesAreBounded, BaselineTyped
     DEF RequestsTyped, RequestRecord, Generations, Pending, NoRequest, RequestPcs
\* A step that only moves the response.
<1>a. ASSUME NEW rec \in RequestRecord, request' = [request EXCEPT ![r] = rec],
             rec.pc = "committing" =>
               /\ request[r].pc = "guarded" /\ glance[r].at = "word"
               /\ glance[r].word.ready /\ glance[r].word.gen = rec.gen,
             LookAway(r) \/ (UNCHANGED glance /\ ~Observing(r))
      PROVE  Goal
  <2>1. /\ request' \in [Requests -> RequestRecord] /\ request'[r] = rec
        /\ \A q \in Requests : q # r => request'[q] = request[q]
    BY <1>a, RecordTyped
  <2>2. /\ glance' \in [Requests -> [at : {"none", "count", "word"}, pending : 0..1, word : Words]]
        /\ glance'[r].at = "none"
        /\ \A q \in Requests : q # r => glance'[q] = glance[q]
    BY <1>a, LookAwayTyped DEF Glanced, RequestsTyped
  <2>3. RequestMoves(r)
    BY <1>a, <2>1, <2>2 DEF RequestMoves
  <2> QED
    BY <2>1, <2>2, <2>3 DEF RequestsTyped
\* A step that only reads.
<1>b. ASSUME NEW g \in [at : {"none", "count", "word"}, pending : 0..1, word : Words],
             glance' = [glance EXCEPT ![r] = g], UNCHANGED request, Observing(r),
             g.at = "word" => g.word = word
      PROVE  Goal
  <2>1. /\ glance' \in [Requests -> [at : {"none", "count", "word"}, pending : 0..1, word : Words]]
        /\ glance'[r] = g
        /\ \A q \in Requests : q # r => glance'[q] = glance[q]
    BY <1>b DEF RequestsTyped
  <2>2. RequestMoves(r)
    BY <1>b, <2>1 DEF RequestMoves
  <2> QED
    BY <1>b, <2>1, <2>2 DEF RequestsTyped
<1>1. CASE Arrive(r)
  <2>1. PICK pc \in {"arriving", "gate"} : request' = [request EXCEPT ![r].pc = pc]
    BY <1>1 DEF Arrive
  <2>2. [request[r] EXCEPT !.pc = pc] \in RequestRecord
    BY <1>0 DEF RequestRecord, RequestPcs
  <2>3. request' = [request EXCEPT ![r] = [request[r] EXCEPT !.pc = pc]]
    BY <2>1, Zenon
  <2>4. [request[r] EXCEPT !.pc = pc].pc = pc
    BY <1>0 DEF RequestRecord
  <2>5. UNCHANGED glance /\ ~Observing(r)
    BY <1>1 DEF Arrive, Observing
  <2> HIDE DEF Goal
  <2> QED
    BY <1>a, <2>2, <2>3, <2>4, <2>5
<1>2. CASE ReadCount(r)
  <2>1. [glance[r] EXCEPT !.at = "count", !.pending = Pending]
          \in [at : {"none", "count", "word"}, pending : 0..1, word : Words]
    BY <1>0
  <2>2. [glance[r] EXCEPT !.at = "count", !.pending = Pending].at = "count"
    BY <1>0
  <2>3. /\ glance' = [glance EXCEPT ![r] = [glance[r] EXCEPT !.at = "count", !.pending = Pending]]
        /\ UNCHANGED request /\ Observing(r)
    BY <1>2 DEF ReadCount
  <2> HIDE DEF Goal
  <2> QED
    BY <1>b, <2>1, <2>2, <2>3
<1>3. CASE ReadWord(r)
  <2>1. [glance[r] EXCEPT !.at = "word", !.word = word]
          \in [at : {"none", "count", "word"}, pending : 0..1, word : Words]
    BY <1>0
  <2>2. [glance[r] EXCEPT !.at = "word", !.word = word].word = word
    BY <1>0
  <2>3. /\ glance' = [glance EXCEPT ![r] = [glance[r] EXCEPT !.at = "word", !.word = word]]
        /\ UNCHANGED request /\ Observing(r)
    BY <1>3 DEF ReadWord, Glanced
  <2> HIDE DEF Goal
  <2> QED
    BY <1>b, <2>1, <2>2, <2>3
<1>4. CASE ReadAgain(r)
  <2>1. NoGlance \in [at : {"none", "count", "word"}, pending : 0..1, word : Words]
        /\ NoGlance.at = "none"
    BY LossesAreBounded DEF NoGlance, Words, Generations
  <2>2. /\ glance' = [glance EXCEPT ![r] = NoGlance]
        /\ UNCHANGED request /\ Observing(r)
    BY <1>4 DEF ReadAgain, Glanced
  <2> HIDE DEF Goal
  <2> QED
    BY <1>b, <2>1, <2>2
<1>5. CASE Look(r)
  <2> DEFINE held == request[r].pc = "arriving"
             rec == IF Admitted(glance[r])
             THEN [request[r] EXCEPT !.pc = IF held THEN "gate" ELSE "admitting",
                            !.after = 0, !.retried = ~held]
             ELSE [request[r] EXCEPT !.pc = IF held THEN "held" ELSE "recovering",
                            !.after = OutageBaseline(glance[r])]
  <2>1. request' = [request EXCEPT ![r] = rec] /\ LookAway(r)
    BY <1>5 DEF Look
  <2>2. rec \in RequestRecord /\ rec.pc # "committing"
    <3>2. /\ [request[r] EXCEPT !.pc = IF held THEN "gate" ELSE "admitting",
                            !.after = 0, !.retried = ~held] \in RequestRecord
          /\ [request[r] EXCEPT !.pc = IF held THEN "gate" ELSE "admitting",
                            !.after = 0, !.retried = ~held].pc # "committing"
      <4>1. CASE held
        BY <1>0, <4>1 DEF RequestRecord, RequestPcs
      <4>2. CASE ~held
        BY <1>0, <4>2 DEF RequestRecord, RequestPcs
      <4> QED
        BY <4>1, <4>2
    <3>3. /\ [request[r] EXCEPT !.pc = IF held THEN "held" ELSE "recovering",
                            !.after = OutageBaseline(glance[r])] \in RequestRecord
          /\ [request[r] EXCEPT !.pc = IF held THEN "held" ELSE "recovering",
                            !.after = OutageBaseline(glance[r])].pc # "committing"
      BY <1>0 DEF RequestRecord, RequestPcs
    <3> QED
      BY <3>2, <3>3
  <2> HIDE DEF Goal, rec
  <2> QED
    BY <1>a, <2>1, <2>2
<1>6. CASE Gate(r)
  <2>1. PICK rec \in {[NoRequest EXCEPT !.pc = "admitting"], NoRequest} :
            request' = [request EXCEPT ![r] = rec]
    BY <1>6 DEF Gate
  <2>2. rec \in RequestRecord /\ rec.pc # "committing"
    BY <1>0, <2>1 DEF RequestRecord, RequestPcs, NoRequest
  <2>3. UNCHANGED glance /\ ~Observing(r)
    BY <1>6 DEF Gate, Observing
  <2> HIDE DEF Goal
  <2> QED
    BY <1>a, <2>1, <2>2, <2>3
<1>7. CASE Admit(r)
  <2>1. \/ request' = [request EXCEPT ![r] = [request[r] EXCEPT !.pc = "admitted", !.gen = glance[r].word.gen]]
        \/ request' = [request EXCEPT ![r] = Refused(request[r], OutageBaseline(glance[r]))]
    BY <1>7 DEF Admit
  <2>2. /\ [request[r] EXCEPT !.pc = "admitted", !.gen = glance[r].word.gen] \in RequestRecord
        /\ [request[r] EXCEPT !.pc = "admitted", !.gen = glance[r].word.gen].pc # "committing"
    BY <1>0 DEF RequestRecord, RequestPcs, Words
  <2>3. /\ Refused(request[r], OutageBaseline(glance[r])) \in RequestRecord
        /\ Refused(request[r], OutageBaseline(glance[r])).pc # "committing"
    BY <1>0, RefusedTyped
  <2>4. LookAway(r)
    BY <1>7 DEF Admit
  <2> HIDE DEF Goal
  <2> QED
    BY <1>a, <2>1, <2>2, <2>3, <2>4
<1>8. CASE TakeGuard(r)
  <2>1. request' = [request EXCEPT ![r] = [request[r] EXCEPT !.pc = "guarded"]]
    BY <1>8, Zenon DEF TakeGuard
  <2>2. /\ [request[r] EXCEPT !.pc = "guarded"] \in RequestRecord
        /\ [request[r] EXCEPT !.pc = "guarded"].pc # "committing"
    BY <1>0 DEF RequestRecord, RequestPcs
  <2>3. UNCHANGED glance /\ ~Observing(r)
    BY <1>8 DEF TakeGuard, Observing
  <2> HIDE DEF Goal
  <2> QED
    BY <1>a, <2>1, <2>2, <2>3
<1>9. CASE CheckGuard(r)
  <2>0. LookAway(r) /\ request[r].pc = "guarded" /\ glance[r].at = "word"
    BY <1>9 DEF CheckGuard, Observed
  <2>1. CASE IsCurrent(glance[r], request[r].gen)
    <3>1. request' = [request EXCEPT ![r] = [request[r] EXCEPT !.pc = "committing"]]
      BY <1>9, <2>1 DEF CheckGuard
    <3>2. /\ [request[r] EXCEPT !.pc = "committing"] \in RequestRecord
          /\ [request[r] EXCEPT !.pc = "committing"].gen = request[r].gen
      BY <1>0 DEF RequestRecord, RequestPcs
    <3>3. glance[r].word.ready /\ glance[r].word.gen = request[r].gen
      BY <2>1 DEF IsCurrent, Admitted
    <3> HIDE DEF Goal
    <3> QED
      BY <1>a, <2>0, <3>1, <3>2, <3>3
  <2>2. CASE ~IsCurrent(glance[r], request[r].gen)
    <3>1. request' = [request EXCEPT ![r] = Refused(request[r], request[r].gen)]
      BY <1>9, <2>2 DEF CheckGuard
    <3>2. /\ Refused(request[r], request[r].gen) \in RequestRecord
          /\ Refused(request[r], request[r].gen).pc # "committing"
      BY <1>0, RefusedTyped
    <3> HIDE DEF Goal
    <3> QED
      BY <1>a, <2>0, <3>1, <3>2
  <2> QED
    BY <2>1, <2>2
<1>10. CASE Commit(r)
  <2>1. request' = [request EXCEPT ![r] = NoRequest] /\ UNCHANGED glance /\ ~Observing(r)
    BY <1>10 DEF Commit, Observing
  <2>2. NoRequest.pc # "committing"
    BY DEF NoRequest
  <2> HIDE DEF Goal
  <2> QED
    BY <1>0, <1>a, <2>1, <2>2
\* A wait is over: the response goes on, or back to the gate, or away.
<1>c. Released(r) \in RequestRecord /\ Released(r).pc \in {"out", "gate"}
  BY <1>0 DEF Released, NoRequest, RequestRecord, RequestPcs
<1>11. CASE Answer(r)
  <2> DEFINE rec == [request[r] EXCEPT !.pc = IF request[r].pc = "held" THEN "arriving" ELSE "again",
                                       !.after = 0]
  <2>1. \/ request' = [request EXCEPT ![r] = Released(r)]
        \/ request' = [request EXCEPT ![r] = rec]
    BY <1>11 DEF Answer
  <2>2. rec \in RequestRecord /\ rec.pc # "committing"
    BY <1>0 DEF RequestRecord, RequestPcs
  <2>3. UNCHANGED glance /\ ~Observing(r)
    BY <1>11 DEF Answer, Waiting, Observing
  <2>4. Released(r).pc # "committing"
    BY <1>c
  <2> HIDE DEF Goal, rec
  <2> QED
    BY <1>a, <1>c, <2>1, <2>2, <2>3, <2>4
<1>12. CASE TimeOut(r)
  <2>1. request' = [request EXCEPT ![r] = Released(r)] /\ UNCHANGED glance /\ ~Observing(r)
    BY <1>12 DEF TimeOut, Waiting, Observing
  <2>2. Released(r).pc # "committing"
    BY <1>c
  <2> HIDE DEF Goal
  <2> QED
    BY <1>a, <1>c, <2>1, <2>2
<1> QED
  BY <1>1, <1>2, <1>3, <1>4, <1>5, <1>6, <1>7, <1>8, <1>9, <1>10, <1>11, <1>12
     DEF RequestStep, Observation, Deciding

-----------------------------------------------------------------------------
(* The owner                                                                *)

OwnerTyped ==
    /\ resolution \in [gen : Generations, state : {"pending", "recovered", "expired"}]
    /\ owner \in [pc : OwnerPcs, gen : Generations,
                  torn : Generations \cup {None}, known : Generations]
    /\ grace \in [spent : Ticks, since : Ticks \cup {None}, elapsed : Ticks]
    /\ dark \in [waited : Nat, calm : Ticks]

\* What has been waited in the outage is what its budget has been charged; a
\* budget is given anew only when the time since it has been counted as calm.
Budgeted ==
    /\ owner.pc = "waiting" =>
         dark.waited <= grace.spent + grace.elapsed /\ grace.spent + grace.elapsed <= Grace
    /\ owner.pc # "waiting" => dark.waited <= grace.spent
    /\ owner.pc # "waiting" /\ grace.since # None => grace.since <= dark.calm
    /\ dark.calm = Grace => dark.waited = 0
    /\ owner.pc = "resolve" => grace.elapsed = 0

\* A recovery that was seen, and one that has been told, took place.
Recovered ==
    /\ owner.pc = "recovered" => Held(owner.gen)
    /\ RecoveryIsReal

\* What the owner knows is not ahead of the watch; what it tore down has been
\* called expired, unless something newer has happened since.
Torn ==
    /\ owner.known <= watch.gen
    /\ owner.torn # None => owner.torn <= watch.gen
    /\ owner.torn # None /\ owner.pc \in {"top", "idle"} => owner.torn <= owner.known
    /\ owner.torn # None =>
         resolution = [gen |-> owner.torn, state |-> "expired"] \/ owner.torn < watch.gen
    /\ owner.torn # None /\ owner.pc \notin {"top", "idle", "bottom"} => owner.torn < watch.gen
    /\ owner.pc \in {"sweep", "stopping"} =>
         owner.gen <= watch.gen /\ resolution = [gen |-> owner.gen, state |-> "expired"]
    /\ OutageIsTold

\* The fields of the owner's records.
LEMMA OwnerFields ==
    ASSUME OwnerTyped
    PROVE  /\ owner.pc \in OwnerPcs /\ owner.gen \in Generations
           /\ owner.torn \in Generations \cup {None} /\ owner.known \in Generations
           /\ owner = [pc |-> owner.pc, gen |-> owner.gen, torn |-> owner.torn,
                       known |-> owner.known]
           /\ grace.spent \in Ticks /\ grace.since \in Ticks \cup {None}
           /\ grace.elapsed \in Ticks
           /\ dark.waited \in Nat /\ dark.calm \in Ticks
           /\ Generations \subseteq Nat /\ Ticks \subseteq Nat
           /\ None \notin Nat /\ Grace \in Nat /\ Grace > 0 /\ 0 \in Generations /\ 0 \in Ticks
BY NoneIsApart, LossesAreBounded, GraceIsPositive DEF OwnerTyped, Generations, Ticks

\* The owner's control and the resolution it publishes.
LEMMA ControlSound ==
    ASSUME AuthorityTyped, Published, OwnerTyped, Recovered, Torn, Resolution
    PROVE  /\ resolution' \in [gen : Generations, state : {"pending", "recovered", "expired"}]
           /\ owner' \in [pc : OwnerPcs, gen : Generations,
                          torn : Generations \cup {None}, known : Generations]
           /\ Recovered' /\ Torn'
<1> DEFINE Goal == /\ resolution' \in [gen : Generations, state : {"pending", "recovered", "expired"}]
                   /\ owner' \in [pc : OwnerPcs, gen : Generations,
                                  torn : Generations \cup {None}, known : Generations]
                   /\ Recovered' /\ Torn'
<1> SUFFICES Goal
  OBVIOUS
<1> USE OwnerFields
<1>0. /\ watch.gen \in Generations /\ watch.ready \in BOOLEAN
      /\ watch.ready => Held(watch.gen)
      /\ UNCHANGED <<word, watch>>
      /\ unseen' = FALSE \/ unseen' = unseen
  BY OwnerOnly, WatchBehind DEF AuthorityTyped, Words
<1>1. CASE StayTorn
  <2>1. owner' = [pc |-> "idle", gen |-> owner.gen, torn |-> watch.gen, known |-> watch.gen]
    BY <1>1 DEF StayTorn
  <2>2. resolution' = [gen |-> watch.gen, state |-> "expired"]
    BY <1>0, <1>1 DEF StayTorn, Reannounced, Torn
  <2>3. Recovered'
    BY <2>1, <2>2 DEF Recovered, RecoveryIsReal
  <2>4. Torn'
    BY <1>0, <2>1, <2>2 DEF Torn, OutageIsTold
  <2> QED
    BY <1>0, <2>1, <2>2, <2>3, <2>4 DEF OwnerPcs
<1>2. CASE NoticeLoss
  <2>1. owner' = [pc |-> "resolve", gen |-> owner.gen, torn |-> owner.torn, known |-> watch.gen]
    BY <1>2 DEF NoticeLoss
  <2>2. resolution' = [gen |-> watch.gen, state |-> "pending"]
    BY <1>2 DEF NoticeLoss
  <2>3. owner.torn # None => owner.torn < watch.gen
    BY <1>0, <1>2 DEF NoticeLoss, Torn
  <2>4. Recovered'
    BY <2>1, <2>2 DEF Recovered, RecoveryIsReal
  <2>5. Torn'
    BY <1>0, <2>1, <2>2, <2>3 DEF Torn, OutageIsTold
  <2> QED
    BY <1>0, <2>1, <2>2, <2>4, <2>5 DEF OwnerPcs
<1>3. CASE NoLoss
  BY <1>0, <1>3 DEF NoLoss, Owner, Recovered, RecoveryIsReal, Torn, OutageIsTold,
     Held, OwnerTyped, OwnerPcs
<1>4. CASE Resolve
  <2>1. /\ owner.pc \in {"resolve", "waiting"} /\ resolution' = resolution
        /\ \/ owner' = [pc |-> "waiting", gen |-> owner.gen, torn |-> owner.torn,
                        known |-> owner.known]
           \/ /\ owner' = [pc |-> "recovered", gen |-> watch.gen, torn |-> owner.torn,
                           known |-> owner.known]
              /\ watch.ready
    BY <1>4 DEF Resolve, Recover, Owner
  <2>2. Recovered'
    BY <1>0, <2>1 DEF Recovered, RecoveryIsReal, Held
  <2>3. Torn'
    BY <1>0, <2>1 DEF Torn, OutageIsTold
  <2> QED
    BY <1>0, <2>1, <2>2, <2>3 DEF OwnerPcs, OwnerTyped
<1>5. CASE Expire
  BY <1>0, <1>5 DEF Expire, Owner, Recovered, RecoveryIsReal, Torn, OutageIsTold,
     Held, OwnerTyped, OwnerPcs
<1>6. CASE TellRecovered
  BY <1>0, <1>6 DEF TellRecovered, RecoveryTold, Recovered, RecoveryIsReal, Torn, OutageIsTold,
     Held, OwnerTyped, OwnerPcs
<1>7. CASE CountKept
  BY <1>0, <1>7 DEF CountKept, Owner, Recovered, RecoveryIsReal, Torn, OutageIsTold,
     Held, OwnerTyped, OwnerPcs
<1>8. CASE TellExpired
  <2>1. owner' = [pc |-> "sweep", gen |-> watch.gen, torn |-> owner.torn, known |-> owner.known]
    BY <1>8 DEF TellExpired
  <2>2. resolution' = [gen |-> watch.gen, state |-> "expired"]
    BY <1>8 DEF TellExpired
  <2>3. Recovered'
    BY <2>1, <2>2 DEF Recovered, RecoveryIsReal
  <2>4. Torn'
    BY <1>0, <1>8, <2>1, <2>2 DEF TellExpired, Torn, OutageIsTold
  <2> QED
    BY <1>0, <2>1, <2>2, <2>3, <2>4 DEF OwnerPcs
<1>9. CASE Sweep
  BY <1>0, <1>9 DEF Sweep, Owner, Recovered, RecoveryIsReal, Torn, OutageIsTold,
     Held, OwnerTyped, OwnerPcs
<1>10. CASE Stopped
  BY <1>0, <1>10 DEF Stopped, Recovered, RecoveryIsReal, Torn, OutageIsTold,
     Held, OwnerTyped, OwnerPcs
<1>11. CASE Rearm
  <2>1. /\ resolution' = resolution
        /\ \/ /\ owner' = [pc |-> "idle", gen |-> owner.gen, torn |-> None, known |-> watch.gen]
              /\ watch.ready
           \/ owner' = [pc |-> "top", gen |-> owner.gen, torn |-> owner.torn, known |-> watch.gen]
    BY <1>11 DEF Rearm
  <2>2. Recovered'
    BY <1>0, <2>1 DEF Recovered, RecoveryIsReal, Held
  <2>3. Torn'
    BY <1>0, <1>11, <2>1 DEF Rearm, Torn, OutageIsTold
  <2> QED
    BY <1>0, <2>1, <2>2, <2>3 DEF OwnerPcs, OwnerTyped
<1>12. CASE Wake
  BY <1>0, <1>12 DEF Wake, Owner, Recovered, RecoveryIsReal, Torn, OutageIsTold,
     Held, OwnerTyped, OwnerPcs
<1> QED
  BY <1>1, <1>2, <1>3, <1>4, <1>5, <1>6, <1>7, <1>8, <1>9, <1>10, <1>11, <1>12 DEF Resolution

\* The types of the owner's clocks.
ClocksTyped ==
    /\ grace \in [spent : Ticks, since : Ticks \cup {None}, elapsed : Ticks]
    /\ dark \in [waited : Nat, calm : Ticks]

\* Only the end of a wait, or its beginning, moves the budget.
LEMMA BudgetSound ==
    ASSUME OwnerTyped, Budgeted, Resolution
    PROVE  ClocksTyped' /\ Budgeted'
<1> DEFINE Goal == ClocksTyped' /\ Budgeted'
<1> SUFFICES Goal
  OBVIOUS
<1> USE OwnerFields
\* A step that leaves the clocks, and does not end or begin a wait.
<1>a. ASSUME UNCHANGED <<grace, dark>>, owner.pc # "waiting",
             owner'.pc \notin {"waiting", "resolve"}
      PROVE  Goal
  BY <1>a DEF OwnerTyped, ClocksTyped, Budgeted
<1>1. CASE StayTorn
  <2>1. UNCHANGED <<grace, dark>> /\ owner.pc # "waiting" /\ owner'.pc = "idle"
    BY <1>1 DEF StayTorn
  <2> QED
    BY <1>a, <2>1
<1>2. CASE NoticeLoss
  <2>1. /\ grace' = [spent |-> grace.spent, since |-> grace.since, elapsed |-> 0]
        /\ dark' = dark /\ owner.pc = "top" /\ owner'.pc = "resolve"
    BY <1>2 DEF NoticeLoss, OwnerTyped
  <2> QED
    BY <2>1 DEF OwnerTyped, ClocksTyped, Budgeted
<1>3. CASE NoLoss \/ CountKept \/ Sweep \/ Wake
  <2>1. /\ UNCHANGED <<grace, dark>> /\ owner.pc # "waiting"
        /\ owner'.pc \in {"bottom", "stopping", "top"}
    BY <1>3 DEF NoLoss, CountKept, Sweep, Wake, Owner
  <2> QED
    BY <1>a, <2>1
<1>4. CASE Resolve
  <2> DEFINE spent == IF owner.pc = "resolve" THEN SpentAt ELSE grace.spent
  <2>1. /\ owner.pc \in {"resolve", "waiting"} /\ dark' = dark
        /\ \/ /\ owner'.pc = "waiting"
              /\ grace' = [spent |-> spent, since |-> grace.since, elapsed |-> grace.elapsed]
           \/ /\ owner'.pc = "recovered"
              /\ grace' = [spent |-> Least(spent + grace.elapsed, Grace), since |-> 0, elapsed |-> 0]
    BY <1>4 DEF Resolve, Recover, Owner, OwnerTyped
  <2>2. spent \in Ticks
    BY DEF SpentAt
  <2>3. dark.waited <= spent + grace.elapsed /\ spent + grace.elapsed <= Grace
    <3>1. CASE owner.pc = "waiting"
      BY <3>1 DEF Budgeted
    <3>2. CASE owner.pc = "resolve" /\ grace.since = Grace
      BY <3>2 DEF Budgeted, SpentAt, Ticks
    <3>3. CASE owner.pc = "resolve" /\ grace.since # Grace
      BY <3>3 DEF Budgeted, SpentAt, Ticks
    <3> QED
      BY <2>1, <3>1, <3>2, <3>3
  <2> HIDE DEF spent
  <2>4. CASE owner'.pc = "waiting"
    BY <2>1, <2>2, <2>3, <2>4 DEF ClocksTyped, Budgeted, OwnerTyped
  <2>5. CASE owner'.pc = "recovered"
    <3>1. grace' = [spent |-> spent + grace.elapsed, since |-> 0, elapsed |-> 0]
      BY <2>1, <2>2, <2>3, <2>5 DEF Least, Ticks
    <3>2. spent + grace.elapsed \in Ticks
      BY <2>2, <2>3 DEF Ticks
    <3> QED
      BY <2>1, <2>2, <2>3, <2>5, <3>1, <3>2 DEF ClocksTyped, Budgeted, OwnerTyped, Ticks
  <2> QED
    BY <2>1, <2>4, <2>5
<1>5. CASE Expire
  <2>1. /\ grace' = [spent |-> 0, since |-> None, elapsed |-> 0]
        /\ dark' = [waited |-> 0, calm |-> 0]
        /\ owner'.pc = "expired"
    BY <1>5 DEF Expire, Owner, OwnerTyped
  <2> QED
    BY <2>1 DEF ClocksTyped, Budgeted
<1>6. CASE TellRecovered \/ TellExpired \/ Stopped
  <2>1. /\ UNCHANGED <<grace, dark>> /\ owner.pc # "waiting"
        /\ owner'.pc \in {"counting", "sweep", "bottom"}
    BY <1>6 DEF TellRecovered, TellExpired, Stopped
  <2> QED
    BY <1>a, <2>1
<1>7. CASE Rearm
  <2>1. UNCHANGED <<grace, dark>> /\ owner.pc # "waiting" /\ owner'.pc \in {"idle", "top"}
    BY <1>7 DEF Rearm
  <2> QED
    BY <1>a, <2>1
<1> QED
  BY <1>1, <1>2, <1>3, <1>4, <1>5, <1>6, <1>7 DEF Resolution

\* A tick in a wait is charged, one outside it is calm.
LEMMA TickSound ==
    ASSUME OwnerTyped, Budgeted, Tick
    PROVE  ClocksTyped' /\ Budgeted'
<1> USE OwnerFields
<1>1. CASE owner.pc = "waiting"
  <2>1. grace.elapsed < Grace - grace.spent
    BY <1>1 DEF Tick, Prompt, GraceIsOver, Ticks
  <2>2. /\ dark' = [waited |-> dark.waited + 1, calm |-> 0]
        /\ grace'.spent = grace.spent /\ grace'.elapsed = grace.elapsed + 1
        /\ grace'.since = IF grace.since = None THEN None ELSE Least(grace.since + 1, Grace)
        /\ grace' = [spent |-> grace'.spent, since |-> grace'.since, elapsed |-> grace'.elapsed]
    BY <1>1 DEF Tick, OwnerTyped
  <2>5. grace'.since \in Ticks \cup {None}
    BY <2>2 DEF Least, Ticks
  <2>3. grace.elapsed + 1 \in Ticks
    BY <2>1 DEF Ticks
  <2>4. owner'.pc = "waiting"
    BY <1>1, TickOnly
  <2> QED
    BY <1>1, <2>1, <2>2, <2>3, <2>4, <2>5 DEF ClocksTyped, Budgeted, Ticks
<1>2. CASE owner.pc # "waiting"
  <2> DEFINE calm == Least(dark.calm + 1, Grace)
  <2>1. /\ dark' = [waited |-> IF calm = Grace THEN 0 ELSE dark.waited, calm |-> calm]
        /\ grace'.spent = grace.spent /\ grace'.elapsed = grace.elapsed
        /\ grace'.since = IF grace.since = None THEN None ELSE Least(grace.since + 1, Grace)
        /\ grace' = [spent |-> grace'.spent, since |-> grace'.since, elapsed |-> grace'.elapsed]
    BY <1>2 DEF Tick, OwnerTyped
  <2>2. calm \in Ticks
    BY DEF Least, Ticks
  <2>3. grace'.since \in Ticks \cup {None}
    BY <2>1 DEF Least, Ticks
  <2>4. grace.since # None => grace'.since <= calm
    BY <1>2, <2>1 DEF Budgeted, Least, Ticks
  <2>5. owner' = owner
    BY TickOnly
  <2> HIDE DEF calm
  <2> QED
    BY <1>2, <2>1, <2>2, <2>3, <2>4, <2>5 DEF ClocksTyped, Budgeted
<1> QED
  BY <1>1, <1>2

-----------------------------------------------------------------------------
(* The sessions                                                             *)

StartRecord == [pc : StartPcs, gen : Generations]

StartsTyped ==
    /\ start \in [Starts -> StartRecord]
    /\ registry \in Starts \cup {None}
    /\ swept \in Generations

\* One registration is inside the lock, and nobody inside it, or through it, is
\* older than the last teardown.
Covered ==
    /\ swept <= word.gen
    /\ \A s \in Starts :
         /\ start[s].pc = "registering" => registry = s
         /\ start[s].pc \in {"registering", "live"} => swept <= start[s].gen

\* A session moves alone.
LEMMA StartTyped ==
    ASSUME StartsTyped, NEW s \in Starts, NEW rec \in StartRecord,
           start' = [start EXCEPT ![s] = rec]
    PROVE  /\ start' \in [Starts -> StartRecord]
           /\ start'[s] = rec
           /\ \A q \in Starts : q # s => start'[q] = start[q]
BY DEF StartsTyped

\* Who enters the lock is of the generation there is, and the lock is its own.
LEMMA StartSound ==
    ASSUME StartsTyped, Covered, word \in Words, NEW s \in Starts, StartStep(s)
    PROVE  StartsTyped' /\ Covered'
<1> DEFINE Goal == StartsTyped' /\ Covered'
<1> SUFFICES Goal
  OBVIOUS
<1> USE LossesAreBounded DEF Generations
<1>0. /\ start[s].pc \in StartPcs /\ start[s].gen \in Generations
      /\ NoSession \in StartRecord /\ NoSession.pc = "out"
      /\ \A pc \in StartPcs : /\ [start[s] EXCEPT !.pc = pc] \in StartRecord
                              /\ [start[s] EXCEPT !.pc = pc].pc = pc
                              /\ [start[s] EXCEPT !.pc = pc].gen = start[s].gen
      /\ word.gen \in Generations
      /\ UNCHANGED <<word, swept>>
      /\ None \notin Starts
  BY StartsOnly, NoneIsApart DEF StartsTyped, StartRecord, NoSession, StartPcs, Words
\* A step of a session that neither enters nor passes the lock.
<1>a. ASSUME NEW rec \in StartRecord, start' = [start EXCEPT ![s] = rec],
             rec.pc \notin {"registering", "live"}, start[s].pc # "registering",
             registry' = registry
      PROVE  Goal
  <2>1. /\ start' \in [Starts -> StartRecord] /\ start'[s] = rec
        /\ \A q \in Starts : q # s => start'[q] = start[q]
    BY <1>a, StartTyped
  <2> QED
    BY <1>a, <1>0, <2>1 DEF StartsTyped, Covered
<1>1. CASE Begin(s)
  <2>1. /\ start' = [start EXCEPT ![s] = [pc |-> "starting", gen |-> word.gen]]
        /\ start[s].pc = "out" /\ registry' = registry
    BY <1>1 DEF Begin
  <2>2. [pc |-> "starting", gen |-> word.gen] \in StartRecord
    BY <1>0 DEF StartRecord, StartPcs
  <2> HIDE DEF Goal
  <2> QED
    BY <1>a, <2>1, <2>2
<1>2. CASE LockRegistry(s) /\ Registrable(start[s].gen)
  <2>1. /\ start' = [start EXCEPT ![s].pc = "registering"]
        /\ registry = None /\ registry' = s /\ start[s].gen = word.gen
    BY <1>2 DEF LockRegistry, Registrable
  <2>2. start' = [start EXCEPT ![s] = [start[s] EXCEPT !.pc = "registering"]]
    BY <2>1, Zenon
  <2>3. /\ start' \in [Starts -> StartRecord]
        /\ start'[s] = [start[s] EXCEPT !.pc = "registering"]
        /\ \A q \in Starts : q # s => start'[q] = start[q]
    BY <1>0, <2>2, StartTyped DEF StartPcs
  <2>4. start'[s].pc = "registering" /\ start'[s].gen = word.gen
    BY <1>0, <2>1, <2>3 DEF StartPcs
  <2>5. \A q \in Starts : start[q].pc # "registering"
    BY <1>0, <2>1 DEF Covered
  <2> QED
    BY <1>0, <2>1, <2>3, <2>4, <2>5 DEF StartsTyped, Covered
<1>3. CASE LockRegistry(s) /\ ~Registrable(start[s].gen)
  <2>1. /\ start' = [start EXCEPT ![s] = NoSession]
        /\ start[s].pc = "starting" /\ registry' = registry
    BY <1>3 DEF LockRegistry
  <2> HIDE DEF Goal
  <2> QED
    BY <1>0, <1>a, <2>1
<1>4. CASE Register(s)
  <2>1. /\ start' = [start EXCEPT ![s].pc = "live"]
        /\ start[s].pc = "registering" /\ registry' = None
    BY <1>4 DEF Register
  <2>2. start' = [start EXCEPT ![s] = [start[s] EXCEPT !.pc = "live"]]
    BY <2>1, Zenon
  <2>3. /\ start' \in [Starts -> StartRecord]
        /\ start'[s] = [start[s] EXCEPT !.pc = "live"]
        /\ \A q \in Starts : q # s => start'[q] = start[q]
    BY <1>0, <2>2, StartTyped DEF StartPcs
  <2>4. start'[s].pc = "live" /\ start'[s].gen = start[s].gen
    BY <1>0, <2>3 DEF StartPcs
  <2>5. \A q \in Starts : q # s => start[q].pc # "registering"
    BY <2>1 DEF Covered
  <2> QED
    BY <1>0, <2>1, <2>3, <2>4, <2>5 DEF StartsTyped, Covered
<1>5. CASE EndSession(s) \/ Retire(s)
  <2>1. /\ start' = [start EXCEPT ![s] = NoSession]
        /\ start[s].pc # "registering" /\ registry' = registry
    BY <1>5 DEF EndSession, Retire
  <2> HIDE DEF Goal
  <2> QED
    BY <1>0, <1>a, <2>1
<1> QED
  BY <1>1, <1>2, <1>3, <1>4, <1>5 DEF StartStep, Registering

\* The sweep takes everybody who is through the lock, with nobody inside it.
LEMMA SweepSound ==
    ASSUME StartsTyped, Covered, AuthorityTyped, Published, OwnerTyped, Torn, Resolution
    PROVE  StartsTyped' /\ Covered'
<1>0. UNCHANGED <<word, registry>>
  BY OwnerOnly
<1>1. CASE Sweep
  <2>1. /\ start' = [s \in Starts |->
             IF start[s].pc = "live" THEN [start[s] EXCEPT !.pc = "fenced"] ELSE start[s]]
        /\ swept' = owner.gen /\ registry = None /\ owner.pc = "sweep"
    BY <1>1 DEF Sweep
  <2>2. ASSUME NEW s \in Starts
        PROVE  start'[s] \in StartRecord /\ start'[s].pc \notin {"registering", "live"}
    <3>1. start[s] \in StartRecord
      BY DEF StartsTyped
    <3>2. start[s].pc # "registering"
      BY <2>1, NoneIsApart DEF Covered
    <3>3. /\ [start[s] EXCEPT !.pc = "fenced"] \in StartRecord
          /\ [start[s] EXCEPT !.pc = "fenced"].pc = "fenced"
      BY <3>1 DEF StartRecord, StartPcs
    <3> QED
      BY <2>1, <3>1, <3>2, <3>3
  <2>3. start' \in [Starts -> StartRecord]
    BY <2>1, <2>2
  <2>4. swept' \in Generations /\ swept' <= word.gen
    <3>1. owner.gen \in Generations /\ owner.gen <= watch.gen
      BY <2>1, OwnerFields DEF Torn
    <3>2. watch.gen <= word.gen /\ watch.gen \in Nat /\ word.gen \in Nat /\ owner.gen \in Nat
      BY <3>1, WatchBehind, LossesAreBounded DEF Generations
    <3> QED
      BY <2>1, <3>1, <3>2
  <2> QED
    BY <1>0, <2>2, <2>3, <2>4 DEF StartsTyped, Covered
<1>2. CASE UNCHANGED <<start, swept>>
  BY <1>0, <1>2 DEF StartsTyped, Covered
<1> QED
  BY <1>1, <1>2, OwnerOnly

-----------------------------------------------------------------------------
(* The invariant                                                            *)

IInv ==
    /\ AuthorityTyped /\ Published
    /\ RequestsTyped /\ Glanced /\ CommitUnderAuthority
    /\ OwnerTyped /\ Budgeted /\ Recovered /\ Torn
    /\ StartsTyped /\ Covered

\* The first state.
LEMMA InitSound ==
    ASSUME Init
    PROVE  IInv
<1> USE LossesAreBounded, GraceIsPositive, NoneIsApart DEF Generations
<1>0. 0 \in Generations
  OBVIOUS
<1>1. AuthorityTyped /\ Published
  BY <1>0 DEF Init, AuthorityTyped, Published, Words, Polling
<1>2. RequestsTyped /\ Glanced /\ CommitUnderAuthority
  BY <1>0 DEF Init, RequestsTyped, Glanced, CommitUnderAuthority, Words, NoGlance, NoRequest,
     RequestRecord, RequestPcs
<1>3. OwnerTyped /\ Budgeted
  BY <1>0 DEF Init, OwnerTyped, Budgeted, OwnerPcs, Ticks
<1>4. Recovered /\ Torn
  BY <1>0 DEF Init, Recovered, RecoveryIsReal, Torn, OutageIsTold
<1>5. StartsTyped /\ Covered
  BY <1>0 DEF Init, StartsTyped, Covered, NoSession, StartRecord, StartPcs
<1> QED
  BY <1>1, <1>2, <1>3, <1>4, <1>5 DEF IInv

\* A step of a response: it commits only with the word it has read still there.
LEMMA CommitSound ==
    ASSUME AuthorityTyped, RequestsTyped, Glanced, CommitUnderAuthority,
           NEW r \in Requests, RequestStep(r)
    PROVE  RequestsTyped' /\ Glanced' /\ CommitUnderAuthority'
<1>1. /\ RequestsTyped'
      /\ \A q \in Requests : q # r => request'[q] = request[q] /\ glance'[q] = glance[q]
      /\ RequestMoves(r)
  <2>1. word \in Words
    BY DEF AuthorityTyped
  <2> QED
    BY <2>1, RequestSound
<1>2. word' = word
  BY RequestsOnly
<1>3. ASSUME NEW q \in Requests
      PROVE  /\ ~Observing(q)' => glance'[q].at = "none"
             /\ request'[q].pc = "guarded" /\ glance'[q].at = "word" => glance'[q].word = word
             /\ request'[q].pc = "committing" =>
                  word = [ready |-> TRUE, gen |-> request'[q].gen]
  <2>1. CASE q # r
    BY <1>1, <2>1 DEF Glanced, CommitUnderAuthority, Observing
  <2>2. CASE q = r /\ UNCHANGED request
    BY <1>1, <2>2 DEF RequestMoves, Glanced, CommitUnderAuthority, Observing
  <2>3. CASE q = r /\ ~UNCHANGED request
    <3>1. /\ glance'[r].at = "none"
          /\ request'[r].pc = "committing" =>
               /\ request[r].pc = "guarded" /\ glance[r].at = "word"
               /\ glance[r].word.ready /\ glance[r].word.gen = request'[r].gen
      BY <1>1, <2>3 DEF RequestMoves
    <3>2. request'[r].pc = "committing" => word = [ready |-> TRUE, gen |-> request'[r].gen]
      BY <3>1 DEF Glanced, AuthorityTyped, Words
    <3> QED
      BY <2>3, <3>1, <3>2
  <2> QED
    BY <2>1, <2>2, <2>3
<1> QED
  BY <1>1, <1>2, <1>3 DEF Glanced, CommitUnderAuthority

\* A publication waits for the readers, so no word changes under them.
LEMMA PublisherSound ==
    ASSUME IInv, PublisherStep
    PROVE  IInv'
<1> USE DEF IInv
<1>0. UNCHANGED <<glance, request, start, registry, resolution, owner, grace, swept, dark>>
  BY PublisherOnly
<1>1. AuthorityTyped' /\ Published'
  BY PublicationSound
<1>2. /\ word.gen <= word'.gen /\ watch.gen <= watch'.gen
      /\ \A gen \in Generations : Held(gen) => Held(gen)'
  BY AuthorityGrows
<1>3. word' = word \/ ReadersOut
  BY DEF PublisherStep, Publication, Poll, Store, Send, Unlock, Withdraw
<1>4. RequestsTyped' /\ OwnerTyped' /\ Budgeted'
  BY <1>0 DEF RequestsTyped, OwnerTyped, Budgeted
<1>5. Glanced' /\ CommitUnderAuthority'
  BY <1>0, <1>3 DEF Glanced, CommitUnderAuthority, ReadersOut, Observing
<1>6. Recovered'
  <2>1. resolution.gen \in Generations /\ owner.gen \in Generations
    BY DEF OwnerTyped
  <2> QED
    BY <1>0, <1>2, <2>1 DEF Recovered, RecoveryIsReal, Held
<1>7. /\ watch.gen \in Nat /\ watch'.gen \in Nat /\ word.gen \in Nat /\ word'.gen \in Nat
      /\ swept \in Nat
  BY <1>1, LossesAreBounded DEF AuthorityTyped, Words, Generations, StartsTyped
<1>8. (watch' = watch /\ unseen' = unseen) \/ unseen'
  BY DEF PublisherStep, Publication, Poll, Store, Send, Unlock, Withdraw
<1>9. Torn'
  BY <1>0, <1>2, <1>7, <1>8, OwnerFields DEF Torn, OutageIsTold
<1>10. StartsTyped' /\ Covered'
  BY <1>0, <1>2, <1>7 DEF StartsTyped, Covered
<1> QED
  BY <1>1, <1>4, <1>5, <1>6, <1>9, <1>10

\* Every step keeps the invariant.
LEMMA NextSound ==
    ASSUME IInv, [Next]_vars
    PROVE  IInv'
<1>1. CASE PublisherStep
  BY <1>1, PublisherSound
<1>2. ASSUME NEW r \in Requests, RequestStep(r)
      PROVE  IInv'
  <2>1. UNCHANGED <<word, watch, unseen, publisher, start, registry,
                    resolution, owner, grace, swept, dark>>
    BY <1>2, RequestsOnly
  <2>2. RequestsTyped' /\ Glanced' /\ CommitUnderAuthority'
    BY <1>2, CommitSound DEF IInv
  <2> QED
    BY <2>1, <2>2 DEF IInv, AuthorityTyped, Published, OwnerTyped, Budgeted, Recovered, Held,
       RecoveryIsReal, Torn, OutageIsTold, StartsTyped, Covered
<1>3. ASSUME NEW s \in Starts, StartStep(s)
      PROVE  IInv'
  <2>1. UNCHANGED <<word, watch, unseen, publisher, glance, request,
                    resolution, owner, grace, swept, dark>>
    BY <1>3, StartsOnly
  <2>2. StartsTyped' /\ Covered'
    BY <1>3, StartSound DEF IInv, AuthorityTyped
  <2> QED
    BY <2>1, <2>2 DEF IInv, AuthorityTyped, Published, RequestsTyped, Glanced, Observing,
       CommitUnderAuthority, OwnerTyped, Budgeted, Recovered, Held, RecoveryIsReal, Torn, OutageIsTold
<1>4. CASE Resolution
  <2>1. UNCHANGED <<word, watch, publisher, glance, request, registry>>
    BY <1>4, OwnerOnly
  <2>2. unseen' \in BOOLEAN
    BY <1>4, OwnerOnly DEF IInv, AuthorityTyped
  <2>3. ClocksTyped' /\ Budgeted'
    BY <1>4, BudgetSound DEF IInv
  <2>4. OwnerTyped' /\ Recovered' /\ Torn'
    BY <1>4, <2>3, ControlSound DEF IInv, OwnerTyped, ClocksTyped
  <2>5. StartsTyped' /\ Covered'
    BY <1>4, SweepSound DEF IInv
  <2> QED
    BY <2>1, <2>2, <2>3, <2>4, <2>5 DEF IInv, AuthorityTyped, Published, RequestsTyped, Glanced,
       Observing, CommitUnderAuthority
<1>5. CASE Tick
  <2>1. UNCHANGED <<word, watch, unseen, publisher, glance, request, start,
                    registry, resolution, owner, swept>>
    BY <1>5, TickOnly
  <2>2. ClocksTyped' /\ Budgeted'
    BY <1>5, TickSound DEF IInv
  <2> QED
    BY <2>1, <2>2 DEF IInv, AuthorityTyped, Published, RequestsTyped, Glanced, Observing,
       CommitUnderAuthority, OwnerTyped, ClocksTyped, Recovered, Held, RecoveryIsReal, Torn,
       OutageIsTold, StartsTyped, Covered
<1>6. CASE UNCHANGED vars
  BY <1>6 DEF vars, IInv, AuthorityTyped, Published, RequestsTyped, Glanced, Observing,
     CommitUnderAuthority, OwnerTyped, Budgeted, Recovered, Held, RecoveryIsReal, Torn,
     OutageIsTold, StartsTyped, Covered
<1> QED
  BY <1>1, <1>2, <1>3, <1>4, <1>5, <1>6, StepKinds

\* The invariant of every reachable state.
LEMMA Invariance == Spec => []IInv
BY InitSound, NextSound, PTL DEF Spec

-----------------------------------------------------------------------------
(* What a response waits for                                                *)

\* There is an outage newer than gen: its loss is in the word, or announced.
OutageAfter(gen) ==
    \/ gen < word.gen
    \/ gen = word.gen /\ (LossAnnounced \/ word.gen = 0)

\* What a response has read, and what it was admitted under, was held; and it
\* waits for an outage that is there.
ReadHeld(r) ==
    glance[r].at = "word" =>
        /\ glance[r].word.gen <= word.gen
        /\ glance[r].word.ready => Held(glance[r].word.gen)
GrantedHeld(r) == request[r].pc \in {"admitted", "guarded"} => Held(request[r].gen)
Grounded(r) == Waiting(r) => OutageAfter(request[r].after)
Grounds ==
    /\ publisher.pc \in {"stored", "sent", "unlocked"} => publisher.desired = word.ready
    /\ \A r \in Requests : ReadHeld(r) /\ GrantedHeld(r) /\ Grounded(r)

\* What was held is an outage's baseline once a loss of it is being published.
LEMMA HeldGrounds ==
    ASSUME IInv, Grounds, NEW gen \in Generations, Held(gen), Pending # 0
    PROVE  OutageAfter(gen)
<1>1. publisher.pc \in {"lock", "stored", "sent", "unlocked"} /\ ~publisher.desired
  BY DEF Pending, IInv, AuthorityTyped
<1>2. publisher.pc # "lock" => ~word.ready
  BY <1>1 DEF Grounds
<1> QED
  BY <1>1, <1>2 DEF Held, OutageAfter, LossAnnounced

\* A refusal names a baseline that an outage is newer than.
LEMMA BaselineGrounds ==
    ASSUME IInv, Grounds, NEW r \in Requests, Observed(r), ~Admitted(glance[r])
    PROVE  OutageAfter(OutageBaseline(glance[r]))
<1>1. /\ glance[r].word.gen \in Generations /\ word.gen \in Generations
      /\ glance[r].word.gen <= word.gen
      /\ glance[r].word.ready => Held(glance[r].word.gen)
      /\ glance[r].pending = Pending
  BY DEF Grounds, ReadHeld, Observed, IInv, RequestsTyped, AuthorityTyped, Words
<1>2. CASE glance[r].word.ready
  BY <1>1, <1>2, HeldGrounds DEF Admitted, OutageBaseline
<1>3. CASE ~glance[r].word.ready
  BY <1>1, <1>3, LossesAreBounded DEF OutageBaseline, OutageAfter, Generations
<1> QED
  BY <1>2, <1>3

\* So does a commit's refusal under the guard.
LEMMA GuardGrounds ==
    ASSUME IInv, Grounds, NEW r \in Requests, request[r].pc = "guarded", Observed(r),
           ~IsCurrent(glance[r], request[r].gen)
    PROVE  OutageAfter(request[r].gen)
<1>1. /\ request[r].gen \in Generations /\ Held(request[r].gen)
      /\ glance[r].word = word /\ glance[r].pending = Pending
  BY DEF Grounds, GrantedHeld, Observed, IInv, Glanced, RequestsTyped, RequestRecord
<1>2. CASE Pending = 0
  BY <1>1, <1>2 DEF IsCurrent, Admitted, Held, OutageAfter
<1> QED
  BY <1>1, <1>2, HeldGrounds

\* A publication leaves every outage there, and what was held held.
LEMMA PublisherGrounds ==
    ASSUME IInv, Grounds, PublisherStep
    PROVE  Grounds'
<1>0. UNCHANGED <<glance, request>>
  BY PublisherOnly
<1>1. /\ word.gen \in Nat /\ word'.gen \in Nat /\ word.gen <= word'.gen
      /\ \A gen \in Generations : Held(gen) => Held(gen)'
  <2>1. AuthorityTyped' /\ Published'
    BY PublicationSound DEF IInv
  <2> QED
    BY <2>1, AuthorityGrows, LossesAreBounded DEF IInv, AuthorityTyped, Words, Generations
<1>2. publisher'.pc \in {"stored", "sent", "unlocked"} => publisher'.desired = word'.ready
  <2>1. ASSUME NEW desired \in BOOLEAN, Poll(desired)
        PROVE  publisher'.pc = "lock"
    BY <2>1 DEF Poll
  <2>2. CASE Store
    BY <2>2 DEF Store, Lost, IInv, AuthorityTyped, Words
  <2>3. CASE Send \/ Unlock \/ Withdraw
    BY <2>3 DEF Send, Unlock, Withdraw, Polling, Grounds, IInv, AuthorityTyped
  <2> QED
    BY <2>1, <2>2, <2>3 DEF PublisherStep, Publication
<1>3. LossAnnounced => LossAnnounced' \/ word'.gen = word.gen + 1
  BY DEF PublisherStep, Publication, Poll, Store, Send, Unlock, Withdraw, LossAnnounced, Lost,
     IInv, AuthorityTyped, Words
<1>4. \A gen \in Generations : OutageAfter(gen) => OutageAfter(gen)'
  BY <1>1, <1>3, LossesAreBounded DEF OutageAfter, Generations
<1>5. ASSUME NEW r \in Requests
      PROVE  ReadHeld(r)' /\ GrantedHeld(r)' /\ Grounded(r)'
  <2>1. /\ glance[r].word.gen \in Generations /\ request[r].gen \in Generations
        /\ request[r].after \in Generations
    BY DEF IInv, RequestsTyped, RequestRecord, Words
  <2>2. ReadHeld(r)'
    BY <1>0, <1>1, <2>1, LossesAreBounded DEF Grounds, ReadHeld, Generations
  <2>3. GrantedHeld(r)'
    BY <1>0, <1>1, <2>1 DEF Grounds, GrantedHeld
  <2>4. Grounded(r)'
    BY <1>0, <1>4, <2>1 DEF Grounds, Grounded, Waiting
  <2> QED
    BY <2>2, <2>3, <2>4
<1> QED
  BY <1>2, <1>5 DEF Grounds

\* A response is admitted under what it reads, and waits after what it reads.
LEMMA RequestGrounds ==
    ASSUME IInv, Grounds, NEW r \in Requests, RequestStep(r)
    PROVE  Grounds'
<1>0. /\ UNCHANGED <<word, publisher>>
      /\ \A gen : (Held(gen)' <=> Held(gen)) /\ (OutageAfter(gen)' <=> OutageAfter(gen))
  BY RequestsOnly DEF Held, OutageAfter, LossAnnounced
<1>1. /\ \A q \in Requests : q # r => request'[q] = request[q] /\ glance'[q] = glance[q]
      /\ RequestMoves(r)
  BY RequestSound DEF IInv, AuthorityTyped
<1>2. /\ request[r] \in RequestRecord /\ DOMAIN request = Requests
      /\ word \in Words /\ word.gen \in Nat
  BY LossesAreBounded DEF IInv, RequestsTyped, AuthorityTyped, Words, Generations
<1>3. ReadHeld(r)'
  BY <1>0, <1>1, <1>2 DEF RequestMoves, ReadHeld, Held
\* The step makes rec of the response.
<1>a. ASSUME NEW rec, request' = [request EXCEPT ![r] = rec],
             rec.pc \in {"admitted", "guarded"} => Held(rec.gen),
             rec.pc \in {"held", "recovering"} => OutageAfter(rec.after)
      PROVE  GrantedHeld(r)' /\ Grounded(r)'
  BY <1>0, <1>2, <1>a DEF GrantedHeld, Grounded, Waiting
<1>b. NoRequest.pc = "out" /\ [NoRequest EXCEPT !.pc = "admitting"].pc = "admitting"
      /\ [NoRequest EXCEPT !.pc = "gate"].pc = "gate"
  BY DEF NoRequest
<1>4. GrantedHeld(r)' /\ Grounded(r)'
  <2>1. CASE UNCHANGED request
    BY <1>0, <2>1 DEF Grounds, GrantedHeld, Grounded, Waiting
  <2>2. CASE Arrive(r)
    <3>1. PICK pc \in {"arriving", "gate"} : request' = [request EXCEPT ![r] = [request[r] EXCEPT !.pc = pc]]
      BY <2>2, Zenon DEF Arrive
    <3>2. [request[r] EXCEPT !.pc = pc].pc = pc
      BY <1>2 DEF RequestRecord
    <3> QED
      BY <1>a, <3>1, <3>2
  <2>3. CASE Look(r)
    <3> DEFINE held == request[r].pc = "arriving"
               yes == [request[r] EXCEPT !.pc = IF held THEN "gate" ELSE "admitting",
                                         !.after = 0, !.retried = ~held]
               no == [request[r] EXCEPT !.pc = IF held THEN "held" ELSE "recovering",
                                        !.after = OutageBaseline(glance[r])]
    <3>1. request' = [request EXCEPT ![r] = IF Admitted(glance[r]) THEN yes ELSE no]
      BY <2>3 DEF Look
    <3>2. yes.pc \in {"gate", "admitting"}
      BY <1>2 DEF RequestRecord
    <3>3. no.pc \in {"held", "recovering"} /\ no.after = OutageBaseline(glance[r])
      BY <1>2 DEF RequestRecord
    <3>4. ~Admitted(glance[r]) => OutageAfter(OutageBaseline(glance[r]))
      BY <2>3, BaselineGrounds DEF Look
    <3> HIDE DEF held, yes, no
    <3>5. CASE Admitted(glance[r])
      BY <1>a, <3>1, <3>2, <3>5
    <3>6. CASE ~Admitted(glance[r])
      BY <1>a, <3>1, <3>3, <3>4, <3>6
    <3> QED
      BY <3>5, <3>6
  <2>4. CASE Gate(r) \/ Commit(r)
    <3>1. PICK rec \in {[NoRequest EXCEPT !.pc = "admitting"], NoRequest} :
              request' = [request EXCEPT ![r] = rec]
      BY <2>4 DEF Gate, Commit
    <3> QED
      BY <1>a, <1>b, <3>1
  \* Refused at gen: away, or waiting after gen.
  <2>a. ASSUME NEW gen, OutageAfter(gen)
        PROVE  LET rec == Refused(request[r], gen)
               IN  /\ rec.pc \in {"out", "recovering"}
                   /\ rec.pc = "recovering" => OutageAfter(rec.after)
    BY <1>2, <1>b, <2>a DEF Refused, RequestRecord
  <2>5. CASE Admit(r)
    <3> DEFINE yes == [request[r] EXCEPT !.pc = "admitted", !.gen = glance[r].word.gen]
               no == Refused(request[r], OutageBaseline(glance[r]))
    <3>1. request' = [request EXCEPT ![r] = IF Admitted(glance[r]) THEN yes ELSE no]
      BY <2>5 DEF Admit
    <3>2. yes.pc = "admitted" /\ yes.gen = glance[r].word.gen
      BY <1>2 DEF RequestRecord
    <3>3. Admitted(glance[r]) => Held(glance[r].word.gen)
      BY <2>5 DEF Admit, Observed, Admitted, Grounds, ReadHeld
    <3>4. ~Admitted(glance[r]) => /\ no.pc \in {"out", "recovering"}
                                  /\ no.pc = "recovering" => OutageAfter(no.after)
      BY <2>5, <2>a, BaselineGrounds DEF Admit
    <3> HIDE DEF yes, no
    <3>5. CASE Admitted(glance[r])
      BY <1>a, <3>1, <3>2, <3>3, <3>5
    <3>6. CASE ~Admitted(glance[r])
      BY <1>a, <3>1, <3>4, <3>6
    <3> QED
      BY <3>5, <3>6
  <2>6. CASE TakeGuard(r)
    <3>1. request' = [request EXCEPT ![r] = [request[r] EXCEPT !.pc = "guarded"]]
      BY <2>6, Zenon DEF TakeGuard
    <3>2. [request[r] EXCEPT !.pc = "guarded"].pc = "guarded"
          /\ [request[r] EXCEPT !.pc = "guarded"].gen = request[r].gen
      BY <1>2 DEF RequestRecord
    <3>3. Held(request[r].gen)
      BY <2>6 DEF TakeGuard, Grounds, GrantedHeld
    <3> QED
      BY <1>a, <3>1, <3>2, <3>3
  <2>7. CASE CheckGuard(r)
    <3> DEFINE yes == [request[r] EXCEPT !.pc = "committing"]
               no == Refused(request[r], request[r].gen)
    <3>1. request' = [request EXCEPT ![r] = IF IsCurrent(glance[r], request[r].gen) THEN yes ELSE no]
      BY <2>7 DEF CheckGuard
    <3>2. yes.pc = "committing"
      BY <1>2 DEF RequestRecord
    <3>3. ~IsCurrent(glance[r], request[r].gen) =>
            /\ no.pc \in {"out", "recovering"}
            /\ no.pc = "recovering" => OutageAfter(no.after)
      BY <2>7, <2>a, GuardGrounds DEF CheckGuard
    <3> HIDE DEF yes, no
    <3>4. CASE IsCurrent(glance[r], request[r].gen)
      BY <1>a, <3>1, <3>2, <3>4
    <3>5. CASE ~IsCurrent(glance[r], request[r].gen)
      BY <1>a, <3>1, <3>3, <3>5
    <3> QED
      BY <3>4, <3>5
  <2>8. CASE Answer(r) \/ TimeOut(r)
    <3> DEFINE rec == [request[r] EXCEPT !.pc = IF request[r].pc = "held" THEN "arriving" ELSE "again",
                                         !.after = 0]
    <3>1. \/ request' = [request EXCEPT ![r] = Released(r)]
          \/ request' = [request EXCEPT ![r] = rec]
      BY <2>8 DEF Answer, TimeOut
    <3>2. rec.pc \in {"arriving", "again"}
      BY <1>2 DEF RequestRecord
    <3>3. Released(r).pc \in {"out", "gate"}
      BY <1>b DEF Released
    <3> HIDE DEF rec
    <3> QED
      BY <1>a, <3>1, <3>2, <3>3
  <2> QED
    BY <2>1, <2>2, <2>3, <2>4, <2>5, <2>6, <2>7, <2>8
       DEF RequestStep, Deciding, Observation, ReadCount, ReadWord, ReadAgain
<1>5. ASSUME NEW q \in Requests, q # r
      PROVE  ReadHeld(q)' /\ GrantedHeld(q)' /\ Grounded(q)'
  BY <1>0, <1>1, <1>5 DEF Grounds, ReadHeld, GrantedHeld, Grounded, Waiting
<1> QED
  BY <1>0, <1>3, <1>4, <1>5 DEF Grounds

LEMMA GroundsInductive == IInv /\ Grounds /\ [Next]_vars => Grounds'
<1> SUFFICES ASSUME IInv, Grounds, [Next]_vars
             PROVE  Grounds'
  OBVIOUS
<1>1. ASSUME UNCHANGED <<word, publisher, glance, request>>
      PROVE  Grounds'
  BY <1>1 DEF Grounds, ReadHeld, GrantedHeld, Grounded, Waiting, Held, OutageAfter, LossAnnounced
<1>2. CASE Resolution \/ Tick \/ UNCHANGED vars
  BY <1>1, <1>2, OwnerOnly, TickOnly DEF vars
<1>3. ASSUME NEW s \in Starts, StartStep(s)
      PROVE  Grounds'
  BY <1>1, <1>3, StartsOnly
<1> QED
  BY <1>2, <1>3, StepKinds, PublisherGrounds, RequestGrounds

LEMMA GroundsInvariance == Spec => [](IInv /\ Grounds)
<1>1. Init => Grounds
  BY DEF Init, Grounds, ReadHeld, GrantedHeld, Grounded, Waiting, NoGlance, NoRequest, Polling
<1> QED
  BY <1>1, InitSound, NextSound, GroundsInductive, PTL DEF Spec

-----------------------------------------------------------------------------
(* The theorems                                                             *)

\* Every state is well typed: the baseline of a waiter is a generation, and no
\* budget passes the grace.
THEOREM TypeCorrect == Spec => []TypeOK
<1>1. IInv => TypeOK
  BY DEF IInv, TypeOK, AuthorityTyped, RequestsTyped, RequestRecord, OwnerTyped, StartsTyped,
     StartRecord
<1> QED
  BY <1>1, Invariance, PTL

\* And whoever waits for the end of an outage waits for one that is there, so a
\* refusal never names a generation nothing will be newer than (observe,
\* admit_or_outage_baseline).
THEOREM WaitersAreGrounded == Spec => []WellFormed
<1>1. IInv /\ Grounds => WaitsAreForOutages
  BY DEF Grounds, Grounded, OutageAfter, WaitsAreForOutages
<1> QED
  BY <1>1, GroundsInvariance, TypeCorrect, PTL DEF WellFormed

\* No commit straddles a loss (commit_guard_before).
THEOREM CommitsHoldAuthority == Spec => []CommitUnderAuthority
<1>1. IInv => CommitUnderAuthority
  BY DEF IInv
<1> QED
  BY <1>1, Invariance, PTL

\* No recovery is told that did not take place (serving_fence_loop).
THEOREM RecoveriesAreReal == Spec => []RecoveryIsReal
<1>1. IInv => RecoveryIsReal
  BY DEF IInv, Recovered
<1> QED
  BY <1>1, Invariance, PTL

\* A flapping quorum gets one grace altogether (SessionGrace).
THEOREM FlappingGetsOneGrace == Spec => []FlappingIsBounded
<1>1. IInv => FlappingIsBounded
  BY OwnerFields DEF IInv, Budgeted, FlappingIsBounded, Ticks
<1> QED
  BY <1>1, Invariance, PTL

\* No registration slips past a teardown (register_session, the sweep).
THEOREM TeardownsAreComplete == Spec => []TeardownIsComplete
<1>1. IInv => TeardownIsComplete
  BY LossesAreBounded DEF IInv, Covered, StartsTyped, StartRecord, Generations, TeardownIsComplete
<1> QED
  BY <1>1, Invariance, PTL

\* A fenced node whose owner sleeps has called the outage expired.
THEOREM OutagesAreTold == Spec => []OutageIsTold
<1>1. IInv => OutageIsTold
  BY DEF IInv, Torn
<1> QED
  BY <1>1, Invariance, PTL

-----------------------------------------------------------------------------
(* Survivors                                                                *)

\* serving_fence_loop, torn down and still fenced, calls expired a loss it has torn
\* nothing down for, with a session there, or inside the registry's lock, that was
\* admitted before it.
LeavesSurvivor ==
    /\ StayTorn
    /\ watch.gen # owner.torn
    /\ \E s \in Starts : start[s].pc \in {"registering", "live"} /\ start[s].gen < watch.gen

\* Nobody inside the registry's lock, or through it, is older than what was torn down.
NoneLeft ==
    /\ owner.torn # None =>
         \A s \in Starts : start[s].pc \in {"registering", "live"} => owner.torn <= start[s].gen
    /\ owner.pc = "stopping" => owner.gen = swept

\* What the figures are compared by.
LEMMA Generational ==
    ASSUME IInv
    PROVE  /\ Generations \subseteq Nat /\ None \notin Nat
           /\ word.gen \in Nat /\ watch.gen \in Nat /\ watch.gen <= word.gen
           /\ swept \in Nat /\ owner.gen \in Nat /\ owner.torn \in Nat \cup {None}
           /\ owner.torn # None => owner.torn <= watch.gen
           /\ \A s \in Starts : start[s].gen \in Nat
<1>1. Generations \subseteq Nat /\ None \notin Nat
  BY LossesAreBounded, NoneIsApart DEF Generations
<1>2. watch.gen \in Generations /\ word.gen \in Generations /\ watch.gen <= word.gen
  BY WatchBehind DEF IInv
<1>3. \A s \in Starts : start[s].gen \in Generations
  BY DEF IInv, StartsTyped, StartRecord
<1> QED
  BY <1>1, <1>2, <1>3, OwnerFields DEF IInv, Torn, StartsTyped

\* A session that enters the lock is of the generation there is, which is no older
\* than what the owner has torn down.
LEMMA NewcomersAreNew ==
    ASSUME IInv, NoneLeft, NEW s \in Starts, StartStep(s)
    PROVE  NoneLeft'
<1>1. owner' = owner /\ swept' = swept
  BY StartsOnly
<1>2. ASSUME NEW q \in Starts, start'[q].pc \in {"registering", "live"}
      PROVE  \/ start[q].pc \in {"registering", "live"} /\ start'[q].gen = start[q].gen
             \/ start'[q].gen = word.gen
  <2>1. start \in [Starts -> StartRecord]
    BY DEF IInv, StartsTyped
  <2>2. CASE q # s
    BY <1>2, <2>1, <2>2 DEF StartStep, Begin, Registering, LockRegistry, Register, EndSession, Retire
  <2>3. CASE q = s
    BY <1>2, <2>1, <2>3 DEF StartStep, Begin, Registering, LockRegistry, Registrable, Register,
       EndSession, Retire, NoSession, StartRecord
  <2> QED
    BY <2>2, <2>3
<1> QED
  BY <1>1, <1>2, Generational DEF NoneLeft

\* The teardown sets what is torn down once everybody older is fenced.
LEMMA OwnerLeavesNone ==
    ASSUME IInv, NoneLeft, Resolution, ~LeavesSurvivor
    PROVE  NoneLeft'
<1>1. CASE StayTorn
  <2>1. /\ owner' = [owner EXCEPT !.pc = "idle", !.torn = watch.gen, !.known = watch.gen]
        /\ UNCHANGED <<start, swept>>
    BY <1>1 DEF StayTorn
  <2>2. owner'.torn = watch.gen /\ owner'.pc = "idle"
    BY <2>1 DEF IInv, OwnerTyped
  <2>3. \A s \in Starts : start[s].pc \in {"registering", "live"} => watch.gen <= start[s].gen
    BY <1>1, Generational DEF LeavesSurvivor, NoneLeft
  <2> QED
    BY <2>1, <2>2, <2>3 DEF NoneLeft
<1>2. CASE Sweep
  <2>1. /\ start' = [s \in Starts |->
             IF start[s].pc = "live" THEN [start[s] EXCEPT !.pc = "fenced"] ELSE start[s]]
        /\ swept' = owner.gen /\ registry = None /\ owner' = [owner EXCEPT !.pc = "stopping"]
    BY <1>2 DEF Sweep, Owner
  <2>2. owner'.gen = owner.gen
    BY <2>1 DEF IInv, OwnerTyped
  <2>3. ASSUME NEW s \in Starts
        PROVE  start'[s].pc \notin {"registering", "live"}
    <3>1. start[s] \in StartRecord /\ start[s].pc # "registering"
      BY <2>1, NoneIsApart DEF IInv, StartsTyped, Covered
    <3> QED
      BY <2>1, <3>1 DEF StartRecord
  <2> QED
    BY <2>1, <2>2, <2>3 DEF NoneLeft
<1>3. CASE Stopped
  <2>1. /\ owner.pc = "stopping" /\ UNCHANGED <<start, swept>>
        /\ owner' = [owner EXCEPT !.pc = "bottom", !.gen = 0, !.torn = owner.gen]
    BY <1>3 DEF Stopped
  <2>2. owner'.torn = owner.gen /\ owner'.pc = "bottom"
    BY <2>1 DEF IInv, OwnerTyped
  <2> QED
    BY <2>1, <2>2 DEF NoneLeft, IInv, Covered
<1>4. ASSUME UNCHANGED <<start, swept>>, owner'.torn \in {owner.torn, None},
             owner'.pc # "stopping"
      PROVE  NoneLeft'
  BY <1>4 DEF NoneLeft
<1>5. owner = [pc |-> owner.pc, gen |-> owner.gen, torn |-> owner.torn, known |-> owner.known]
  BY OwnerFields DEF IInv
<1>6. CASE NoticeLoss \/ NoLoss
  BY <1>4, <1>5, <1>6 DEF NoticeLoss, NoLoss, Owner
<1>7. CASE Resolve \/ Expire
  BY <1>4, <1>5, <1>7 DEF Resolve, Recover, Expire, Owner
<1>8. CASE TellRecovered \/ CountKept \/ TellExpired
  BY <1>4, <1>5, <1>8 DEF TellRecovered, CountKept, TellExpired, Owner
<1>9. CASE Rearm \/ Wake
  BY <1>4, <1>5, <1>9 DEF Rearm, Wake, Owner
<1> QED
  BY <1>1, <1>2, <1>3, <1>6, <1>7, <1>8, <1>9 DEF Resolution

LEMMA NoneLeftKept ==
    IInv /\ NoneLeft /\ [Next]_vars /\ [~LeavesSurvivor]_vars => NoneLeft'
<1> SUFFICES ASSUME IInv, NoneLeft, [Next]_vars, [~LeavesSurvivor]_vars
             PROVE  NoneLeft'
  OBVIOUS
<1>1. CASE UNCHANGED <<start, owner, swept>>
  BY <1>1 DEF NoneLeft
<1>2. CASE PublisherStep \/ Tick \/ \E r \in Requests : RequestStep(r)
  BY <1>1, <1>2, PublisherOnly, TickOnly, RequestsOnly
<1>3. CASE \E s \in Starts : StartStep(s)
  BY <1>3, NewcomersAreNew
<1>4. CASE UNCHANGED vars
  BY <1>1, <1>4 DEF vars
<1>5. CASE Resolution /\ ~LeavesSurvivor
  BY <1>5, OwnerLeavesNone
<1> QED
  BY <1>2, <1>3, <1>4, <1>5, StepKinds

\* The finding is the only way for a session to survive an outage that is called
\* expired: in a behaviour in which the torn-down branch of serving_fence_loop does not
\* call a loss expired over the head of an older session, there is none (NoSurvivor),
\* whatever registrations, recoveries and further losses meet a teardown.
THEOREM OnlyReannouncementsSpare ==
    Spec /\ [][~LeavesSurvivor]_vars => []NoSurvivor
<1>1. Init => NoneLeft
  BY DEF Init, NoneLeft
<1>2. IInv /\ NoneLeft => NoSurvivor
  BY Generational DEF NoneLeft, NoSurvivor
<1> QED
  BY <1>1, <1>2, NoneLeftKept, Invariance, PTL DEF Spec
====
