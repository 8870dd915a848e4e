-------------------------- MODULE LibraryDriverProofs --------------------------
(***************************************************************************)
(* A pass goes from station to station: at each, the lifecycle, the        *)
(* requests that follow and what the environment holds determine each      *)
(* other.  From that, for any delays and any clock: no request of a pass   *)
(* finds less than it takes, custody is nested and what the queue is told  *)
(* is true, wherever the task is aborted and whatever is lost.             *)
(***************************************************************************)
EXTENDS LibraryDriver, TLAPS

\* Where the driver is in its script.
Script(c, p, rest) == controller = c /\ pending = p /\ remaining = rest

\* What the environment and the call in progress hold, beside the driver's account.
Has(s, c, f, h) == slot = s /\ carried = c /\ future = f /\ held = h

Claimed ==
    /\ Script(In("Claimed", "-"), "AcquireDomain", <<>>)
    /\ Has({"admission", "active"}, {}, "none", {"admission", "queue"})

DomainHeld ==
    /\ Script(In("DomainAcquired", "-"), "Bind", <<>>)
    /\ Has({"admission", "active", "lease"}, {}, "none", {"admission", "queue", "domain"})

All == {"admission", "queue", "domain", "publisher"}

Unstarted ==
    /\ Script(In("Bound", "-"), "PollWork", <<>>)
    /\ Has({"admission", "active", "lease", "publisher"}, {}, "none", All)

Working ==
    /\ Script(In("Bound", "-"), "PollWork", <<>>)
    /\ Has({"admission", "active", "lease", "work"}, {}, "running", All)

Finished ==
    /\ Script(In("Processing", "Completed"), "JoinWork", <<>>)
    /\ Has({"admission", "active", "lease", "work", "completed"}, {}, "ended", All)
    /\ result \in {"ok", "failed"} /\ interrupt = "Completed"

\* The work is interrupted for the reason i: fenced off, cancelled, then awaited.
Interrupted(i) ==
    /\ i \in {"QueueLoss", "DomainLoss", "Pressure"}
    /\ i = "QueueLoss" => "queueLost" \in fired
    /\ interrupt = i
    /\ \/ /\ Script(In("Processing", i), "RevokeDomain", <<"CancelWork", "JoinWork">>)
          /\ Has({"admission", "active", "lease", "work"}, {}, "running", All)
       \/ /\ Script(In("Processing", i), "CancelWork", <<"JoinWork">>)
          /\ Has({"admission", "active", "lease", "work"}, {}, "running", All)
          /\ "revoked" \in fired
       \/ /\ Script(In("Processing", i), "JoinWork", <<>>)
          /\ Has({"admission", "active", "lease", "work"}, {}, "running", All)
          /\ {"revoked", "cancelled"} \subseteq fired
       \/ /\ Script(In("Processing", i), "JoinWork", <<>>)
          /\ Has({"admission", "active", "lease"}, {"work"}, "running", All)
          /\ {"revoked", "cancelled"} \subseteq fired

\* A failure that may be charged: the work's own, or one that will not be settled
\* because the claim is lost.
Chargeable == result = "failed" /\ (interrupt = "Completed" \/ "queueLost" \in fired)

\* The domain is given back, and the claim is to be settled as k.
Releasing(k) ==
    /\ k \in SettlementKind
    /\ k = "Retry" => Chargeable
    /\ \E f \in {"none", "ended"} :
         \/ /\ Script(In("Releasing", k), "DropPublisher", <<"ReleaseDomain">>)
            /\ Has({"admission", "active", "lease", "publisher"}, {}, f, All)
         \/ /\ Script(In("Releasing", k), "ReleaseDomain", <<>>)
            /\ Has({"admission", "active", "lease"}, {}, f, {"admission", "queue", "domain"})
         \/ /\ Script(In("Releasing", k), "ReleaseDomain", <<>>)
            /\ Has({"admission", "active"}, {"lease"}, f, {"admission", "queue", "domain"})

\* The claim is settled and everything given back.
Over ==
    \E f \in {"none", "ended"} :
       \/ /\ Script(In("Terminal", "-"), "Settle", <<"RetireQueue", "DropAdmission">>)
          /\ Has({"admission", "active"}, {}, f, {"admission", "queue"})
          /\ settlement # NoSettlement
       \/ /\ Script(In("Terminal", "-"), "RetireQueue", <<"DropAdmission">>)
          /\ Has({"admission", "active"}, {}, f, {"admission", "queue"})
       \/ /\ Script(In("Terminal", "-"), "RetireQueue", <<"DropAdmission">>)
          /\ Has({"admission"}, {"active"}, f, {"admission", "queue"})
       \/ /\ Script(In("Terminal", "-"), "DropAdmission", <<>>)
          /\ Has({"admission"}, {}, f, {"admission"})
       \/ /\ Script(In("Terminal", "-"), "none", <<>>)
          /\ Has({}, {}, f, {})

Station ==
    \/ Claimed \/ DomainHeld \/ Unstarted \/ Working \/ Finished
    \/ \E i \in Interrupts : Interrupted(i)
    \/ \E k \in SettlementKind : Releasing(k)
    \/ Over

\* What is left of the environment of a task that is being dropped.
Falling ==
    /\ carried = {}
    /\ future = "running" => "work" \in slot
    /\ slot \cap {"work", "completed", "publisher"} # {} => "lease" \in slot
    /\ "lease" \in slot => {"admission", "active"} \subseteq slot

\* What the queue may be told, and has been.
Truthful ==
    /\ controller.at # "Terminal" => settlement = NoSettlement
    /\ settlement # NoSettlement =>
          /\ "lease" \notin slot \cup carried
          /\ settlement.notBefore > domainBackAt \/ settlement.notBefore = MaxMs
    /\ settlement.kind = "Retry" => Chargeable
    /\ sent \in {NoSettlement, settlement}
    /\ sent.kind = "Retry" => interrupt = "Completed"

IInv ==
    /\ TypeOK
    /\ life = "driving" => Station
    /\ life # "driving" => Falling
    /\ Truthful

-----------------------------------------------------------------------------
(* The lifecycle and the driver.                                           *)

LEMMA Constants ==
    /\ MaxMs \in Nat /\ MaxTime \in Nat /\ MaxTime <= MaxMs
    /\ RefusedDelay \in Nat /\ RefusedDelay > 0
    /\ InterruptedDelay \in Nat /\ InterruptedDelay > 0
    /\ \A d \in RetryDelay : d \in Nat /\ d > 0
BY ConstantAssumption

LEMMA EmitForms ==
    /\ Emit(<<>>) => pending' = "none" /\ remaining' = <<>>
    /\ \A a : Emit(<<a>>) => pending' = a /\ remaining' = <<>>
    /\ \A a, b : Emit(<<a, b>>) => pending' = a /\ remaining' = <<b>>
    /\ \A a, b, c : Emit(<<a, b, c>>) => pending' = a /\ remaining' = <<b, c>>
BY DEF Emit

LEMMA EndingForms ==
    ASSUME NEW s, NEW o \in Ending(s)
    PROVE  /\ o.next = In("Terminal", "-") /\ o.settlement = s
           /\ s = NoSettlement => o.effects = <<"RetireQueue", "DropAdmission">>
           /\ s # NoSettlement => o.effects = <<"Settle", "RetireQueue", "DropAdmission">>
BY DEF Ending, Outcome, Cleanup

\* A settlement names a time after now, or the last there is.
LEMMA SettlementForms ==
    ASSUME now \in 0 .. MaxTime, NEW d \in Nat, d > 0
    PROVE  /\ \A s \in {Yield(d), Retry(d)} :
                /\ s \in SettlementType /\ s # NoSettlement
                /\ s.notBefore > now \/ s.notBefore = MaxMs
           /\ Yield(d).kind = "Yield" /\ Retry(d).kind = "Retry"
<1>1. /\ SaturatingAdd(now, d) \in 0 .. MaxMs
      /\ SaturatingAdd(now, d) > now \/ SaturatingAdd(now, d) = MaxMs
  BY Constants DEF SaturatingAdd
<1> QED BY <1>1 DEF Yield, Retry, NoSettlement, SettlementType

LEMMA ScriptSteps ==
    ASSUME NEW ok \in BOOLEAN
    PROVE
      /\ controller = In("Claimed", "-") =>
           Step([is |-> "DomainOutcome", ok |-> ok]) =
             IF ok THEN Outcome(In("DomainAcquired", "-"), <<"Bind">>, NoSettlement)
                   ELSE Ending(Yield(RefusedDelay))
      /\ controller = In("DomainAcquired", "-") =>
           Step([is |-> "BindOutcome", ok |-> ok]) =
             IF ok THEN Outcome(In("Bound", "-"), <<"PollWork">>, NoSettlement)
                   ELSE Outcome(In("Releasing", "Refused"), ReleaseEffects, NoSettlement)
      /\ \A why : controller = In("Bound", "-") =>
           Step([is |-> "Interrupt", why |-> why]) =
             Outcome(In("Processing", why), Effects(why), NoSettlement)
      /\ \A why : controller = In("Processing", why) =>
           Step([is |-> "WorkJoined", ok |-> ok]) =
             Outcome(In("Releasing", SettlementOf(why, ok)), ReleaseEffects, NoSettlement)
      /\ controller = In("Releasing", "Refused") =>
           Step([is |-> "DomainReleased"]) = Ending(Yield(RefusedDelay))
      /\ controller = In("Releasing", "Interrupted") =>
           Step([is |-> "DomainReleased"]) = Ending(Yield(InterruptedDelay))
      /\ controller = In("Releasing", "Retry") =>
           Step([is |-> "DomainReleased"]) = UNION {Ending(Retry(d)) : d \in RetryDelay}
      /\ controller = In("Releasing", "None") =>
           Step([is |-> "DomainReleased"]) = Ending(NoSettlement)
<1>1. controller = In("Claimed", "-") => controller.at = "Claimed"
  BY DEF In
<1>2. controller = In("DomainAcquired", "-") => controller.at = "DomainAcquired"
  BY DEF In
<1>3. controller = In("Bound", "-") => controller.at = "Bound"
  BY DEF In
<1>4. \A why : controller = In("Processing", why) =>
        controller.at = "Processing" /\ controller.why = why
  BY DEF In
<1>5. \A k : controller = In("Releasing", k) => controller.at = "Releasing" /\ controller.why = k
  BY DEF In
<1> HIDE DEF In
<1>6. controller = In("Claimed", "-") =>
           Step([is |-> "DomainOutcome", ok |-> ok]) =
             IF ok THEN Outcome(In("DomainAcquired", "-"), <<"Bind">>, NoSettlement)
                   ELSE Ending(Yield(RefusedDelay))
  BY <1>1 DEF Step
<1>7. controller = In("DomainAcquired", "-") =>
           Step([is |-> "BindOutcome", ok |-> ok]) =
             IF ok THEN Outcome(In("Bound", "-"), <<"PollWork">>, NoSettlement)
                   ELSE Outcome(In("Releasing", "Refused"), ReleaseEffects, NoSettlement)
  BY <1>2 DEF Step
<1>8. \A why : controller = In("Bound", "-") =>
           Step([is |-> "Interrupt", why |-> why]) =
             Outcome(In("Processing", why), Effects(why), NoSettlement)
  BY <1>3 DEF Step
<1>9. \A why : controller = In("Processing", why) =>
           Step([is |-> "WorkJoined", ok |-> ok]) =
             Outcome(In("Releasing", SettlementOf(why, ok)), ReleaseEffects, NoSettlement)
  BY <1>4 DEF Step
<1>10. controller = In("Releasing", "Refused") =>
         Step([is |-> "DomainReleased"]) = Ending(Yield(RefusedDelay))
  BY <1>5 DEF Step
<1>11. controller = In("Releasing", "Interrupted") =>
         Step([is |-> "DomainReleased"]) = Ending(Yield(InterruptedDelay))
  BY <1>5 DEF Step
<1>12. controller = In("Releasing", "Retry") =>
         Step([is |-> "DomainReleased"]) = UNION {Ending(Retry(d)) : d \in RetryDelay}
  BY <1>5 DEF Step
<1>13. controller = In("Releasing", "None") =>
         Step([is |-> "DomainReleased"]) = Ending(NoSettlement)
  BY <1>5 DEF Step
<1> QED BY <1>6, <1>7, <1>8, <1>9, <1>10, <1>11, <1>12, <1>13

LEMMA InForms == \A at, why : In(at, why).at = at /\ In(at, why).why = why
BY DEF In

\* A reply that goes on with the pass.
LEMMA Installed ==
    ASSUME NEW e, NEW joined, Install(e, joined), NEW c, NEW effects,
           Step(e) = Outcome(c, effects, NoSettlement)
    PROVE  /\ controller' = c /\ settlement' = NoSettlement /\ Emit(effects)
           /\ work' \in {"Running", joined}
BY DEF Install, Outcome

\* A reply that ends it, with a settlement out of S.
LEMMA Ended ==
    ASSUME NEW e, NEW joined, NEW S, Install(e, joined),
           \A o \in Step(e) : \E s \in S : o \in Ending(s)
    PROVE  /\ settlement' \in S /\ work' \in {"Running", joined}
           /\ \/ /\ settlement' # NoSettlement
                 /\ controller' = In("Terminal", "-") /\ pending' = "Settle"
                 /\ remaining' = <<"RetireQueue", "DropAdmission">>
              \/ /\ settlement' = NoSettlement
                 /\ controller' = In("Terminal", "-") /\ pending' = "RetireQueue"
                 /\ remaining' = <<"DropAdmission">>
<1>1. PICK o \in Step(e) :
        /\ controller' = o.next /\ settlement' = o.settlement /\ Emit(o.effects)
        /\ work' \in {"Running", joined}
  BY DEF Install
<1>2. PICK s \in S : o \in Ending(s)
  BY <1>1
<1>3. /\ o.next = In("Terminal", "-") /\ o.settlement = s
      /\ s = NoSettlement => o.effects = <<"RetireQueue", "DropAdmission">>
      /\ s # NoSettlement => o.effects = <<"Settle", "RetireQueue", "DropAdmission">>
  BY <1>2, EndingForms
<1>4. CASE s = NoSettlement
  <2>1. Emit(<<"RetireQueue", "DropAdmission">>)
    BY <1>1, <1>3, <1>4
  <2> QED BY <1>1, <1>2, <1>3, <1>4, <2>1, EmitForms
<1>5. CASE s # NoSettlement
  <2>1. Emit(<<"Settle", "RetireQueue", "DropAdmission">>)
    BY <1>1, <1>3, <1>5
  <2> QED BY <1>1, <1>2, <1>3, <1>5, <2>1, EmitForms
<1> QED BY <1>4, <1>5

\* The types a station does not fix.
Loose ==
    /\ work \in {"Idle", "Running", "Completed", "Joined"}
    /\ settlement \in SettlementType /\ sent \in SettlementType
    /\ result \in {"none", "ok", "failed"}
    /\ fired \subseteq {"queueLost", "domainLost", "cancelled", "revoked", "preempted"}
    /\ now \in 0 .. MaxTime /\ domainBackAt \in 0 .. MaxTime

LEMMA StationTypes ==
    ASSUME Station'
    PROVE  /\ controller' \in State
           /\ held' \subseteq {"admission", "queue", "domain", "publisher"}
           /\ slot' \subseteq Slots /\ carried' \subseteq {"work", "lease", "active"}
           /\ future' \in {"none", "running", "ended"}
<1>1. /\ \A at \in {"Initial", "Claimed", "DomainAcquired", "Bound", "Terminal"} :
             In(at, "-") \in State
      /\ \A i \in Interrupts : In("Processing", i) \in State
      /\ \A k \in SettlementKind : In("Releasing", k) \in State
  BY DEF State
<1>2. CASE (Claimed \/ DomainHeld \/ Unstarted \/ Working \/ Finished)'
  BY <1>1, <1>2 DEF Claimed, DomainHeld, Unstarted, Working, Finished, Script, Has, All, Slots,
     Interrupts
<1>3. CASE \E i \in Interrupts : Interrupted(i)'
  BY <1>1, <1>3 DEF Interrupted, Script, Has, All, Slots
<1>4. CASE \E k \in SettlementKind : Releasing(k)'
  BY <1>1, <1>4 DEF Releasing, Script, Has, All, Slots
<1>5. CASE Over'
  BY <1>1, <1>5 DEF Over, Script, Has, All, Slots
<1> QED BY <1>2, <1>3, <1>4, <1>5 DEF Station

LEMMA Driven ==
    ASSUME Station', Loose', Truthful', life' = "driving"
    PROVE  IInv'
BY StationTypes DEF IInv, TypeOK, Loose

\* The station a request is performed at.
LEMMA Where ==
    ASSUME IInv, life = "driving"
    PROVE  /\ Loose /\ Truthful
           /\ pending = "AcquireDomain" => Claimed
           /\ pending = "Bind" => DomainHeld
           /\ pending = "PollWork" => Unstarted \/ Working
           /\ pending \in {"RevokeDomain", "CancelWork"} => \E i \in Interrupts : Interrupted(i)
           /\ pending = "JoinWork" => Finished \/ \E i \in Interrupts : Interrupted(i)
           /\ pending \in {"DropPublisher", "ReleaseDomain"} =>
                \E k \in SettlementKind : Releasing(k)
           /\ pending \in {"Settle", "RetireQueue", "DropAdmission", "none"} => Over
<1>1. Station /\ Loose /\ Truthful
  BY DEF IInv, TypeOK, Loose
<1>2. /\ Claimed => pending = "AcquireDomain"
      /\ DomainHeld => pending = "Bind"
      /\ Unstarted \/ Working => pending = "PollWork"
      /\ Finished => pending = "JoinWork"
  BY DEF Claimed, DomainHeld, Unstarted, Working, Finished, Script
<1>3. \A i \in Interrupts : Interrupted(i) => pending \in {"RevokeDomain", "CancelWork", "JoinWork"}
  BY DEF Interrupted, Script
<1>4. \A k \in SettlementKind : Releasing(k) => pending \in {"DropPublisher", "ReleaseDomain"}
  BY DEF Releasing, Script
<1>5. Over => pending \in {"Settle", "RetireQueue", "DropAdmission", "none"}
  BY DEF Over, Script
<1> QED BY <1>1, <1>2, <1>3, <1>4, <1>5 DEF Station

-----------------------------------------------------------------------------
(* The steps.                                                              *)

LEMMA AcquireSteps ==
    ASSUME IInv, NEW ok \in BOOLEAN, AcquireDomain(ok)
    PROVE  IInv'
<1>1. /\ Claimed /\ Loose /\ Truthful /\ life' = "driving"
      /\ Install([is |-> "DomainOutcome", ok |-> ok], work)
      /\ UNCHANGED <<carried, future, result, fired, now, interrupt, sent>>
  BY Where DEF AcquireDomain, Performing
<1>2. controller = In("Claimed", "-") /\ controller.at = "Claimed"
  BY <1>1, InForms DEF Claimed, Script
<1>s. settlement = NoSettlement /\ sent = NoSettlement
  BY <1>1, <1>2 DEF Truthful
<1>3. CASE ok
  <2>1. Step([is |-> "DomainOutcome", ok |-> ok])
          = Outcome(In("DomainAcquired", "-"), <<"Bind">>, NoSettlement)
    BY <1>2, <1>3, ScriptSteps
  <2>2. /\ controller' = In("DomainAcquired", "-") /\ settlement' = NoSettlement
        /\ Emit(<<"Bind">>) /\ work' \in {"Running", work}
    BY <1>1, <2>1, Installed
  <2>3. pending' = "Bind" /\ remaining' = <<>>
    BY <2>2, EmitForms
  <2>4. DomainHeld'
    BY <1>1, <1>3, <2>2, <2>3 DEF AcquireDomain, Claimed, DomainHeld, Script, Has
  <2>5. Loose' /\ Truthful'
    BY <1>1, <1>s, <1>3, <2>2 DEF AcquireDomain, Loose, Truthful, NoSettlement
  <2> QED BY <1>1, <2>4, <2>5, Driven DEF Station
<1>4. CASE ~ok
  <2>1. /\ Step([is |-> "DomainOutcome", ok |-> ok]) = Ending(Yield(RefusedDelay))
        /\ now \in 0 .. MaxTime
    BY <1>1, <1>2, <1>4, ScriptSteps DEF Loose
  <2>2. /\ Yield(RefusedDelay) \in SettlementType /\ Yield(RefusedDelay) # NoSettlement
        /\ Yield(RefusedDelay).kind = "Yield"
        /\ \/ Yield(RefusedDelay).notBefore > now
           \/ Yield(RefusedDelay).notBefore = MaxMs
    BY <2>1, SettlementForms, Constants
  <2>3. /\ settlement' \in {Yield(RefusedDelay)} /\ work' \in {"Running", work}
        /\ settlement' # NoSettlement =>
             /\ controller' = In("Terminal", "-") /\ pending' = "Settle"
             /\ remaining' = <<"RetireQueue", "DropAdmission">>
    BY <1>1, <2>1, Ended
  <2>4. Over'
    BY <1>1, <1>4, <2>2, <2>3 DEF AcquireDomain, Claimed, Over, Script, Has
  <2>5. domainBackAt' = now /\ slot' = {"admission", "active"} /\ carried' = {}
    BY <1>1, <1>4 DEF AcquireDomain, Claimed, Has
  <2>6. Loose' /\ Truthful'
    BY <1>1, <1>s, <2>2, <2>3, <2>5, InForms DEF Loose, Truthful, NoSettlement
  <2> QED BY <1>1, <2>4, <2>6, Driven DEF Station
<1> QED BY <1>3, <1>4

\* Before the end of the pass there is nothing to tell the queue, and then what it
\* is told stays true by itself.
LEMMA Untold ==
    ASSUME Truthful, controller.at # "Terminal"
    PROVE  settlement = NoSettlement /\ sent = NoSettlement
BY DEF Truthful

LEMMA StillUntold ==
    ASSUME settlement' = NoSettlement, sent' = NoSettlement
    PROVE  Truthful'
BY DEF Truthful, NoSettlement

LEMMA BindSteps ==
    ASSUME IInv, NEW ok \in BOOLEAN, Bind(ok)
    PROVE  IInv'
<1>1. /\ DomainHeld /\ Loose /\ Truthful /\ life' = "driving"
      /\ Install([is |-> "BindOutcome", ok |-> ok], work)
      /\ slot' = slot \cup {"publisher"} /\ held' = held \cup {"publisher"}
      /\ UNCHANGED <<carried, future, result, fired, now, interrupt, domainBackAt, sent>>
  BY Where DEF Bind, Performing, historyVars
<1>2. controller = In("DomainAcquired", "-") /\ controller.at = "DomainAcquired"
  BY <1>1, InForms DEF DomainHeld, Script
<1>s. settlement = NoSettlement /\ sent = NoSettlement
  BY <1>1, <1>2, Untold
<1>3. CASE ok
  <2>1. Step([is |-> "BindOutcome", ok |-> ok])
          = Outcome(In("Bound", "-"), <<"PollWork">>, NoSettlement)
    BY <1>2, <1>3, ScriptSteps
  <2>2. /\ controller' = In("Bound", "-") /\ settlement' = NoSettlement
        /\ Emit(<<"PollWork">>) /\ work' \in {"Running", work}
    BY <1>1, <2>1, Installed
  <2>3. pending' = "PollWork" /\ remaining' = <<>>
    BY <2>2, EmitForms
  <2>4. Unstarted'
    BY <1>1, <2>2, <2>3 DEF DomainHeld, Unstarted, Script, Has, All
  <2>5. Loose' /\ Truthful'
    BY <1>1, <1>s, <2>2, StillUntold DEF Loose
  <2> QED BY <1>1, <2>4, <2>5, Driven DEF Station
<1>4. CASE ~ok
  <2>1. Step([is |-> "BindOutcome", ok |-> ok])
          = Outcome(In("Releasing", "Refused"), <<"DropPublisher", "ReleaseDomain">>, NoSettlement)
    BY <1>2, <1>4, ScriptSteps DEF ReleaseEffects
  <2>2. /\ controller' = In("Releasing", "Refused") /\ settlement' = NoSettlement
        /\ Emit(<<"DropPublisher", "ReleaseDomain">>) /\ work' \in {"Running", work}
    BY <1>1, <2>1, Installed
  <2>3. pending' = "DropPublisher" /\ remaining' = <<"ReleaseDomain">>
    BY <2>2, EmitForms
  <2>4. Releasing("Refused")'
    BY <1>1, <2>2, <2>3 DEF DomainHeld, Releasing, SettlementKind, Script, Has, All
  <2>5. Loose' /\ Truthful'
    BY <1>1, <1>s, <2>2, StillUntold DEF Loose
  <2> QED BY <1>1, <2>4, <2>5, Driven DEF Station, SettlementKind
<1> QED BY <1>3, <1>4

LEMMA StartSteps ==
    ASSUME IInv, StartWork
    PROVE  IInv'
<1>1. /\ Unstarted /\ Loose /\ Truthful /\ life' = "driving"
      /\ slot' = (slot \ {"publisher"}) \cup {"work"} /\ future' = "running"
      /\ UNCHANGED <<controller, held, work, pending, remaining, settlement>>
      /\ UNCHANGED <<carried, result, fired, now, interrupt, domainBackAt, sent>>
  BY Where DEF StartWork, Performing, Working, Has, historyVars, controlVars
<1>2. Working'
  BY <1>1 DEF Unstarted, Working, Script, Has
<1>3. controller.at = "Bound"
  BY <1>1, InForms DEF Unstarted, Script
<1>4. Loose' /\ Truthful'
  BY <1>1, <1>3, Untold, StillUntold DEF Loose
<1> QED BY <1>1, <1>2, <1>4, Driven DEF Station

LEMMA PollSteps ==
    ASSUME IInv, NEW why \in Interrupts, NEW ok \in BOOLEAN, PollWork(why, ok)
    PROVE  IInv'
<1>1. /\ Working /\ Loose /\ Truthful /\ life' = "driving" /\ interrupt' = why
      /\ why = "QueueLoss" => "queueLost" \in fired
      /\ UNCHANGED <<held, carried, fired, now, domainBackAt, sent>>
  BY Where DEF PollWork, Performing, Selected, Unstarted, Has
<1>2. controller = In("Bound", "-") /\ controller.at = "Bound"
  BY <1>1, InForms DEF Working, Script
<1>s. settlement = NoSettlement /\ sent = NoSettlement
  BY <1>1, <1>2, Untold
<1>3. CASE why = "Completed"
  <2>1. Step([is |-> "Interrupt", why |-> why])
          = Outcome(In("Processing", why), <<"JoinWork">>, NoSettlement)
    BY <1>2, <1>3, ScriptSteps DEF Effects
  <2>2. /\ Install([is |-> "Interrupt", why |-> why], "Completed")
        /\ slot' = slot \cup {"completed"} /\ future' = "ended" /\ result' \in {"ok", "failed"}
    BY <1>3 DEF PollWork, Verdict
  <2>3. /\ controller' = In("Processing", why) /\ settlement' = NoSettlement
        /\ Emit(<<"JoinWork">>) /\ work' \in {"Running", "Completed"}
    BY <2>1, <2>2, Installed
  <2>4. pending' = "JoinWork" /\ remaining' = <<>>
    BY <2>3, EmitForms
  <2>5. Finished'
    BY <1>1, <1>3, <2>2, <2>3, <2>4 DEF Working, Finished, Script, Has
  <2>6. Loose' /\ Truthful'
    BY <1>1, <1>s, <2>2, <2>3, StillUntold DEF Loose
  <2> QED BY <1>1, <2>5, <2>6, Driven DEF Station
<1>4. CASE why # "Completed"
  <2>1. Step([is |-> "Interrupt", why |-> why])
          = Outcome(In("Processing", why), <<"RevokeDomain", "CancelWork", "JoinWork">>,
                    NoSettlement)
    BY <1>2, <1>4, ScriptSteps DEF Effects
  <2>2. /\ Install([is |-> "Interrupt", why |-> why], work)
        /\ UNCHANGED <<future, result, slot>>
    BY <1>4 DEF PollWork
  <2>3. /\ controller' = In("Processing", why) /\ settlement' = NoSettlement
        /\ Emit(<<"RevokeDomain", "CancelWork", "JoinWork">>) /\ work' \in {"Running", work}
    BY <2>1, <2>2, Installed
  <2>4. pending' = "RevokeDomain" /\ remaining' = <<"CancelWork", "JoinWork">>
    BY <2>3, EmitForms
  <2>5. Interrupted(why)'
    BY <1>1, <1>4, <2>2, <2>3, <2>4 DEF Working, Interrupted, Interrupts, Script, Has
  <2>6. Loose' /\ Truthful'
    BY <1>1, <1>s, <2>2, <2>3, StillUntold DEF Loose
  <2> QED BY <1>1, <2>5, <2>6, Driven DEF Station
<1> QED BY <1>3, <1>4

\* Fencing the work off and telling it to stop.
LEMMA TellSteps ==
    ASSUME IInv, RevokeDomain \/ CancelWork
    PROVE  IInv'
<1> DEFINE told == IF pending = "RevokeDomain" THEN "revoked" ELSE "cancelled"
<1>1. /\ pending \in {"RevokeDomain", "CancelWork"}
      /\ Loose /\ Truthful /\ life' = "driving" /\ Continue
      /\ fired' = fired \cup {told}
      /\ UNCHANGED <<held, slot, carried, future, result, now, interrupt, domainBackAt, sent>>
  BY Where DEF RevokeDomain, CancelWork, Performing, historyVars, ownedVars
<1>2. PICK i \in Interrupts : Interrupted(i)
  BY <1>1, Where DEF RevokeDomain, CancelWork, Performing
<1>3. controller.at = "Processing"
  BY <1>2, InForms DEF Interrupted, Script
<1>4. UNCHANGED <<controller, settlement, work>> /\ Emit(remaining)
  BY <1>1 DEF Continue
<1>5. Interrupted(i)'
  <2>1. CASE pending = "RevokeDomain"
    <3>1. remaining = <<"CancelWork", "JoinWork">>
      BY <1>2, <2>1 DEF Interrupted, Script
    <3>2. pending' = "CancelWork" /\ remaining' = <<"JoinWork">>
      BY <1>4, <3>1, EmitForms
    <3> QED BY <1>1, <1>2, <1>4, <2>1, <3>2 DEF Interrupted, Script, Has
  <2>2. CASE pending = "CancelWork"
    <3>1. remaining = <<"JoinWork">> /\ "revoked" \in fired
      BY <1>2, <2>2 DEF Interrupted, Script
    <3>2. pending' = "JoinWork" /\ remaining' = <<>>
      BY <1>4, <3>1, EmitForms
    <3> QED BY <1>1, <1>2, <1>4, <2>2, <3>1, <3>2 DEF Interrupted, Script, Has
  <2> QED BY <1>1, <2>1, <2>2
<1>6. Loose' /\ Truthful'
  BY <1>1, <1>3, <1>4, Untold, StillUntold DEF Loose
<1> QED BY <1>1, <1>2, <1>5, <1>6, Driven DEF Station

\* The work is joined, however it ended, and the domain is given back.
LEMMA JoinedSteps ==
    ASSUME IInv, life = "driving", life' = "driving", pending = "JoinWork",
           NEW ok \in BOOLEAN, Install([is |-> "WorkJoined", ok |-> ok], "Joined"),
           NEW i \in Interrupts, controller = In("Processing", i), interrupt = i,
           i = "QueueLoss" => "queueLost" \in fired,
           slot' = {"admission", "active", "lease", "publisher"}, carried' = {},
           future' = "ended", held' = All,
           result' \in {"ok", "failed"}, ~ok => result' = "failed",
           UNCHANGED <<fired, now, interrupt, domainBackAt, sent>>
    PROVE  IInv'
<1> DEFINE k == SettlementOf(i, ok)
<1>1. controller.at = "Processing" /\ Loose /\ Truthful
  BY InForms, Where
<1>2. Step([is |-> "WorkJoined", ok |-> ok])
        = Outcome(In("Releasing", k), <<"DropPublisher", "ReleaseDomain">>, NoSettlement)
  BY ScriptSteps DEF ReleaseEffects
<1>3. k \in SettlementKind /\ (k = "Retry" => ~ok /\ i \in {"Completed", "QueueLoss"})
  BY DEF SettlementOf, SettlementKind, Interrupts
<1> HIDE DEF k
<1>4. /\ controller' = In("Releasing", k) /\ settlement' = NoSettlement
      /\ Emit(<<"DropPublisher", "ReleaseDomain">>) /\ work' \in {"Running", "Joined"}
  BY <1>2, Installed
<1>5. pending' = "DropPublisher" /\ remaining' = <<"ReleaseDomain">>
  BY <1>4, EmitForms
<1>6. k = "Retry" => Chargeable'
  BY <1>3 DEF Chargeable
<1>7. Releasing(k)'
  BY <1>3, <1>4, <1>5, <1>6 DEF Releasing, Script, Has
<1>8. Loose' /\ Truthful'
  BY <1>1, <1>4, Untold, StillUntold DEF Loose
<1> QED BY <1>3, <1>7, <1>8, Driven DEF Station

LEMMA JoinSteps ==
    ASSUME IInv, JoinCompleted
    PROVE  IInv'
<1>1. /\ life = "driving" /\ life' = "driving" /\ pending = "JoinWork" /\ "completed" \in slot
      /\ slot' = (slot \ {"work", "completed"}) \cup {"publisher"}
      /\ Install([is |-> "WorkJoined", ok |-> result = "ok"], "Joined")
      /\ UNCHANGED <<held, carried, future, result, fired, now, interrupt, domainBackAt, sent>>
  BY DEF JoinCompleted, Performing, historyVars
<1>2. Finished
  <2>1. \A i \in Interrupts : Interrupted(i) => "completed" \notin slot
    BY DEF Interrupted, Has
  <2> QED BY <1>1, <2>1, Where
<1>3. /\ controller = In("Processing", "Completed") /\ interrupt = "Completed"
      /\ slot' = {"admission", "active", "lease", "publisher"} /\ carried' = {}
      /\ future' = "ended" /\ held' = All /\ result \in {"ok", "failed"}
  BY <1>1, <1>2 DEF Finished, Script, Has
<1>4. (result = "ok") \in BOOLEAN /\ "Completed" \in Interrupts
  BY DEF Interrupts
<1>5. (result = "ok") = TRUE \/ (result = "ok") = FALSE
  OBVIOUS
<1> DEFINE ok == result = "ok"
<1>6. /\ ok \in BOOLEAN /\ (~ok => result' = "failed") /\ result' \in {"ok", "failed"}
      /\ Install([is |-> "WorkJoined", ok |-> ok], "Joined")
  BY <1>1, <1>3, <1>4
<1> HIDE DEF ok
<1> QED BY <1>1, <1>3, <1>4, <1>6, JoinedSteps

LEMMA AwaitSteps ==
    ASSUME IInv, AwaitWork
    PROVE  IInv'
<1>1. /\ life = "driving" /\ life' = "driving" /\ pending = "JoinWork"
      /\ "work" \in slot /\ "completed" \notin slot
      /\ slot' = slot \ {"work"} /\ carried' = {"work"}
      /\ UNCHANGED <<controller, held, work, pending, remaining, settlement>>
      /\ UNCHANGED <<future, result, fired, now, interrupt, domainBackAt, sent>>
  BY DEF AwaitWork, Performing, historyVars, controlVars
<1>2. PICK i \in Interrupts : Interrupted(i)
  <2>1. Finished => "completed" \in slot
    BY DEF Finished, Has
  <2> QED BY <1>1, <2>1, Where
<1>3. Interrupted(i)'
  BY <1>1, <1>2 DEF Interrupted, Script, Has
<1>4. controller.at = "Processing"
  BY <1>2, InForms DEF Interrupted, Script
<1>5. Loose' /\ Truthful'
  BY <1>1, <1>4, Where, Untold, StillUntold DEF Loose
<1> QED BY <1>1, <1>3, <1>5, Driven DEF Station

LEMMA ReturnSteps ==
    ASSUME IInv, NEW ok \in BOOLEAN, WorkReturns(ok)
    PROVE  IInv'
<1>1. /\ life = "driving" /\ life' = "driving" /\ pending = "JoinWork" /\ "work" \in carried
      /\ carried' = {} /\ slot' = slot \cup {"publisher"} /\ future' = "ended"
      /\ result' = Verdict(ok) /\ Install([is |-> "WorkJoined", ok |-> ok], "Joined")
      /\ UNCHANGED <<held, fired, now, interrupt, domainBackAt, sent>>
  BY DEF WorkReturns, Performing, historyVars
<1>2. PICK i \in Interrupts : Interrupted(i)
  <2>1. Finished => carried = {}
    BY DEF Finished, Has
  <2> QED BY <1>1, <2>1, Where
<1>3. /\ controller = In("Processing", i) /\ interrupt = i
      /\ i = "QueueLoss" => "queueLost" \in fired
      /\ slot' = {"admission", "active", "lease", "publisher"} /\ held' = All
  BY <1>1, <1>2 DEF Interrupted, Script, Has
<1>4. result' \in {"ok", "failed"} /\ (~ok => result' = "failed")
  BY <1>1 DEF Verdict
<1> QED BY <1>1, <1>3, <1>4, JoinedSteps

\* The publisher goes, then the lease is taken out to be released.
LEMMA LetGoSteps ==
    ASSUME IInv, DropPublisher \/ ReleaseDomain
    PROVE  IInv'
<1>1. /\ pending \in {"DropPublisher", "ReleaseDomain"} /\ life = "driving" /\ life' = "driving"
      /\ controller' = controller /\ settlement' = settlement /\ work' = work
      /\ fired \subseteq fired' /\ fired' \subseteq fired \cup {"revoked"}
      /\ UNCHANGED <<future, result, now, interrupt, domainBackAt, sent>>
  BY DEF DropPublisher, ReleaseDomain, Performing, Continue, controlVars, historyVars
<1>2. PICK k \in SettlementKind : Releasing(k)
  BY <1>1, Where
<1>3. k = "Retry" => Chargeable'
  BY <1>1, <1>2 DEF Releasing, Chargeable
<1>4. Releasing(k)'
  <2>1. CASE DropPublisher
    <3>1. /\ pending = "DropPublisher" /\ slot' = slot \ {"publisher"}
          /\ held' = held \ {"publisher"} /\ carried' = carried /\ Emit(remaining)
      BY <2>1 DEF DropPublisher, Performing, Continue
    <3>2. remaining = <<"ReleaseDomain">>
      BY <1>2, <3>1 DEF Releasing, Script
    <3>3. pending' = "ReleaseDomain" /\ remaining' = <<>>
      BY <3>1, <3>2, EmitForms
    <3> QED BY <1>1, <1>2, <1>3, <3>1, <3>3 DEF Releasing, Script, Has, All
  <2>2. CASE ReleaseDomain
    <3>1. /\ pending = "ReleaseDomain" /\ "lease" \in slot /\ slot' = slot \ {"lease"}
          /\ carried' = {"lease"} /\ UNCHANGED <<held, pending, remaining>>
      BY <2>2 DEF ReleaseDomain, Performing, controlVars
    <3> QED BY <1>1, <1>2, <1>3, <3>1 DEF Releasing, Script, Has
  <2> QED BY <2>1, <2>2
<1>5. controller.at = "Releasing"
  BY <1>2, InForms DEF Releasing, Script
<1>6. Loose' /\ Truthful'
  BY <1>1, <1>5, Where, Untold, StillUntold DEF Loose
<1> QED BY <1>1, <1>4, <1>6, Driven DEF Station

LEMMA ReleasedSteps ==
    ASSUME IInv, DomainReleased
    PROVE  IInv'
<1> DEFINE S == {Yield(RefusedDelay), Yield(InterruptedDelay), NoSettlement}
                  \cup {Retry(d) : d \in RetryDelay}
<1>1. /\ pending = "ReleaseDomain" /\ life = "driving" /\ life' = "driving"
      /\ "lease" \in carried /\ carried' = {} /\ held' = held \ {"domain"} /\ domainBackAt' = now
      /\ Install([is |-> "DomainReleased"], work)
      /\ UNCHANGED <<slot, future, result, fired, now, interrupt, sent>>
  BY DEF DomainReleased, Performing
<1>2. Loose /\ Truthful /\ \E k \in SettlementKind : Releasing(k)
  BY <1>1, Where
<1>3. PICK k \in SettlementKind : Releasing(k)
  BY <1>2
<1>4. PICK f \in {"none", "ended"} :
        /\ controller = In("Releasing", k)
        /\ Has({"admission", "active"}, {"lease"}, f, {"admission", "queue", "domain"})
  BY <1>1, <1>3 DEF Releasing, Script, Has
<1>s. settlement = NoSettlement /\ sent = NoSettlement /\ now \in 0 .. MaxTime
  BY <1>2, <1>4, InForms, Untold DEF Loose
<1>5. \A o \in Step([is |-> "DomainReleased"]) : \E s \in S :
        o \in Ending(s) /\ (s.kind = "Retry" => k = "Retry")
  <2>0. /\ Yield(RefusedDelay).kind = "Yield" /\ Yield(InterruptedDelay).kind = "Yield"
        /\ NoSettlement.kind = "none"
    BY <1>s, Constants, SettlementForms DEF NoSettlement
  <2>1. CASE k = "Refused"
    BY <1>4, <2>0, <2>1, ScriptSteps
  <2>2. CASE k = "Interrupted"
    BY <1>4, <2>0, <2>2, ScriptSteps
  <2>3. CASE k = "Retry"
    <3>1. Step([is |-> "DomainReleased"]) = UNION {Ending(Retry(d)) : d \in RetryDelay}
      BY <1>4, <2>3, ScriptSteps
    <3>2. \A o \in UNION {Ending(Retry(d)) : d \in RetryDelay} :
            \E d \in RetryDelay : o \in Ending(Retry(d))
      OBVIOUS
    <3>3. \A d \in RetryDelay : Retry(d) \in S
      OBVIOUS
    <3> HIDE DEF S
    <3> QED BY <2>3, <3>1, <3>2, <3>3
  <2>4. CASE k = "None"
    BY <1>4, <2>0, <2>4, ScriptSteps
  <2> QED BY <2>1, <2>2, <2>3, <2>4 DEF SettlementKind
<1> DEFINE T == {s \in S : s.kind = "Retry" => k = "Retry"}
<1>6. \A s \in T : /\ s \in SettlementType
                   /\ s # NoSettlement => s.notBefore > now \/ s.notBefore = MaxMs
                   /\ s.kind = "Retry" => k = "Retry"
  <2>1. NoSettlement \in SettlementType
    BY Constants DEF NoSettlement, SettlementType
  <2>2. \A d \in {RefusedDelay, InterruptedDelay} :
          Yield(d) \in SettlementType /\ (Yield(d).notBefore > now \/ Yield(d).notBefore = MaxMs)
    BY <1>s, Constants, SettlementForms
  <2>3. \A d \in RetryDelay :
          Retry(d) \in SettlementType /\ (Retry(d).notBefore > now \/ Retry(d).notBefore = MaxMs)
    BY <1>s, Constants, SettlementForms
  <2> QED BY <2>1, <2>2, <2>3
<1>7. \A o \in Step([is |-> "DomainReleased"]) : \E s \in T : o \in Ending(s)
  BY <1>5
<1> HIDE DEF S, T
<1>8. /\ settlement' \in T /\ work' \in {"Running", work}
      /\ \/ /\ settlement' # NoSettlement
            /\ controller' = In("Terminal", "-") /\ pending' = "Settle"
            /\ remaining' = <<"RetireQueue", "DropAdmission">>
         \/ /\ settlement' = NoSettlement
            /\ controller' = In("Terminal", "-") /\ pending' = "RetireQueue"
            /\ remaining' = <<"DropAdmission">>
  BY <1>1, <1>7, Ended
<1>9. Over'
  BY <1>1, <1>4, <1>8 DEF Over, Script, Has
<1>10. settlement'.kind = "Retry" => Chargeable'
  BY <1>1, <1>3, <1>6, <1>8 DEF Releasing, Chargeable
<1>11. Truthful'
  BY <1>1, <1>4, <1>s, <1>6, <1>8, <1>10, InForms DEF Truthful, Has, NoSettlement
<1>12. Loose'
  BY <1>1, <1>2, <1>6, <1>8 DEF Loose
<1> QED BY <1>1, <1>9, <1>11, <1>12, Driven DEF Station

\* What the queue is told stays true while the rest is given back.
LEMMA StillTruthful ==
    ASSUME Truthful, UNCHANGED <<controller, settlement, sent, interrupt, result, domainBackAt>>,
           fired \subseteq fired', "lease" \in slot' \cup carried' => "lease" \in slot \cup carried
    PROVE  Truthful'
BY DEF Truthful, Chargeable

LEMMA SettleSteps ==
    ASSUME IInv, Settle
    PROVE  IInv'
<1>1. /\ pending = "Settle" /\ life = "driving" /\ life' = "driving"
      /\ Emit(remaining) /\ UNCHANGED <<controller, settlement, work>>
      /\ sent' \in IF "queueLost" \in fired THEN {sent} ELSE {sent, settlement}
      /\ UNCHANGED <<held, slot, carried, future, result, fired, now, interrupt, domainBackAt>>
  BY DEF Settle, Performing, Continue, ownedVars
<1>2. Over /\ Loose /\ Truthful
  BY <1>1, Where
<1>3. remaining = <<"RetireQueue", "DropAdmission">>
  BY <1>1, <1>2 DEF Over, Script
<1>4. pending' = "RetireQueue" /\ remaining' = <<"DropAdmission">>
  BY <1>1, <1>3, EmitForms
<1>5. Over'
  BY <1>1, <1>2, <1>4 DEF Over, Script, Has
<1>6. Loose' /\ Truthful'
  BY <1>1, <1>2 DEF Loose, Truthful, Chargeable
<1> QED BY <1>1, <1>5, <1>6, Driven DEF Station

\* The claim and the admission are given back.
LEMMA GiveBackSteps ==
    ASSUME IInv, RetireQueue \/ QueueRetired \/ DropAdmission
    PROVE  IInv'
<1>1. /\ pending \in {"RetireQueue", "DropAdmission"} /\ life = "driving" /\ life' = "driving"
      /\ UNCHANGED <<controller, settlement, work, future, result, now>>
      /\ UNCHANGED <<interrupt, domainBackAt, sent>>
      /\ fired \subseteq fired' /\ fired' \subseteq fired \cup {"queueLost"}
  BY DEF RetireQueue, QueueRetired, DropAdmission, Performing, Continue, controlVars, historyVars
<1>2. Over /\ Loose /\ Truthful
  BY <1>1, Where
<1>3. Over'
  <2>1. CASE RetireQueue
    <3>1. /\ pending = "RetireQueue" /\ "active" \in slot /\ slot' = slot \ {"active"}
          /\ carried' = {"active"} /\ UNCHANGED <<held, pending, remaining>>
      BY <2>1 DEF RetireQueue, Performing, controlVars
    <3> QED BY <1>1, <1>2, <3>1 DEF Over, Script, Has
  <2>2. CASE QueueRetired
    <3>1. /\ pending = "RetireQueue" /\ "active" \in carried /\ carried' = {}
          /\ held' = held \ {"queue"} /\ slot' = slot /\ Emit(remaining)
      BY <2>2 DEF QueueRetired, Performing, Continue
    <3>2. remaining = <<"DropAdmission">>
      BY <1>2, <3>1 DEF Over, Script
    <3>3. pending' = "DropAdmission" /\ remaining' = <<>>
      BY <3>1, <3>2, EmitForms
    <3> QED BY <1>1, <1>2, <3>1, <3>3 DEF Over, Script, Has
  <2>3. CASE DropAdmission
    <3>1. /\ pending = "DropAdmission" /\ slot' = slot \ {"admission"}
          /\ held' = held \ {"admission"} /\ carried' = carried /\ Emit(remaining)
      BY <2>3 DEF DropAdmission, Performing, Continue
    <3>2. remaining = <<>>
      BY <1>2, <3>1 DEF Over, Script
    <3>3. pending' = "none" /\ remaining' = <<>>
      BY <3>1, <3>2, EmitForms
    <3> QED BY <1>1, <1>2, <3>1, <3>3 DEF Over, Script, Has
  <2> QED BY <2>1, <2>2, <2>3
<1>4. "lease" \notin slot' \cup carried'
  BY <1>3 DEF Over, Has
<1>5. Loose' /\ Truthful'
  BY <1>1, <1>2, <1>4, StillTruthful DEF Loose
<1> QED BY <1>1, <1>3, <1>5, Driven DEF Station

\* A loss, pressure and time change nothing but what has fired and the clock.
LEMMA OutsideSteps ==
    ASSUME IInv, WorkGivesWay \/ LoseQueue \/ LoseDomain \/ Tick
    PROVE  IInv'
<1>1. /\ UNCHANGED <<controlVars, ownedVars, historyVars, life>>
      /\ fired \subseteq fired'
      /\ fired' \subseteq fired \cup {"queueLost", "domainLost", "preempted", "cancelled"}
      /\ now' \in {now, now + 1} /\ (now' = now \/ now < MaxTime)
  BY DEF WorkGivesWay, LoseQueue, LoseDomain, Tick, ownedVars, historyVars
<1> USE DEF controlVars, ownedVars, historyVars
<1>2. TypeOK'
  <2>1. now' \in 0 .. MaxTime
    BY <1>1, Constants DEF IInv, TypeOK
  <2> QED BY <1>1, <2>1 DEF IInv, TypeOK
<1>3. Truthful'
  BY <1>1, StillTruthful DEF IInv
<1>4. ASSUME Station
      PROVE  Station'
  <2>1. CASE Claimed \/ DomainHeld \/ Unstarted \/ Working \/ Finished
    BY <1>1, <2>1 DEF Station, Claimed, DomainHeld, Unstarted, Working, Finished, Script, Has
  <2>2. ASSUME NEW i \in Interrupts, Interrupted(i)
        PROVE  Station'
    <3>1. Interrupted(i)'
      BY <1>1, <2>2 DEF Interrupted, Script, Has
    <3> QED BY <3>1 DEF Station
  <2>3. ASSUME NEW k \in SettlementKind, Releasing(k)
        PROVE  Station'
    <3>1. Releasing(k)'
      BY <1>1, <2>3 DEF Releasing, Chargeable, Script, Has
    <3> QED BY <3>1 DEF Station
  <2>4. CASE Over
    <3>1. Over'
      BY <1>1, <2>4 DEF Over, Script, Has
    <3> QED BY <3>1 DEF Station
  <2> QED BY <1>4, <2>1, <2>2, <2>3, <2>4 DEF Station
<1>5. Falling => Falling'
  BY <1>1 DEF Falling
<1> QED BY <1>1, <1>2, <1>3, <1>4, <1>5 DEF IInv

\* Wherever the task is aborted, the fields that are left fall in order.
LEMMA Fallen ==
    ASSUME Station
    PROVE  /\ future = "running" => "work" \in slot \cup carried
           /\ slot \cap {"work", "completed", "publisher"} # {} => "lease" \in slot
           /\ "lease" \in slot => {"admission", "active"} \subseteq slot
<1>1. CASE Claimed \/ DomainHeld \/ Unstarted \/ Working \/ Finished
  BY <1>1 DEF Claimed, DomainHeld, Unstarted, Working, Finished, Has
<1>2. CASE \E i \in Interrupts : Interrupted(i)
  BY <1>2 DEF Interrupted, Has
<1>3. CASE \E k \in SettlementKind : Releasing(k)
  BY <1>3 DEF Releasing, Has
<1>4. CASE Over
  BY <1>4 DEF Over, Has
<1> QED BY <1>1, <1>2, <1>3, <1>4 DEF Station

LEMMA FinishSteps ==
    ASSUME IInv, Finish \/ Abort
    PROVE  IInv'
<1>1. /\ life = "driving" /\ life' = "dropping"
      /\ UNCHANGED <<controlVars, slot, result, now, historyVars>>
      /\ carried' = {} /\ fired \subseteq fired'
      /\ fired' \subseteq fired \cup {"revoked", "domainLost", "queueLost"}
      /\ future' \in {"none", "running", "ended"}
      /\ future' = "running" => future = "running" /\ "work" \notin carried
  <2>1. CASE Finish
    <3>1. Over /\ pending = "none"
      BY <2>1, Where DEF Finish, Performing
    <3>2. carried = {} /\ future \in {"none", "ended"}
      BY <3>1 DEF Over, Script, Has
    <3> QED BY <2>1, <3>2 DEF Finish, Performing, ownedVars
  <2>2. CASE Abort
    BY <2>2 DEF Abort, IInv, TypeOK
  <2> QED BY <2>1, <2>2
<1> USE DEF controlVars, historyVars
<1>2. TypeOK'
  BY <1>1 DEF IInv, TypeOK
<1>3. Falling'
  BY <1>1, Fallen DEF IInv, Falling
<1>4. Truthful'
  BY <1>1, StillTruthful DEF IInv
<1> QED BY <1>1, <1>2, <1>3, <1>4 DEF IInv

\* A field is dropped after those that are declared before it.
LEMMA DropOrder ==
    ASSUME NEW f \in Slots, DropField(f)
    PROVE  /\ f = "lease" => slot \cap {"work", "completed", "publisher"} = {}
           /\ f \in {"admission", "active"} => "lease" \notin slot
<1>1. /\ DOMAIN FieldOrder = 1 .. 6
      /\ FieldOrder[1] = "work" /\ FieldOrder[2] = "completed" /\ FieldOrder[3] = "publisher"
      /\ FieldOrder[4] = "lease" /\ FieldOrder[5] = "admission" /\ FieldOrder[6] = "active"
  BY DEF FieldOrder
<1>2. \A i, j \in 1 .. 6 : FieldOrder[i] = f /\ j < i => FieldOrder[j] \notin slot
  BY <1>1 DEF DropField
<1> QED BY <1>1, <1>2

LEMMA DropSteps ==
    ASSUME IInv, NEW f \in slot, DropField(f)
    PROVE  IInv'
<1>1. /\ life = "dropping" /\ life' = "dropping" /\ f \in Slots
      /\ UNCHANGED <<controlVars, carried, result, now, historyVars>>
      /\ slot' = slot \ {f} /\ fired \subseteq fired'
      /\ fired' \subseteq fired \cup {"revoked", "domainLost", "queueLost"}
      /\ future' \in {"none", "running", "ended"}
      /\ future' = "running" => future = "running" /\ f # "work"
  BY DEF DropField, IInv, TypeOK
<1> USE DEF controlVars, historyVars
<1>2. TypeOK' /\ Truthful'
  BY <1>1, StillTruthful DEF IInv, TypeOK
<1>3. Falling'
  BY <1>1, DropOrder DEF IInv, Falling
<1> QED BY <1>1, <1>2, <1>3 DEF IInv

LEMMA DroppedSteps ==
    ASSUME IInv, Dropped
    PROVE  IInv'
<1>1. /\ life = "dropping" /\ life' = "gone"
      /\ UNCHANGED <<controlVars, ownedVars, fired, now, historyVars>>
  BY DEF Dropped
<1> QED BY <1>1, StillTruthful DEF IInv, TypeOK, Falling, controlVars, ownedVars, historyVars

LEMMA Initially == Init => IInv
<1> SUFFICES ASSUME Init PROVE IInv
  OBVIOUS
<1>1. Claimed
  BY DEF Init, Claimed, Script, Has
<1>2. NoSettlement \in SettlementType
  BY Constants DEF NoSettlement, SettlementType
<1>3. TypeOK
  BY <1>2, Constants DEF Init, TypeOK, State, Slots
<1>4. Truthful
  BY DEF Init, Truthful, NoSettlement
<1> QED BY <1>1, <1>3, <1>4 DEF Init, IInv, Station

LEMMA Inductive == IInv /\ [Next]_vars => IInv'
<1> SUFFICES ASSUME IInv, [Next]_vars PROVE IInv'
  OBVIOUS
<1>1. CASE UNCHANGED vars
  <2>1. TypeOK' /\ (Falling => Falling')
    BY <1>1 DEF IInv, TypeOK, Falling, vars, controlVars, ownedVars, historyVars
  <2>2. Truthful'
    BY <1>1, StillTruthful DEF IInv, vars, controlVars, ownedVars, historyVars
  <2>3. Station => Station'
    BY <1>1 DEF Station, Claimed, DomainHeld, Unstarted, Working, Finished, Interrupted, Releasing,
       Chargeable, Over, Script, Has, vars, controlVars, ownedVars, historyVars
  <2> QED BY <1>1, <2>1, <2>2, <2>3 DEF IInv, vars
<1>2. CASE Drive
  BY <1>2, AcquireSteps, BindSteps, StartSteps, PollSteps, TellSteps, JoinSteps, AwaitSteps,
     ReturnSteps, LetGoSteps, ReleasedSteps, SettleSteps, GiveBackSteps, FinishSteps DEF Drive
<1>3. CASE Next /\ ~Drive
  BY <1>3, OutsideSteps, FinishSteps, DropSteps, DroppedSteps DEF Next
<1> QED BY <1>1, <1>2, <1>3

\* The inductive invariant holds of every behaviour of a pass.
THEOREM Inv == Spec => []IInv
<1> QED BY Initially, Inductive, PTL DEF Spec

-----------------------------------------------------------------------------
(* The theorems.                                                           *)

\* A pass stays well typed: a settlement's time never passes i64::MAX.
THEOREM TypeCorrect == Spec => []TypeOK
<1>1. IInv => TypeOK
  BY DEF IInv
<1> QED BY <1>1, Inv, PTL

\* No expect(), try_unwrap() or InvalidReply of a pass can panic, and Control::held is
\* what the environment holds.
THEOREM DriverKnowsItsEnvironment == Spec => []EnvironmentAsExpected
<1>1. IInv => EnvironmentAsExpected
  <2> SUFFICES ASSUME IInv, life = "driving"
               PROVE  NeverPanics /\ MirrorsEnvironment
    BY DEF EnvironmentAsExpected, NeverPanics, MirrorsEnvironment
  <2>1. Station
    BY DEF IInv
  <2> USE DEF NeverPanics, MirrorsEnvironment, Alive
  <2>2. CASE Claimed \/ DomainHeld \/ Unstarted \/ Working \/ Finished
    BY <2>2, InForms DEF Claimed, DomainHeld, Unstarted, Working, Finished, Script, Has, All
  <2>3. CASE \E i \in Interrupts : Interrupted(i)
    BY <2>3, InForms DEF Interrupted, Script, Has, All
  <2>4. CASE \E k \in SettlementKind : Releasing(k)
    BY <2>4, InForms DEF Releasing, Chargeable, Script, Has, All
  <2>5. CASE Over
    BY <2>5, InForms DEF Over, Script, Has
  <2> QED BY <2>1, <2>2, <2>3, <2>4, <2>5 DEF Station
<1> QED BY <1>1, Inv, PTL

\* Work runs only under the lease, the lease is held only under the admission and the
\* claim, and interrupted work is fenced and told before it is awaited, in a pass that
\* finishes and in one that is dropped at any await.
THEOREM WorkStaysCovered == Spec => []WorkIsCovered
<1>1. IInv => WorkIsCovered
  <2> SUFFICES ASSUME IInv PROVE WorkIsCovered
    OBVIOUS
  <2> USE DEF WorkIsCovered, CustodyNested, InterruptedWorkIsTold, Alive
  <2>1. CASE life # "driving"
    BY <2>1 DEF IInv, Falling
  <2>2. CASE life = "driving"
    <3>1. CASE Claimed \/ DomainHeld \/ Unstarted \/ Working \/ Finished
      BY <3>1 DEF Claimed, DomainHeld, Unstarted, Working, Finished, Has
    <3>2. CASE \E i \in Interrupts : Interrupted(i)
      BY <3>2 DEF Interrupted, Has
    <3>3. CASE \E k \in SettlementKind : Releasing(k)
      BY <3>3 DEF Releasing, Has
    <3>4. CASE Over
      BY <3>4 DEF Over, Has
    <3> QED BY <2>2, <3>1, <3>2, <3>3, <3>4 DEF IInv, Station
  <2> QED BY <2>1, <2>2
<1> QED BY <1>1, Inv, PTL

\* The queue is told to run the job again only once the domain is out of the way and
\* for a later time, and is charged only for work that failed by itself.
THEOREM SettlementsAreTrue == Spec => []SettlementIsTrue
<1>1. IInv => SettlementIsTrue
  BY DEF IInv, Truthful, Chargeable, SettlementIsTrue, SettledAfterRelease, ChargedOnlyForFailure,
     Alive, NoSettlement
<1> QED BY <1>1, Inv, PTL

================================================================================
