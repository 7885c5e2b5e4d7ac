--------------------------- MODULE WarmQueue_proofs ---------------------------
(***************************************************************************)
(* Proofs about WarmQueue for any number of threads, tasks and requests,   *)
(* any timeouts, caps and batch limits.                                    *)
(***************************************************************************)
EXTENDS WarmQueue, FiniteSetTheorems, TLAPS

IInv == TypeOK /\ DeferredIffScheduled /\ DeferralsHaveDates

\* Delays are natural numbers as long as the task has attempts left.
LEMMA DelayType ==
    ASSUME NEW class \in PriorityClasses, NEW attempts \in Nat,
           attempts < RetryCap(class)
    PROVE  /\ RetryDelay(class, attempts) \in Nat
           /\ RecoveryDelay(class, attempts) \in Nat
<1>1. attempts <= MaxRetry
  BY WarmQueueAssumption DEF RetryCap, PriorityClasses
<1>2. Doubling(attempts) \in Nat
  BY <1>1, WarmQueueAssumption, DoublingAssumption DEF Doubling
<1>3. Backoff \in Nat /\ MinDelay \in Nat
  BY WarmQueueAssumption
<1>4. \A h \in {0, 1, 2, 3} : (Backoff * h * Doubling(attempts)) \div 2 \in Nat
  BY <1>2, <1>3
<1>5. QED
  BY <1>3, <1>4 DEF RetryDelay, RecoveryDelay, PriorityClasses

THEOREM InitIInv == Init => IInv
  BY WarmQueueAssumption DEF Init, IInv, TypeOK, DeferredIffScheduled, DeferralsHaveDates,
     NoRow, Row, NoTime, NoItem, NoRetry, Existing, Statuses, Labels, TaskIds

\* What every UPDATE has to make of an existing row: a row with the same request
\* that still exists and carries a backoff date exactly when it is deferred.
GoodUpdate(old, new) ==
    /\ new \in Row
    /\ new.fp = old.fp
    /\ new.status # "absent"
    /\ new.status = "deferred" <=> new.next # NoTime

LEMMA UpdatesAreGood ==
    ASSUME NEW row \in Row, now \in Nat, NEW at \in Nat, NEW next \in Int
    PROVE  /\ GoodUpdate(row, Canceled(row))
           /\ GoodUpdate(row, Settled(row, "completed", at))
           /\ GoodUpdate(row, Settled(row, "failed", at))
           /\ GoodUpdate(row, Claimed(row))
           /\ next # NoTime => GoodUpdate(row, Deferred(row, at, next))
           /\ GoodUpdate(row, Recovered(row, at, next))
<1> USE DEF GoodUpdate, Row, Statuses
<1>0. NoTime \in Int
  BY DEF NoTime
<1>1. GoodUpdate(row, Canceled(row))
  BY <1>0 DEF Canceled
<1>2. GoodUpdate(row, Settled(row, "completed", at)) /\ GoodUpdate(row, Settled(row, "failed", at))
  BY <1>0 DEF Settled
<1>3. GoodUpdate(row, Claimed(row))
  <2>1. row.attempts + 1 \in Nat
    OBVIOUS
  <2>2. QED
    BY <2>1, <1>0 DEF Claimed
<1>4. next # NoTime => GoodUpdate(row, Deferred(row, at, next))
  BY <1>0 DEF Deferred
<1>5. GoodUpdate(row, Recovered(row, at, next))
  BY <1>0 DEF Recovered
<1>6. QED
  BY <1>1, <1>2, <1>3, <1>4, <1>5

\* A step whose updates are good ones keeps what the invariant says of the table.
LEMMA GoodTable ==
    ASSUME IInv, rows' \in [TaskIds -> Row],
           \A id \in TaskIds : rows'[id] = rows[id] \/ (id \in Existing /\ GoodUpdate(rows[id], rows'[id]))
    PROVE  /\ Existing' = Existing
           /\ \A id \in Existing : rows'[id].fp \in Fingerprints
           /\ DeferredIffScheduled'
  BY DEF IInv, TypeOK, DeferredIffScheduled, Existing, GoodUpdate

LEMMA TickStep == IInv /\ Tick => IInv'
  BY DEF Tick, IInv, TypeOK, DeferredIffScheduled, DeferralsHaveDates, enqueueing,
     decision, batch, Existing

LEMMA StutterStep == IInv /\ UNCHANGED vars => IInv'
  BY DEF vars, IInv, TypeOK, DeferredIffScheduled, DeferralsHaveDates, Existing

LEMMA EnqueueSteps ==
    ASSUME IInv, NEW th \in Threads
    PROVE  /\ \A requests \in SUBSET Fingerprints : StartGenerate(th, requests) => IInv'
           /\ \A fp \in Fingerprints : EnqueueSelect(th, fp) => IInv'
           /\ \A id \in TaskIds : EnqueueInsert(th, id) => IInv'
<1> USE DEF IInv, TypeOK, DeferredIffScheduled, DeferralsHaveDates, Existing, enqueueing,
            decision, batch, Goto, Labels
<1>1. ASSUME NEW requests \in SUBSET Fingerprints, StartGenerate(th, requests) PROVE IInv'
  BY <1>1 DEF StartGenerate
<1>2. ASSUME NEW fp \in Fingerprints, EnqueueSelect(th, fp) PROVE IInv'
  <2>1. CASE Duplicates(fp) = {}
    <3>1. /\ item' = [item EXCEPT ![th] = fp] /\ pc' = [pc EXCEPT ![th] = "insert"]
          /\ readAt' = [readAt EXCEPT ![th] = now]
      BY <1>2, <2>1 DEF EnqueueSelect
    <3>2. UNCHANGED <<now, rows, plan, fresh, drain, cancelIds, failIds, retryAt, claimIds,
                      batch, warmed, crashes>>
      BY <1>2, <2>1 DEF EnqueueSelect
    <3>3. QED
      BY <3>1, <3>2
  <2>2. CASE Duplicates(fp) # {}
    <3>1. /\ plan' = [plan EXCEPT ![th] = @ \ {fp}]
          /\ readAt' = [readAt EXCEPT ![th] = now]
          /\ UNCHANGED <<now, rows, pc, item, fresh, drain, cancelIds, failIds, retryAt,
                         claimIds, targeted, supplemental, current, warmed, crashes>>
      BY <1>2, <2>2 DEF EnqueueSelect
    <3>2. QED
      BY <3>1
  <2>3. QED
    BY <2>1, <2>2
<1>3. ASSUME NEW id \in TaskIds, EnqueueInsert(th, id) PROVE IInv'
  <2> DEFINE new == [fp |-> item[th], status |-> "pending", attempts |-> 0,
                     created |-> readAt[th], updated |-> readAt[th], next |-> NoTime]
  <2>1. /\ new \in Row /\ new.fp \in Fingerprints /\ new.status = "pending"
        /\ new.next = NoTime
    BY <1>3 DEF EnqueueInsert, Row, NoTime, Statuses
  <2>2. rows' = [rows EXCEPT ![id] = new]
    BY <1>3 DEF EnqueueInsert
  <2> HIDE DEF new
  <2>3. /\ rows' \in [TaskIds -> Row]
        /\ Existing' = Existing \cup {id}
        /\ \A i \in Existing' : rows'[i].fp \in Fingerprints
        /\ DeferredIffScheduled'
    BY <2>1, <2>2
  <2>4. /\ fresh' = [fresh EXCEPT ![th] = @ \cup {id}]
        /\ plan' = [plan EXCEPT ![th] = @ \ {item[th]}]
        /\ item' = [item EXCEPT ![th] = NoItem]
        /\ pc' = [pc EXCEPT ![th] = "enqueue"]
        /\ UNCHANGED <<now, drain, readAt, cancelIds, failIds, retryAt, claimIds, targeted,
                       supplemental, current, warmed, crashes>>
    BY <1>3 DEF EnqueueInsert
  <2>5. TypeOK'
    BY <2>3, <2>4
  <2>6. QED
    BY <2>3, <2>4, <2>5
<1>4. QED
  BY <1>1, <1>2, <1>3

\* The decisions of a sweep are about existing rows, and its dates are numbers.
LEMMA SweepSelectStep ==
    ASSUME IInv, NEW th \in Threads, NEW draining, pc[th] \in {"idle", "enqueue"},
           SweepSelect(th, draining), drain' \in [Threads -> BOOLEAN]
    PROVE  IInv'
<1> USE DEF IInv, TypeOK, DeferredIffScheduled, DeferralsHaveDates, Existing, enqueueing,
            decision, batch, Goto, Labels
<1>1. \A id \in Existing : ClassOf(rows[id]) \in PriorityClasses /\ rows[id].attempts \in Nat
  BY WarmQueueAssumption DEF ClassOf, Row
<1>2. /\ SweepExpired \subseteq Existing /\ SweepStale \subseteq Existing
      /\ SweepExhausted \subseteq SweepStale
  BY DEF SweepExpired, SweepStale, SweepExhausted, SweepRows, InStatus, Active
<1>3. /\ DOMAIN SweepRetryAt \subseteq Existing
      /\ \A id \in DOMAIN SweepRetryAt : SweepRetryAt[id] \in Int
  <2>1. \A id \in SweepStale \ SweepExhausted :
           RecoveryDelay(ClassOf(rows[id]), rows[id].attempts) \in Nat
    <3> SUFFICES ASSUME NEW id \in SweepStale \ SweepExhausted
                 PROVE  RecoveryDelay(ClassOf(rows[id]), rows[id].attempts) \in Nat
      OBVIOUS
    <3>1. ~(rows[id].attempts >= RetryCap(ClassOf(rows[id])))
      BY DEF SweepExhausted, Spent
    <3>2. RetryCap(ClassOf(rows[id])) \in Int
      BY WarmQueueAssumption DEF RetryCap
    <3>3. rows[id].attempts < RetryCap(ClassOf(rows[id]))
      BY <1>1, <1>2, <3>1, <3>2
    <3>4. QED
      BY <1>1, <1>2, <3>3, DelayType
  <2>2. QED
    BY <1>2, <2>1 DEF SweepRetryAt, NoTime
<1>4. pc' \in [Threads -> Labels] /\ pc'[th] \in {"backlog", "targets", "sweep"}
  BY DEF SweepSelect, AfterSweep
<1>5. QED
  BY <1>2, <1>3, <1>4 DEF SweepSelect

\* process_pending and process_inline open with a sweep.
LEMMA StartSteps ==
    ASSUME IInv, NEW th \in Threads
    PROVE  StartDrain(th) \/ StartInline(th) => IInv'
<1>1. ASSUME StartDrain(th) \/ StartInline(th)
      PROVE  /\ pc[th] \in {"idle", "enqueue"}
             /\ \E draining \in BOOLEAN : SweepSelect(th, draining)
             /\ drain' \in [Threads -> BOOLEAN]
  BY <1>1 DEF StartDrain, StartInline, IInv, TypeOK
<1>2. QED
  BY <1>1, SweepSelectStep

\* The steps that read the table, or nothing at all, and decide.
LEMMA SelectSteps ==
    ASSUME IInv, NEW th \in Threads
    PROVE  /\ SkipInline(th) => IInv'
           /\ ClaimTargetsSelect(th) => IInv'
           /\ ClaimBacklogSelect(th) => IInv'
           /\ NoSpareCapacity(th) => IInv'
           /\ RetrySelect(th) => IInv'
           /\ Invalidate(th) => IInv'
<1> USE DEF IInv, TypeOK, DeferredIffScheduled, DeferralsHaveDates, Existing, enqueueing,
            decision, batch, Goto, Labels
<1>1. \A id \in Existing : ClassOf(rows[id]) \in PriorityClasses /\ rows[id].attempts \in Nat
  BY WarmQueueAssumption DEF ClassOf, Row
<1>7. SkipInline(th) => IInv'
  BY DEF SkipInline
<1>8. ClaimTargetsSelect(th) => IInv'
  BY DEF ClaimTargetsSelect, FreshTargets
<1>9. ClaimBacklogSelect(th) => IInv'
  <2>1. BacklogExpired \subseteq Existing /\ SelectedIds(Capacity(th)) \subseteq Existing
    BY DEF BacklogExpired, SelectedIds, BacklogEligible, Backlog, InStatus
  <2>2. QED
    BY <2>1 DEF ClaimBacklogSelect
<1>10. NoSpareCapacity(th) => IInv'
  BY DEF NoSpareCapacity
<1>11. Invalidate(th) => IInv'
  BY DEF Invalidate, CancelSelect, InStatus
<1>12. ASSUME RetrySelect(th) PROVE IInv'
  <2> DEFINE id == current[th]
             delay == RetryDelay(ClassOf(rows[id]), rows[id].attempts)
             date == [i \in {id} |-> now + delay]
  <2>1. id \in Existing
    BY <1>12 DEF RetrySelect
  <2> HIDE DEF id
  <2>5. /\ pc' = [pc EXCEPT ![th] = "retryWrite"] /\ current[th] # 0
        /\ readAt' = [readAt EXCEPT ![th] = now]
        /\ UNCHANGED <<now, rows, plan, fresh, item, drain, cancelIds, claimIds, targeted,
                       supplemental, current, warmed, crashes>>
    BY <1>12 DEF RetrySelect
  <2>2. CASE Spent(rows[id])
    <3>1. failIds' = [failIds EXCEPT ![th] = {id}] /\ retryAt' = [retryAt EXCEPT ![th] = NoRetry]
      BY <1>12, <2>2 DEF RetrySelect, id
    <3>2. TypeOK' /\ DeferredIffScheduled'
      BY <2>1, <2>5, <3>1 DEF NoRetry
    <3>3. DeferralsHaveDates'
      BY <2>1, <2>5, <3>1 DEF NoRetry
    <3>4. QED
      BY <3>2, <3>3
  <2>3. CASE ~Spent(rows[id])
    <3>1. failIds' = [failIds EXCEPT ![th] = {}] /\ retryAt' = [retryAt EXCEPT ![th] = date]
      BY <1>12, <2>3 DEF RetrySelect, id
    <3>2. RetryCap(ClassOf(rows[id])) \in Int
      BY WarmQueueAssumption DEF RetryCap
    <3>3. delay \in Nat
      BY <1>1, <2>1, <2>3, <3>2, DelayType DEF Spent
    <3>4. DOMAIN date \subseteq Existing /\ \A i \in DOMAIN date : date[i] \in Int /\ date[i] # NoTime
      <4>1. now + delay \in Int /\ now + delay # NoTime
        BY <3>3 DEF NoTime
      <4>2. QED
        BY <2>1, <4>1
    <3> HIDE DEF date
    <3>5. TypeOK' /\ DeferredIffScheduled'
      BY <2>1, <2>5, <3>1, <3>4
    <3>6. DeferralsHaveDates'
      BY <2>1, <2>5, <3>1, <3>4
    <3>7. QED
      BY <3>5, <3>6
  <2>4. QED
    BY <2>2, <2>3
<1>13. QED
  BY <1>7, <1>8, <1>9, <1>10, <1>11, <1>12

\* Taking a task off a batch only shrinks the batch.
LEMMA TakeShrinks ==
    ASSUME IInv, NEW th \in Threads, NEW id \in TaskIds, Take(th, id)
    PROVE  /\ targeted' \in [Threads -> SUBSET Existing]
           /\ supplemental' \in [Threads -> SUBSET Existing]
<1>1. targeted \in [Threads -> SUBSET Existing] /\ supplemental \in [Threads -> SUBSET Existing]
  BY DEF IInv, TypeOK
<1>2. \A held \in [Threads -> SUBSET Existing] :
        [held EXCEPT ![th] = @ \ {id}] \in [Threads -> SUBSET Existing]
  OBVIOUS
<1>3. QED
  BY <1>1, <1>2 DEF Take

\* The steps of the work loop that leave the table alone, and a thread's death.
LEMMA LoopSteps ==
    ASSUME IInv, NEW th \in Threads
    PROVE  /\ \A id \in TaskIds : BeginWarm(th, id) => IInv'
           /\ WarmSucceeds(th) => IInv'
           /\ WarmRaises(th) => IInv'
           /\ FinishPass(th) => IInv'
           /\ Crash(th) => IInv'
<1> USE DEF IInv, TypeOK, DeferredIffScheduled, DeferralsHaveDates, Existing, enqueueing,
            decision, batch, Goto, Labels
<1>1. ASSUME NEW id \in TaskIds, BeginWarm(th, id) PROVE IInv'
  <2>1. id \in Remaining(th) /\ id # 0
    BY <1>1 DEF BeginWarm, Take, Remaining, TaskIds
  <2>2. /\ targeted' \in [Threads -> SUBSET Existing]
        /\ supplemental' \in [Threads -> SUBSET Existing]
    BY <1>1, TakeShrinks DEF BeginWarm
  <2>3. /\ pc' = [pc EXCEPT ![th] = "warm"] /\ current' = [current EXCEPT ![th] = id]
        /\ UNCHANGED <<now, rows, plan, fresh, item, drain, readAt, cancelIds, failIds,
                       retryAt, claimIds, warmed, crashes>>
    BY <1>1 DEF BeginWarm
  <2>4. QED
    BY <2>1, <2>2, <2>3 DEF Remaining
<1>2. WarmSucceeds(th) => IInv'
  BY DEF WarmSucceeds
<1>3. WarmRaises(th) => IInv'
  BY DEF WarmRaises
<1>4. FinishPass(th) => IInv'
  BY DEF FinishPass
<1>5. Crash(th) => IInv'
  <2> SUFFICES ASSUME Crash(th) PROVE IInv'
    OBVIOUS
  <2>1. /\ plan' \in [Threads -> SUBSET Fingerprints]
        /\ fresh' \in [Threads -> SUBSET Existing]
        /\ item' \in [Threads -> Fingerprints \cup {NoItem}]
        /\ current' \in [Threads -> {0} \cup Existing]
    BY DEF Crash
  <2>2. /\ cancelIds' \in [Threads -> SUBSET Existing]
        /\ failIds' \in [Threads -> SUBSET Existing]
        /\ claimIds' \in [Threads -> SUBSET Existing]
        /\ targeted' \in [Threads -> SUBSET Existing]
        /\ supplemental' \in [Threads -> SUBSET Existing]
    BY DEF Crash
  <2>3. /\ pc' = [pc EXCEPT ![th] = "idle"] /\ retryAt' = [retryAt EXCEPT ![th] = NoRetry]
        /\ item' = [item EXCEPT ![th] = NoItem] /\ current' = [current EXCEPT ![th] = 0]
        /\ crashes' \in Nat
        /\ UNCHANGED <<now, rows, drain, readAt, warmed>>
    BY DEF Crash
  <2>4. /\ retryAt' = [t \in Threads |-> retryAt'[t]]
        /\ \A t \in Threads : /\ DOMAIN retryAt'[t] \subseteq Existing
                              /\ \A id \in DOMAIN retryAt'[t] : retryAt'[t][id] \in Int
    BY <2>3 DEF NoRetry
  <2>7. /\ pc' \in [Threads -> Labels] /\ Existing' = Existing
        /\ \A t \in Threads : pc'[t] = "insert" => item'[t] \in Fingerprints
        /\ \A t \in Threads :
              pc'[t] \in {"warm", "complete", "retrySelect", "retryWrite"} => current'[t] # 0
    BY <2>3
  <2>8. TypeOK' /\ DeferredIffScheduled'
    BY <2>1, <2>2, <2>3, <2>4, <2>7
  <2>5. DeferralsHaveDates'
    BY <2>3 DEF NoRetry
  <2>6. QED
    BY <2>8, <2>5
<1>6. QED
  BY <1>1, <1>2, <1>3, <1>4, <1>5

\* Every row of the table is what it was, or a good update of it.
GoodStep ==
    /\ rows' \in [TaskIds -> Row]
    /\ \A id \in TaskIds : rows'[id] = rows[id] \/ (id \in Existing /\ GoodUpdate(rows[id], rows'[id]))

LEMMA GoodStepTable ==
    ASSUME IInv, GoodStep
    PROVE  /\ Existing' = Existing
           /\ \A id \in Existing : rows'[id].fp \in Fingerprints
           /\ DeferredIffScheduled'
  BY GoodTable DEF GoodStep

\* Any of the UPDATE statements, on any existing row, is a good update.
LEMMA UpdatesOfExisting ==
    ASSUME IInv, NEW id \in Existing
    PROVE  /\ GoodUpdate(rows[id], Canceled(rows[id]))
           /\ GoodUpdate(rows[id], Claimed(rows[id]))
           /\ \A at \in Nat :
                /\ GoodUpdate(rows[id], Settled(rows[id], "completed", at))
                /\ GoodUpdate(rows[id], Settled(rows[id], "failed", at))
                /\ \A next \in Int :
                     /\ next # NoTime => GoodUpdate(rows[id], Deferred(rows[id], at, next))
                     /\ GoodUpdate(rows[id], Recovered(rows[id], at, next))
<1>1. rows[id] \in Row /\ now \in Nat
  BY DEF IInv, TypeOK, Existing
<1>2. 0 \in Nat /\ 0 \in Int
  OBVIOUS
<1>3. GoodUpdate(rows[id], Canceled(rows[id])) /\ GoodUpdate(rows[id], Claimed(rows[id]))
  BY <1>1, <1>2, UpdatesAreGood
<1>4. ASSUME NEW at \in Nat
      PROVE  /\ GoodUpdate(rows[id], Settled(rows[id], "completed", at))
             /\ GoodUpdate(rows[id], Settled(rows[id], "failed", at))
  BY <1>1, <1>2, UpdatesAreGood
<1>5. ASSUME NEW at \in Nat, NEW next \in Int
      PROVE  /\ next # NoTime => GoodUpdate(rows[id], Deferred(rows[id], at, next))
             /\ GoodUpdate(rows[id], Recovered(rows[id], at, next))
  BY <1>1, UpdatesAreGood
<1>6. QED
  BY <1>3, <1>4, <1>5

\* The tables the write steps leave are good ones.
LEMMA TableSteps ==
    ASSUME IInv, NEW th \in Threads
    PROVE  /\ SweepWrite(th) => GoodStep
           /\ ClaimTargetsWrite(th) => GoodStep
           /\ ClaimBacklogWrite(th) => GoodStep
           /\ RetryWrite(th) => GoodStep
           /\ CancelWrite(th) => GoodStep
<1>1. /\ cancelIds[th] \subseteq Existing /\ failIds[th] \subseteq Existing
      /\ claimIds[th] \subseteq Existing /\ DOMAIN retryAt[th] \subseteq Existing
      /\ \A id \in DOMAIN retryAt[th] : retryAt[th][id] \in Int
      /\ rows \in [TaskIds -> Row] /\ readAt[th] \in Nat /\ now \in Nat
  BY DEF IInv, TypeOK
<1>2. ASSUME rows' = [id \in TaskIds |-> rows'[id]],
             \A id \in TaskIds : rows'[id] = rows[id] \/ (id \in Existing /\ GoodUpdate(rows[id], rows'[id]))
      PROVE  GoodStep
  BY <1>1, <1>2 DEF GoodStep, GoodUpdate
<1>3. ASSUME SweepWrite(th) PROVE GoodStep
  <2>1. rows' = [id \in TaskIds |->
                  IF id \in cancelIds[th] THEN Canceled(rows[id])
                  ELSE IF id \in failIds[th] THEN Settled(rows[id], "failed", readAt[th])
                  ELSE IF id \in DOMAIN retryAt[th]
                       THEN Recovered(rows[id], readAt[th], retryAt[th][id])
                  ELSE rows[id]]
    BY <1>3 DEF SweepWrite
  <2>2. ASSUME NEW id \in TaskIds
        PROVE  rows'[id] = rows[id] \/ (id \in Existing /\ GoodUpdate(rows[id], rows'[id]))
    <3>1. CASE id \in cancelIds[th]
      <4>1. rows'[id] = Canceled(rows[id])
        BY <2>1, <3>1
      <4>2. QED
        BY <4>1, <3>1, <1>1, UpdatesOfExisting
    <3>2. CASE id \notin cancelIds[th] /\ id \in failIds[th]
      <4>1. rows'[id] = Settled(rows[id], "failed", readAt[th])
        BY <2>1, <3>2
      <4>2. QED
        BY <4>1, <3>2, <1>1, UpdatesOfExisting
    <3>3. CASE id \notin cancelIds[th] /\ id \notin failIds[th] /\ id \in DOMAIN retryAt[th]
      <4>1. rows'[id] = Recovered(rows[id], readAt[th], retryAt[th][id])
        BY <2>1, <3>3
      <4>2. QED
        BY <4>1, <3>3, <1>1, UpdatesOfExisting
    <3>4. CASE id \notin cancelIds[th] /\ id \notin failIds[th] /\ id \notin DOMAIN retryAt[th]
      <4>1. rows'[id] = rows[id]
        BY <2>1, <3>4
      <4>2. QED
        BY <4>1
    <3>5. QED
      BY <3>1, <3>2, <3>3, <3>4
  <2>3. rows' = [id \in TaskIds |-> rows'[id]]
    BY <2>1
  <2>4. QED
    BY <2>2, <2>3, <1>2
<1>4. ASSUME ClaimTargetsWrite(th) PROVE GoodStep
  <2>1. rows' = [id \in TaskIds |->
                  IF id \in claimIds[th] THEN Claimed(rows[id]) ELSE rows[id]]
    BY <1>4 DEF ClaimTargetsWrite
  <2>2. ASSUME NEW id \in TaskIds
        PROVE  rows'[id] = rows[id] \/ (id \in Existing /\ GoodUpdate(rows[id], rows'[id]))
    <3>1. CASE id \in claimIds[th]
      <4>1. rows'[id] = Claimed(rows[id])
        BY <2>1, <3>1
      <4>2. QED
        BY <4>1, <3>1, <1>1, UpdatesOfExisting
    <3>2. CASE id \notin claimIds[th]
      <4>1. rows'[id] = rows[id]
        BY <2>1, <3>2
      <4>2. QED
        BY <4>1
    <3>3. QED
      BY <3>1, <3>2
  <2>3. rows' = [id \in TaskIds |-> rows'[id]]
    BY <2>1
  <2>4. QED
    BY <2>2, <2>3, <1>2
<1>5. ASSUME ClaimBacklogWrite(th) PROVE GoodStep
  <2>1. rows' = [id \in TaskIds |->
                  IF id \in cancelIds[th] THEN Canceled(rows[id])
                  ELSE IF id \in claimIds[th] THEN Claimed(rows[id])
                  ELSE rows[id]]
    BY <1>5 DEF ClaimBacklogWrite
  <2>2. ASSUME NEW id \in TaskIds
        PROVE  rows'[id] = rows[id] \/ (id \in Existing /\ GoodUpdate(rows[id], rows'[id]))
    <3>1. CASE id \in cancelIds[th]
      <4>1. rows'[id] = Canceled(rows[id])
        BY <2>1, <3>1
      <4>2. QED
        BY <4>1, <3>1, <1>1, UpdatesOfExisting
    <3>2. CASE id \notin cancelIds[th] /\ id \in claimIds[th]
      <4>1. rows'[id] = Claimed(rows[id])
        BY <2>1, <3>2
      <4>2. QED
        BY <4>1, <3>2, <1>1, UpdatesOfExisting
    <3>3. CASE id \notin cancelIds[th] /\ id \notin claimIds[th]
      <4>1. rows'[id] = rows[id]
        BY <2>1, <3>3
      <4>2. QED
        BY <4>1
    <3>4. QED
      BY <3>1, <3>2, <3>3
  <2>3. rows' = [id \in TaskIds |-> rows'[id]]
    BY <2>1
  <2>4. QED
    BY <2>2, <2>3, <1>2
<1>6. ASSUME RetryWrite(th) PROVE GoodStep
  <2>1. rows' = [id \in TaskIds |->
                  IF id \in failIds[th] THEN Settled(rows[id], "failed", now)
                  ELSE IF id \in DOMAIN retryAt[th]
                       THEN Deferred(rows[id], readAt[th], retryAt[th][id])
                  ELSE rows[id]]
    BY <1>6 DEF RetryWrite
  <2>2. \A id \in DOMAIN retryAt[th] : retryAt[th][id] # NoTime
    BY <1>6 DEF RetryWrite, IInv, DeferralsHaveDates
  <2>3. ASSUME NEW id \in TaskIds
        PROVE  rows'[id] = rows[id] \/ (id \in Existing /\ GoodUpdate(rows[id], rows'[id]))
    <3>1. CASE id \in failIds[th]
      <4>1. rows'[id] = Settled(rows[id], "failed", now)
        BY <2>1, <3>1
      <4>2. QED
        BY <4>1, <3>1, <1>1, <2>2, UpdatesOfExisting
    <3>2. CASE id \notin failIds[th] /\ id \in DOMAIN retryAt[th]
      <4>1. rows'[id] = Deferred(rows[id], readAt[th], retryAt[th][id])
        BY <2>1, <3>2
      <4>2. QED
        BY <4>1, <3>2, <1>1, <2>2, UpdatesOfExisting
    <3>3. CASE id \notin failIds[th] /\ id \notin DOMAIN retryAt[th]
      <4>1. rows'[id] = rows[id]
        BY <2>1, <3>3
      <4>2. QED
        BY <4>1
    <3>4. QED
      BY <3>1, <3>2, <3>3
  <2>4. rows' = [id \in TaskIds |-> rows'[id]]
    BY <2>1
  <2>5. QED
    BY <2>3, <2>4, <1>2
<1>7. ASSUME CancelWrite(th) PROVE GoodStep
  <2>1. rows' = [id \in TaskIds |->
                  IF id \in cancelIds[th] THEN Canceled(rows[id]) ELSE rows[id]]
    BY <1>7 DEF CancelWrite
  <2>2. ASSUME NEW id \in TaskIds
        PROVE  rows'[id] = rows[id] \/ (id \in Existing /\ GoodUpdate(rows[id], rows'[id]))
    <3>1. CASE id \in cancelIds[th]
      <4>1. rows'[id] = Canceled(rows[id])
        BY <2>1, <3>1
      <4>2. QED
        BY <4>1, <3>1, <1>1, UpdatesOfExisting
    <3>2. CASE id \notin cancelIds[th]
      <4>1. rows'[id] = rows[id]
        BY <2>1, <3>2
      <4>2. QED
        BY <4>1
    <3>3. QED
      BY <3>1, <3>2
  <2>3. rows' = [id \in TaskIds |-> rows'[id]]
    BY <2>1
  <2>4. QED
    BY <2>2, <2>3, <1>2
<1>8. QED
  BY <1>3, <1>4, <1>5, <1>6, <1>7

\* A settled row: mark_completed, mark_failed.
LEMMA SettleGood ==
    ASSUME IInv, NEW id \in Existing, NEW status \in {"completed", "failed"},
           rows' = [rows EXCEPT ![id] = Settled(@, status, now)]
    PROVE  GoodStep
<1>1. GoodUpdate(rows[id], Settled(rows[id], status, now))
  BY UpdatesOfExisting, NoTime \in Int DEF IInv, TypeOK, NoTime
<1>2. rows \in [TaskIds -> Row] /\ id \in TaskIds
  BY DEF IInv, TypeOK, Existing
<1>3. rows' = [rows EXCEPT ![id] = Settled(rows[id], status, now)]
  OBVIOUS
<1>4. rows' \in [TaskIds -> Row]
  BY <1>1, <1>2, <1>3 DEF GoodUpdate
<1>5. QED
  BY <1>1, <1>2, <1>3, <1>4 DEF GoodStep

\* The steps that write the table.
LEMMA WriteSteps ==
    ASSUME IInv, NEW th \in Threads
    PROVE  /\ SweepWrite(th) => IInv'
           /\ ClaimTargetsWrite(th) => IInv'
           /\ ClaimBacklogWrite(th) => IInv'
           /\ RetryWrite(th) => IInv'
           /\ CancelWrite(th) => IInv'
<1> USE DEF IInv, TypeOK, DeferralsHaveDates, Labels, enqueueing, batch, Goto
<1>1. ASSUME GoodStep
      PROVE  /\ Existing' = Existing /\ rows' \in [TaskIds -> Row]
             /\ \A id \in Existing : rows'[id].fp \in Fingerprints
             /\ DeferredIffScheduled'
  BY <1>1, GoodStepTable DEF GoodStep
<1>2. ASSUME SweepWrite(th) PROVE IInv'
  <2>1. GoodStep
    BY <1>2, TableSteps
  <2>2. /\ pc' \in [Threads -> Labels] /\ pc'[th] \in {"targets", "backlog"}
        /\ \A t \in Threads \ {th} : pc'[t] = pc[t]
        /\ cancelIds' = [cancelIds EXCEPT ![th] = {}]
        /\ failIds' = [failIds EXCEPT ![th] = {}]
        /\ retryAt' = [retryAt EXCEPT ![th] = NoRetry]
        /\ UNCHANGED <<now, enqueueing, drain, readAt, claimIds, batch, warmed, crashes>>
    BY <1>2 DEF SweepWrite, AfterSweep
  <2>3. QED
    BY <1>1, <2>1, <2>2 DEF NoRetry
<1>3. ASSUME ClaimTargetsWrite(th) PROVE IInv'
  <2>1. GoodStep
    BY <1>3, TableSteps
  <2>2. /\ pc' = [pc EXCEPT ![th] = "backlog"]
        /\ targeted' = [targeted EXCEPT ![th] = claimIds[th]]
        /\ claimIds' = [claimIds EXCEPT ![th] = {}]
        /\ UNCHANGED <<now, enqueueing, drain, readAt, cancelIds, failIds, retryAt,
                       supplemental, current, warmed, crashes>>
    BY <1>3 DEF ClaimTargetsWrite
  <2>3. QED
    BY <1>1, <2>1, <2>2
<1>4. ASSUME ClaimBacklogWrite(th) PROVE IInv'
  <2>1. GoodStep
    BY <1>4, TableSteps
  <2>2. /\ pc' = [pc EXCEPT ![th] = "work"]
        /\ supplemental' = [supplemental EXCEPT ![th] = claimIds[th]]
        /\ cancelIds' = [cancelIds EXCEPT ![th] = {}]
        /\ claimIds' = [claimIds EXCEPT ![th] = {}]
        /\ UNCHANGED <<now, enqueueing, drain, readAt, failIds, retryAt, targeted, current,
                       warmed, crashes>>
    BY <1>4 DEF ClaimBacklogWrite
  <2>3. QED
    BY <1>1, <2>1, <2>2
<1>5. ASSUME RetryWrite(th) PROVE IInv'
  <2>1. GoodStep
    BY <1>5, TableSteps
  <2>2. /\ pc' = [pc EXCEPT ![th] = "work"]
        /\ failIds' = [failIds EXCEPT ![th] = {}]
        /\ retryAt' = [retryAt EXCEPT ![th] = NoRetry]
        /\ current' = [current EXCEPT ![th] = 0]
        /\ UNCHANGED <<now, enqueueing, drain, readAt, cancelIds, claimIds, targeted,
                       supplemental, warmed, crashes>>
    BY <1>5 DEF RetryWrite
  <2>3. QED
    BY <1>1, <2>1, <2>2 DEF NoRetry
<1>6. ASSUME CancelWrite(th) PROVE IInv'
  <2>1. GoodStep
    BY <1>6, TableSteps
  <2>2. /\ pc' = [pc EXCEPT ![th] = "idle"]
        /\ cancelIds' = [cancelIds EXCEPT ![th] = {}]
        /\ UNCHANGED <<now, enqueueing, drain, readAt, failIds, retryAt, claimIds, batch,
                       warmed, crashes>>
    BY <1>6 DEF CancelWrite
  <2>3. QED
    BY <1>1, <2>1, <2>2
<1>7. QED
  BY <1>2, <1>3, <1>4, <1>5, <1>6

\* The steps that report a task's outcome.
LEMMA ReportSteps ==
    ASSUME IInv, NEW th \in Threads
    PROVE  /\ \A id \in TaskIds : ProfileMissing(th, id) => IInv'
           /\ MarkCompleted(th) => IInv'
           /\ WarmSkipped(th) => IInv'
<1> USE DEF IInv, TypeOK, DeferralsHaveDates, Labels, enqueueing, decision, Goto
<1>1. ASSUME GoodStep
      PROVE  /\ Existing' = Existing /\ rows' \in [TaskIds -> Row]
             /\ \A id \in Existing : rows'[id].fp \in Fingerprints
             /\ DeferredIffScheduled'
  BY <1>1, GoodStepTable DEF GoodStep
<1>2. ASSUME NEW id \in TaskIds, ProfileMissing(th, id) PROVE IInv'
  <2>1. GoodStep
    BY <1>2, SettleGood DEF ProfileMissing, Take
  <2>2. /\ UNCHANGED <<now, pc, enqueueing, drain, decision, current, warmed, crashes>>
        /\ targeted' \in [Threads -> SUBSET Existing]
        /\ supplemental' \in [Threads -> SUBSET Existing]
    BY <1>2 DEF ProfileMissing, Take
  <2>3. QED
    BY <1>1, <2>1, <2>2
<1>3. ASSUME MarkCompleted(th) \/ WarmSkipped(th) PROVE IInv'
  <2>1. GoodStep
    BY <1>3, SettleGood DEF MarkCompleted, WarmSkipped
  <2>2. /\ current' = [current EXCEPT ![th] = 0]
        /\ pc' = [pc EXCEPT ![th] = "work"]
        /\ UNCHANGED <<now, enqueueing, drain, decision, targeted, supplemental, warmed,
                       crashes>>
    BY <1>3 DEF MarkCompleted, WarmSkipped
  <2>3. QED
    BY <1>1, <2>1, <2>2
<1>4. QED
  BY <1>2, <1>3

\* IInv is inductive.
LEMMA NextStep == IInv /\ [Next]_vars => IInv'
<1> SUFFICES ASSUME IInv, [Next]_vars PROVE IInv'
  OBVIOUS
<1>1. CASE Tick
  BY <1>1, TickStep
<1>2. CASE UNCHANGED vars
  BY <1>2, StutterStep
<1>3. ASSUME NEW th \in Threads,
             \/ \E requests \in SUBSET Fingerprints : StartGenerate(th, requests)
             \/ StartDrain(th) \/ Progress(th) \/ Invalidate(th) \/ Crash(th)
      PROVE  IInv'
  <2>1. CASE \E requests \in SUBSET Fingerprints : StartGenerate(th, requests)
    BY <2>1, EnqueueSteps
  <2>2. CASE StartDrain(th)
    BY <2>2, StartSteps
  <2>3. CASE Progress(th)
    BY <2>3, EnqueueSteps, StartSteps, SelectSteps, LoopSteps, WriteSteps, ReportSteps
       DEF Progress
  <2>4. CASE Invalidate(th)
    BY <2>4, SelectSteps
  <2>5. CASE Crash(th)
    BY <2>5, LoopSteps
  <2>6. QED
    BY <1>3, <2>1, <2>2, <2>3, <2>4, <2>5
<1>4. QED
  BY <1>1, <1>2, <1>3 DEF Next

LEMMA SpecIInv == Spec => []IInv
  BY InitIInv, NextStep, PTL DEF Spec

\* Type correctness: no thread ever decides about a row that does not exist, and
\* every row a thread rewrites keeps its request and its shape.
THEOREM TypeCorrect == Spec => []TypeOK
<1>1. IInv => TypeOK
  BY DEF IInv
<1>2. QED
  BY <1>1, SpecIInv, PTL

\* Whatever any number of threads overwrite, a row carries a backoff date exactly
\* while it is deferred.
THEOREM BackoffDates == Spec => []DeferredIffScheduled
<1>1. IInv => DeferredIffScheduled
  BY DEF IInv
<1>2. QED
  BY <1>1, SpecIInv, PTL

-----------------------------------------------------------------------------
(* A completed task has content, although every UPDATE overwrites whatever  *)
(* status the row has by then.                                              *)

\* A thread that is about to report a task completed has generated its content.
ReportsAreTrue == \A th \in Threads : pc[th] = "complete" => current[th] \in warmed

ContentInv == CompletedWasWarmed /\ ReportsAreTrue

\* What every step does but the end of a warming and its report.
NothingCompletes ==
    /\ warmed' = warmed
    /\ \A id \in TaskIds : rows'[id].status = "completed" => rows[id].status = "completed"
    /\ \A th \in Threads : pc'[th] = "complete" =>
          pc[th] = "complete" /\ current'[th] = current[th]

LEMMA NothingCompletesKeeps ==
    ASSUME ContentInv, NothingCompletes
    PROVE  ContentInv'
  BY DEF ContentInv, CompletedWasWarmed, ReportsAreTrue, NothingCompletes

\* Only a report of success completes a row.
LEMMA UpdateStatus ==
    ASSUME NEW row \in Row, NEW at, NEW next
    PROVE  /\ Canceled(row).status = "canceled"
           /\ Claimed(row).status = "processing"
           /\ Settled(row, "failed", at).status = "failed"
           /\ Deferred(row, at, next).status = "deferred"
           /\ Recovered(row, at, next).status \in {"pending", "deferred"}
  BY DEF Row, Canceled, Claimed, Settled, Deferred, Recovered

\* The steps that leave the table alone report nothing as completed.
LEMMA QuietSteps ==
    ASSUME IInv, NEW th \in Threads
    PROVE  /\ \A requests \in SUBSET Fingerprints : StartGenerate(th, requests) => NothingCompletes
           /\ \A fp \in Fingerprints : EnqueueSelect(th, fp) => NothingCompletes
           /\ SkipInline(th) => NothingCompletes
           /\ ClaimTargetsSelect(th) => NothingCompletes
           /\ ClaimBacklogSelect(th) => NothingCompletes
           /\ NoSpareCapacity(th) => NothingCompletes
           /\ \A id \in TaskIds : BeginWarm(th, id) => NothingCompletes
           /\ WarmRaises(th) => NothingCompletes
           /\ RetrySelect(th) => NothingCompletes
           /\ FinishPass(th) => NothingCompletes
           /\ Invalidate(th) => NothingCompletes
           /\ Crash(th) => NothingCompletes
<1> USE DEF NothingCompletes, Goto, enqueueing, decision, batch
<1>0. pc \in [Threads -> Labels] /\ current \in [Threads -> {0} \cup Existing]
  BY DEF IInv, TypeOK
<1>1. ASSUME NEW requests \in SUBSET Fingerprints, StartGenerate(th, requests) PROVE NothingCompletes
  BY <1>0, <1>1 DEF StartGenerate
<1>2. ASSUME NEW fp \in Fingerprints, EnqueueSelect(th, fp) PROVE NothingCompletes
  BY <1>0, <1>2 DEF EnqueueSelect
<1>3. SkipInline(th) => NothingCompletes
  BY <1>0 DEF SkipInline
<1>4. ClaimTargetsSelect(th) => NothingCompletes
  BY <1>0 DEF ClaimTargetsSelect
<1>5. ClaimBacklogSelect(th) => NothingCompletes
  BY <1>0 DEF ClaimBacklogSelect
<1>6. NoSpareCapacity(th) => NothingCompletes
  BY <1>0 DEF NoSpareCapacity
<1>7. ASSUME NEW id \in TaskIds, BeginWarm(th, id) PROVE NothingCompletes
  BY <1>0, <1>7 DEF BeginWarm
<1>8. WarmRaises(th) => NothingCompletes
  BY <1>0 DEF WarmRaises
<1>9. RetrySelect(th) => NothingCompletes
  BY <1>0 DEF RetrySelect
<1>10. FinishPass(th) => NothingCompletes
  BY <1>0 DEF FinishPass
<1>11. Invalidate(th) => NothingCompletes
  BY <1>0 DEF Invalidate, CancelSelect
<1>12. Crash(th) => NothingCompletes
  BY <1>0 DEF Crash
<1>13. QED
  BY <1>1, <1>2, <1>3, <1>4, <1>5, <1>6, <1>7, <1>8, <1>9, <1>10, <1>11, <1>12

\* The sweep that opens a pass only reads.
LEMMA SweepQuiet ==
    ASSUME IInv, NEW th \in Threads
    PROVE  StartDrain(th) \/ StartInline(th) => NothingCompletes
<1>1. ASSUME NEW draining \in BOOLEAN, SweepSelect(th, draining) PROVE NothingCompletes
  <2>1. /\ UNCHANGED <<rows, warmed, current>>
        /\ \E label \in {"sweep", "backlog", "targets"} : pc' = [pc EXCEPT ![th] = label]
    BY <1>1 DEF SweepSelect, Goto, AfterSweep, batch
  <2>2. pc \in [Threads -> Labels]
    BY DEF IInv, TypeOK
  <2>3. QED
    BY <2>1, <2>2 DEF NothingCompletes
<1>2. QED
  BY <1>1 DEF StartDrain, StartInline

\* No other UPDATE completes a row, whatever it overwrites.
LEMMA UpdatesComplete ==
    ASSUME IInv, NEW th \in Threads
    PROVE  /\ \A id \in TaskIds : EnqueueInsert(th, id) => NothingCompletes
           /\ SweepWrite(th) => NothingCompletes
           /\ ClaimTargetsWrite(th) => NothingCompletes
           /\ ClaimBacklogWrite(th) => NothingCompletes
           /\ RetryWrite(th) => NothingCompletes
           /\ CancelWrite(th) => NothingCompletes
           /\ WarmSkipped(th) => NothingCompletes
           /\ \A id \in TaskIds : ProfileMissing(th, id) => NothingCompletes
<1>0. /\ pc \in [Threads -> Labels] /\ current \in [Threads -> {0} \cup Existing]
      /\ rows \in [TaskIds -> Row]
  BY DEF IInv, TypeOK
<1>a. \A id \in TaskIds :
        /\ Canceled(rows[id]).status # "completed" /\ Claimed(rows[id]).status # "completed"
        /\ \A at : Settled(rows[id], "failed", at).status # "completed"
        /\ \A at, next : /\ Deferred(rows[id], at, next).status # "completed"
                         /\ Recovered(rows[id], at, next).status # "completed"
  <2>1. ASSUME NEW id \in TaskIds, NEW at, NEW next
        PROVE  /\ Canceled(rows[id]).status # "completed" /\ Claimed(rows[id]).status # "completed"
               /\ Settled(rows[id], "failed", at).status # "completed"
               /\ Deferred(rows[id], at, next).status # "completed"
               /\ Recovered(rows[id], at, next).status # "completed"
    <3>1. rows[id] \in Row
      BY <1>0
    <3>2. QED
      BY <3>1, UpdateStatus
  <2>2. QED
    BY <2>1
<1> USE DEF NothingCompletes, Goto, enqueueing, decision, batch
<1>1. ASSUME NEW id \in TaskIds, EnqueueInsert(th, id) PROVE NothingCompletes
  BY <1>0, <1>1 DEF EnqueueInsert
<1>2. ASSUME SweepWrite(th) PROVE NothingCompletes
  <2>1. \A id \in TaskIds : rows'[id].status = "completed" => rows[id].status = "completed"
    BY <1>a, <1>2 DEF SweepWrite
  <2>2. /\ UNCHANGED <<warmed, current>>
        /\ \E label \in {"backlog", "targets"} : pc' = [pc EXCEPT ![th] = label]
    BY <1>2 DEF SweepWrite, AfterSweep
  <2>3. QED
    BY <1>0, <2>1, <2>2
<1>3. ASSUME ClaimTargetsWrite(th) PROVE NothingCompletes
  <2>1. \A id \in TaskIds : rows'[id].status = "completed" => rows[id].status = "completed"
    BY <1>a, <1>3 DEF ClaimTargetsWrite
  <2>2. QED
    BY <1>0, <1>3, <2>1 DEF ClaimTargetsWrite
<1>4. ASSUME ClaimBacklogWrite(th) PROVE NothingCompletes
  <2>1. \A id \in TaskIds : rows'[id].status = "completed" => rows[id].status = "completed"
    BY <1>a, <1>4 DEF ClaimBacklogWrite
  <2>2. QED
    BY <1>0, <1>4, <2>1 DEF ClaimBacklogWrite
<1>5. ASSUME RetryWrite(th) PROVE NothingCompletes
  <2>1. \A id \in TaskIds : rows'[id].status = "completed" => rows[id].status = "completed"
    BY <1>a, <1>5 DEF RetryWrite
  <2>2. QED
    BY <1>0, <1>5, <2>1 DEF RetryWrite
<1>6. ASSUME CancelWrite(th) PROVE NothingCompletes
  <2>1. \A id \in TaskIds : rows'[id].status = "completed" => rows[id].status = "completed"
    BY <1>a, <1>6 DEF CancelWrite
  <2>2. QED
    BY <1>0, <1>6, <2>1 DEF CancelWrite
<1>7. ASSUME WarmSkipped(th) PROVE NothingCompletes
  <2>1. current[th] \in TaskIds
    BY <1>0, <1>7 DEF WarmSkipped, IInv, TypeOK, Existing
  <2>2. QED
    BY <1>0, <1>a, <1>7, <2>1 DEF WarmSkipped
<1>8. ASSUME NEW id \in TaskIds, ProfileMissing(th, id) PROVE NothingCompletes
  BY <1>0, <1>a, <1>8 DEF ProfileMissing
<1>9. QED
  BY <1>1, <1>2, <1>3, <1>4, <1>5, <1>6, <1>7, <1>8

\* A warming that ends records its content; its report completes that row alone.
LEMMA SuccessSteps ==
    ASSUME IInv, ContentInv, NEW th \in Threads
    PROVE  WarmSucceeds(th) \/ MarkCompleted(th) => ContentInv'
<1> USE DEF ContentInv, CompletedWasWarmed, ReportsAreTrue, Goto
<1>0. /\ pc \in [Threads -> Labels] /\ current \in [Threads -> {0} \cup Existing]
      /\ rows \in [TaskIds -> Row]
  BY DEF IInv, TypeOK
<1>1. ASSUME WarmSucceeds(th) PROVE ContentInv'
  BY <1>0, <1>1 DEF WarmSucceeds, batch
<1>2. ASSUME MarkCompleted(th) PROVE ContentInv'
  <2>1. current[th] \in warmed
    BY <1>2 DEF MarkCompleted
  <2>2. \A id \in TaskIds : id # current[th] => rows'[id] = rows[id]
    BY <1>0, <1>2 DEF MarkCompleted
  <2>3. warmed' = warmed /\ pc' = [pc EXCEPT ![th] = "work"]
        /\ current' = [current EXCEPT ![th] = 0]
    BY <1>2 DEF MarkCompleted
  <2>4. QED
    BY <1>0, <2>1, <2>2, <2>3
<1>3. QED
  BY <1>1, <1>2

\* ContentInv is inductive relative to IInv.
LEMMA ContentStep == IInv /\ ContentInv /\ [Next]_vars => ContentInv'
<1> SUFFICES ASSUME IInv, ContentInv, [Next]_vars PROVE ContentInv'
  OBVIOUS
<1>1. CASE Tick \/ UNCHANGED vars
  BY <1>1, NothingCompletesKeeps DEF Tick, vars, batch, NothingCompletes
<1>2. ASSUME NEW th \in Threads,
             \/ \E requests \in SUBSET Fingerprints : StartGenerate(th, requests)
             \/ StartDrain(th) \/ Progress(th) \/ Invalidate(th) \/ Crash(th)
      PROVE  ContentInv'
  <2>1. CASE WarmSucceeds(th) \/ MarkCompleted(th)
    BY <2>1, SuccessSteps
  <2>2. CASE ~(WarmSucceeds(th) \/ MarkCompleted(th))
    <3>1. NothingCompletes
      BY <1>2, <2>2, QuietSteps, SweepQuiet, UpdatesComplete DEF Progress
    <3>2. QED
      BY <3>1, NothingCompletesKeeps
  <2>3. QED
    BY <2>1, <2>2
<1>3. QED
  BY <1>1, <1>2 DEF Next

\* A completed row has its content: no overwrite by a late thread, no sweep and no
\* death makes a task look warmed whose generation never ran.
THEOREM CompletedHasContent == Spec => []CompletedWasWarmed
<1>1. Init => ContentInv
  BY DEF Init, ContentInv, CompletedWasWarmed, ReportsAreTrue, NoRow
<1>2. ContentInv => CompletedWasWarmed
  BY DEF ContentInv
<1>3. QED
  BY <1>1, <1>2, ContentStep, SpecIInv, PTL DEF Spec

-----------------------------------------------------------------------------
(***************************************************************************)
(* How often a task is claimed: what its attempts count for any number of  *)
(* threads, by how much threads that race may exceed the cap of its class, *)
(* and that one thread alone never does, because served one request at a   *)
(* time the queue implements WarmLifecycle.                                *)
(***************************************************************************)
Holders(id) == {th \in Threads : Holds(th, id)}

\* What a thread has decided to claim of the backlog it does not cancel as well.
ClaimsApart ==
    \A th \in Threads : pc[th] = "claimBacklog" => cancelIds[th] \cap claimIds[th] = {}

ClaimsInv == ClaimsAreCounted /\ ClaimsApart

\* No thread holds a task that is not in the table.
LEMMA HeldExist ==
    ASSUME IInv, NEW th \in Threads, NEW id \in TaskIds, Holds(th, id)
    PROVE  id \in Existing
  BY DEF IInv, TypeOK, Holds, Remaining, TaskIds

\* Each task is claimed by th at most, and paid for.
CountedStep(th) ==
    \A id \in TaskIds :
        \/ /\ Holders(id)' \subseteq Holders(id)
           /\ rows'[id].attempts = rows[id].attempts
        \/ /\ Holders(id)' \subseteq Holders(id) \cup {th}
           /\ rows'[id].attempts = rows[id].attempts + 1
        \/ Holders(id)' = {}

LEMMA CountedStepKeeps ==
    ASSUME IInv, IInv', ClaimsAreCounted, NEW th \in Threads, CountedStep(th)
    PROVE  ClaimsAreCounted'
<1> SUFFICES ASSUME NEW id \in TaskIds
             PROVE  Cardinality(Holders(id)') <= rows'[id].attempts
  BY DEF ClaimsAreCounted, Holders
<1>1. /\ IsFiniteSet(Holders(id)) /\ IsFiniteSet(Holders(id)')
      /\ Cardinality(Holders(id)) \in Nat /\ Cardinality(Holders(id)') \in Nat
  <2>1. Holders(id) \in SUBSET Threads /\ Holders(id)' \in SUBSET Threads
    BY DEF Holders
  <2>2. IsFiniteSet(Holders(id)) /\ IsFiniteSet(Holders(id)')
    BY <2>1, WarmQueueAssumption, FS_Subset
  <2>3. QED
    BY <2>2, FS_CardinalityType
<1>2. rows[id].attempts \in Nat /\ rows'[id].attempts \in Nat
  BY DEF IInv, TypeOK, Row
<1>3. Cardinality(Holders(id)) <= rows[id].attempts
  BY DEF ClaimsAreCounted, Holders
<1>4. CASE /\ Holders(id)' \subseteq Holders(id)
           /\ rows'[id].attempts = rows[id].attempts
  BY <1>1, <1>2, <1>3, <1>4, FS_Subset
<1>5. CASE /\ Holders(id)' \subseteq Holders(id) \cup {th}
           /\ rows'[id].attempts = rows[id].attempts + 1
  <2>1. /\ IsFiniteSet(Holders(id) \cup {th})
        /\ Cardinality(Holders(id) \cup {th}) <= Cardinality(Holders(id)) + 1
        /\ Cardinality(Holders(id) \cup {th}) \in Nat
    <3>1. /\ IsFiniteSet(Holders(id) \cup {th})
          /\ Cardinality(Holders(id) \cup {th}) =
                IF th \in Holders(id) THEN Cardinality(Holders(id)) ELSE Cardinality(Holders(id)) + 1
      BY <1>1, FS_AddElement
    <3>2. QED
      BY <1>1, <3>1
  <2>2. Cardinality(Holders(id)') <= Cardinality(Holders(id) \cup {th})
    BY <2>1, <1>5, FS_Subset
  <2>3. QED
    BY <1>1, <1>2, <1>3, <1>5, <2>1, <2>2
<1>6. CASE Holders(id)' = {}
  BY <1>2, <1>6, FS_EmptySet
<1>7. QED
  BY <1>4, <1>5, <1>6 DEF CountedStep

\* Only claims change how often a row has been claimed.
LEMMA UpdateAttempts ==
    ASSUME NEW row \in Row, NEW at, NEW next, NEW status
    PROVE  /\ Canceled(row).attempts = row.attempts
           /\ Claimed(row).attempts = row.attempts + 1
           /\ Settled(row, status, at).attempts = row.attempts
           /\ Deferred(row, at, next).attempts = row.attempts
           /\ Recovered(row, at, next).attempts = row.attempts
  BY DEF Row, Canceled, Claimed, Settled, Deferred, Recovered

\* A step that claims nothing.
NothingClaimed ==
    /\ \A t \in Threads, id \in TaskIds : Holds(t, id)' => Holds(t, id)
    /\ \A id \in TaskIds : rows'[id].attempts = rows[id].attempts

LEMMA NothingClaimedCounts == NothingClaimed => \A th \in Threads : CountedStep(th)
  BY DEF NothingClaimed, CountedStep, Holders

\* What a thread has decided it keeps until it writes or decides anew.
ApartKept(th) ==
    /\ \A t \in Threads \ {th} :
          pc'[t] = pc[t] /\ cancelIds'[t] = cancelIds[t] /\ claimIds'[t] = claimIds[t]
    /\ pc'[th] = "claimBacklog" => cancelIds'[th] \cap claimIds'[th] = {}

LEMMA ApartStays ==
    ASSUME ClaimsApart, NEW th \in Threads, ApartKept(th)
    PROVE  ClaimsApart'
  BY DEF ClaimsApart, ApartKept

\* The steps that decide, or do nothing about the table.
LEMMA DecidingClaimsNothing ==
    ASSUME IInv, NEW th \in Threads
    PROVE  /\ \A requests \in SUBSET Fingerprints :
                StartGenerate(th, requests) => NothingClaimed /\ ApartKept(th)
           /\ \A fp \in Fingerprints : EnqueueSelect(th, fp) => NothingClaimed /\ ApartKept(th)
           /\ StartDrain(th) \/ StartInline(th) => NothingClaimed /\ ApartKept(th)
           /\ SkipInline(th) => NothingClaimed /\ ApartKept(th)
           /\ ClaimTargetsSelect(th) => NothingClaimed /\ ApartKept(th)
           /\ ClaimBacklogSelect(th) => NothingClaimed /\ ApartKept(th)
           /\ NoSpareCapacity(th) => NothingClaimed /\ ApartKept(th)
           /\ WarmSucceeds(th) => NothingClaimed /\ ApartKept(th)
           /\ WarmRaises(th) => NothingClaimed /\ ApartKept(th)
           /\ RetrySelect(th) => NothingClaimed /\ ApartKept(th)
           /\ FinishPass(th) => NothingClaimed /\ ApartKept(th)
           /\ Invalidate(th) => NothingClaimed /\ ApartKept(th)
<1>0. /\ pc \in [Threads -> Labels] /\ cancelIds \in [Threads -> SUBSET Existing]
      /\ claimIds \in [Threads -> SUBSET Existing]
  BY DEF IInv, TypeOK
<1>a. UNCHANGED <<rows, batch>> => NothingClaimed
  BY DEF NothingClaimed, Holds, Remaining, batch
<1> USE DEF ApartKept, Goto, enqueueing, decision
<1>1. ASSUME NEW requests \in SUBSET Fingerprints, StartGenerate(th, requests)
      PROVE  NothingClaimed /\ ApartKept(th)
  BY <1>0, <1>a, <1>1 DEF StartGenerate
<1>2. ASSUME NEW fp \in Fingerprints, EnqueueSelect(th, fp)
      PROVE  NothingClaimed /\ ApartKept(th)
  BY <1>0, <1>a, <1>2 DEF EnqueueSelect
<1>3. ASSUME StartDrain(th) \/ StartInline(th) PROVE NothingClaimed /\ ApartKept(th)
  <2>1. PICK draining \in BOOLEAN : SweepSelect(th, draining)
    BY <1>3 DEF StartDrain, StartInline
  <2>2. /\ UNCHANGED <<rows, claimIds, batch>>
        /\ cancelIds' = [cancelIds EXCEPT ![th] = SweepExpired]
        /\ \E label \in {"sweep", "backlog", "targets"} : pc' = [pc EXCEPT ![th] = label]
    BY <2>1 DEF SweepSelect, AfterSweep
  <2>3. QED
    BY <1>0, <1>a, <2>2
<1>4. SkipInline(th) => NothingClaimed /\ ApartKept(th)
  BY <1>0, <1>a DEF SkipInline
<1>5. ClaimTargetsSelect(th) => NothingClaimed /\ ApartKept(th)
  BY <1>0, <1>a DEF ClaimTargetsSelect
<1>6. ASSUME ClaimBacklogSelect(th) PROVE NothingClaimed /\ ApartKept(th)
  <2>1. BacklogExpired \cap SelectedIds(Capacity(th)) = {}
    BY DEF SelectedIds, BacklogEligible
  <2>2. QED
    BY <1>0, <1>a, <1>6, <2>1 DEF ClaimBacklogSelect
<1>7. NoSpareCapacity(th) => NothingClaimed /\ ApartKept(th)
  BY <1>0, <1>a DEF NoSpareCapacity
<1>8. WarmSucceeds(th) => NothingClaimed /\ ApartKept(th)
  BY <1>0, <1>a DEF WarmSucceeds
<1>9. WarmRaises(th) => NothingClaimed /\ ApartKept(th)
  BY <1>0, <1>a DEF WarmRaises
<1>10. RetrySelect(th) => NothingClaimed /\ ApartKept(th)
  BY <1>0, <1>a DEF RetrySelect
<1>11. FinishPass(th) => NothingClaimed /\ ApartKept(th)
  BY <1>0, <1>a DEF FinishPass
<1>12. Invalidate(th) => NothingClaimed /\ ApartKept(th)
  BY <1>0, <1>a DEF Invalidate, CancelSelect
<1>13. QED
  BY <1>1, <1>2, <1>3, <1>4, <1>5, <1>6, <1>7, <1>8, <1>9, <1>10, <1>11, <1>12

\* What th holds after the step it held before, or it is nobody's.
LEMMA HoldersOfOne ==
    ASSUME NEW th \in Threads,
           \A t \in Threads \ {th} : /\ targeted'[t] = targeted[t] /\ current'[t] = current[t]
                                     /\ supplemental'[t] = supplemental[t],
           \A id \in TaskIds : Holds(th, id)' => Holds(th, id)
    PROVE  \A t \in Threads, id \in TaskIds : Holds(t, id)' => Holds(t, id)
  BY DEF Holds, Remaining

\* The steps that let go of tasks, and those that rewrite rows but do not claim.
LEMMA WritingClaimsNothing ==
    ASSUME IInv, NEW th \in Threads
    PROVE  /\ \A id \in TaskIds : BeginWarm(th, id) => NothingClaimed /\ ApartKept(th)
           /\ \A id \in TaskIds : ProfileMissing(th, id) => NothingClaimed /\ ApartKept(th)
           /\ Crash(th) => NothingClaimed /\ ApartKept(th)
           /\ SweepWrite(th) => NothingClaimed /\ ApartKept(th)
           /\ MarkCompleted(th) \/ WarmSkipped(th) => NothingClaimed /\ ApartKept(th)
           /\ RetryWrite(th) => NothingClaimed /\ ApartKept(th)
           /\ CancelWrite(th) => NothingClaimed /\ ApartKept(th)
<1>0. /\ pc \in [Threads -> Labels] /\ cancelIds \in [Threads -> SUBSET Existing]
      /\ claimIds \in [Threads -> SUBSET Existing]
      /\ targeted \in [Threads -> SUBSET Existing]
      /\ supplemental \in [Threads -> SUBSET Existing]
      /\ current \in [Threads -> {0} \cup Existing] /\ 0 \notin TaskIds
      /\ rows \in [TaskIds -> Row] /\ Existing \subseteq TaskIds
  BY DEF IInv, TypeOK, TaskIds, Existing
<1>u. \A id \in TaskIds :
        /\ Canceled(rows[id]).attempts = rows[id].attempts
        /\ \A status, at : Settled(rows[id], status, at).attempts = rows[id].attempts
        /\ \A at, next : /\ Deferred(rows[id], at, next).attempts = rows[id].attempts
                         /\ Recovered(rows[id], at, next).attempts = rows[id].attempts
  <2>1. ASSUME NEW id \in TaskIds, NEW at, NEW next, NEW status
        PROVE  /\ Canceled(rows[id]).attempts = rows[id].attempts
               /\ Settled(rows[id], status, at).attempts = rows[id].attempts
               /\ Deferred(rows[id], at, next).attempts = rows[id].attempts
               /\ Recovered(rows[id], at, next).attempts = rows[id].attempts
    <3>1. rows[id] \in Row
      BY <1>0
    <3>2. QED
      BY <3>1, UpdateAttempts
  <2>2. QED
    BY <2>1
<1> USE DEF ApartKept, Goto, enqueueing, decision, batch
<1>1. ASSUME NEW id \in TaskIds, BeginWarm(th, id) PROVE NothingClaimed /\ ApartKept(th)
  <2>1. ApartKept(th) /\ UNCHANGED rows
    BY <1>0, <1>1 DEF BeginWarm
  <2>2. \A t \in Threads \ {th} : /\ targeted'[t] = targeted[t] /\ current'[t] = current[t]
                                  /\ supplemental'[t] = supplemental[t]
    BY <1>0, <1>1 DEF BeginWarm, Take
  <2>3. \A i \in TaskIds : Holds(th, i)' => Holds(th, i)
    BY <1>0, <1>1 DEF BeginWarm, Take, Holds, Remaining
  <2>4. QED
    BY <2>1, <2>2, <2>3, HoldersOfOne DEF NothingClaimed
<1>2. ASSUME NEW id \in TaskIds, ProfileMissing(th, id) PROVE NothingClaimed /\ ApartKept(th)
  <2>1. ApartKept(th)
    <3>1. UNCHANGED <<pc, cancelIds, claimIds>>
      BY <1>2 DEF ProfileMissing
    <3>2. pc[th] # "claimBacklog"
      BY <1>2 DEF ProfileMissing
    <3>3. QED
      BY <3>1, <3>2
  <2>2. \A t \in Threads \ {th} : /\ targeted'[t] = targeted[t] /\ current'[t] = current[t]
                                  /\ supplemental'[t] = supplemental[t]
    BY <1>0, <1>2 DEF ProfileMissing, Take
  <2>3. \A i \in TaskIds : Holds(th, i)' => Holds(th, i)
    BY <1>0, <1>2 DEF ProfileMissing, Take, Holds, Remaining
  <2>4. \A i \in TaskIds : rows'[i].attempts = rows[i].attempts
    BY <1>0, <1>u, <1>2 DEF ProfileMissing
  <2>5. QED
    BY <2>1, <2>2, <2>3, <2>4, HoldersOfOne DEF NothingClaimed
<1>3. ASSUME Crash(th) PROVE NothingClaimed /\ ApartKept(th)
  <2>1. /\ targeted' = [targeted EXCEPT ![th] = {}] /\ UNCHANGED rows
        /\ supplemental' = [supplemental EXCEPT ![th] = {}]
        /\ current' = [current EXCEPT ![th] = 0]
    BY <1>3 DEF Crash
  <2>2. NothingClaimed
    BY <1>0, <2>1 DEF NothingClaimed, Holds, Remaining
  <2>3. ApartKept(th)
    BY <1>0, <1>3 DEF Crash
  <2>4. QED
    BY <2>2, <2>3
<1>4. ASSUME SweepWrite(th) PROVE NothingClaimed /\ ApartKept(th)
  <2>1. UNCHANGED <<targeted, supplemental, current, claimIds>>
        /\ cancelIds' = [cancelIds EXCEPT ![th] = {}]
        /\ \E label \in {"backlog", "targets"} : pc' = [pc EXCEPT ![th] = label]
    BY <1>4 DEF SweepWrite, AfterSweep
  <2>2. ASSUME NEW i \in TaskIds PROVE rows'[i].attempts = rows[i].attempts
    <3>1. \/ rows'[i] = Canceled(rows[i]) \/ rows'[i] = rows[i]
          \/ \E at : rows'[i] = Settled(rows[i], "failed", at)
          \/ \E at, next : rows'[i] = Recovered(rows[i], at, next)
      BY <1>4 DEF SweepWrite
    <3>2. QED
      BY <1>u, <3>1
  <2>3. QED
    BY <1>0, <2>1, <2>2 DEF NothingClaimed, Holds, Remaining
<1>5. ASSUME MarkCompleted(th) \/ WarmSkipped(th) PROVE NothingClaimed /\ ApartKept(th)
  <2>1. /\ current' = [current EXCEPT ![th] = 0] /\ pc' = [pc EXCEPT ![th] = "work"]
        /\ UNCHANGED <<targeted, supplemental, claimIds, cancelIds>>
    BY <1>5 DEF MarkCompleted, WarmSkipped
  <2>2. \A i \in TaskIds : rows'[i].attempts = rows[i].attempts
    <3>1. \E status : rows' = [rows EXCEPT ![current[th]] = Settled(@, status, now)]
      BY <1>5 DEF MarkCompleted, WarmSkipped
    <3>2. QED
      BY <1>0, <1>u, <3>1
  <2>3. QED
    BY <1>0, <2>1, <2>2 DEF NothingClaimed, Holds, Remaining
<1>6. ASSUME RetryWrite(th) PROVE NothingClaimed /\ ApartKept(th)
  <2>1. /\ current' = [current EXCEPT ![th] = 0] /\ pc' = [pc EXCEPT ![th] = "work"]
        /\ UNCHANGED <<targeted, supplemental, claimIds, cancelIds>>
    BY <1>6 DEF RetryWrite
  <2>2. ASSUME NEW i \in TaskIds PROVE rows'[i].attempts = rows[i].attempts
    <3>1. \/ rows'[i] = rows[i] \/ \E at : rows'[i] = Settled(rows[i], "failed", at)
          \/ \E at, next : rows'[i] = Deferred(rows[i], at, next)
      BY <1>6 DEF RetryWrite
    <3>2. QED
      BY <1>u, <3>1
  <2>3. QED
    BY <1>0, <2>1, <2>2 DEF NothingClaimed, Holds, Remaining
<1>7. ASSUME CancelWrite(th) PROVE NothingClaimed /\ ApartKept(th)
  <2>1. /\ cancelIds' = [cancelIds EXCEPT ![th] = {}] /\ pc' = [pc EXCEPT ![th] = "idle"]
        /\ UNCHANGED <<targeted, supplemental, current, claimIds>>
    BY <1>7 DEF CancelWrite
  <2>2. \A i \in TaskIds : rows'[i].attempts = rows[i].attempts
    BY <1>u, <1>7 DEF CancelWrite
  <2>3. QED
    BY <1>0, <2>1, <2>2 DEF NothingClaimed, Holds, Remaining
<1>8. QED
  BY <1>1, <1>2, <1>3, <1>4, <1>5, <1>6, <1>7

\* A claim is paid for on every row it claims, whoever holds the row already.
LEMMA ClaimingPays ==
    ASSUME IInv, ClaimsApart, NEW th \in Threads
    PROVE  /\ ClaimTargetsWrite(th) => CountedStep(th) /\ ApartKept(th)
           /\ ClaimBacklogWrite(th) => CountedStep(th) /\ ApartKept(th)
           /\ \A id \in TaskIds : EnqueueInsert(th, id) => CountedStep(th) /\ ApartKept(th)
<1>0. /\ pc \in [Threads -> Labels] /\ cancelIds \in [Threads -> SUBSET Existing]
      /\ claimIds \in [Threads -> SUBSET Existing]
      /\ targeted \in [Threads -> SUBSET Existing]
      /\ supplemental \in [Threads -> SUBSET Existing]
      /\ current \in [Threads -> {0} \cup Existing] /\ 0 \notin TaskIds
      /\ rows \in [TaskIds -> Row] /\ Existing \subseteq TaskIds
  BY DEF IInv, TypeOK, TaskIds, Existing
<1>u. \A id \in TaskIds : /\ Canceled(rows[id]).attempts = rows[id].attempts
                          /\ Claimed(rows[id]).attempts = rows[id].attempts + 1
  <2>1. ASSUME NEW id \in TaskIds
        PROVE  /\ Canceled(rows[id]).attempts = rows[id].attempts
               /\ Claimed(rows[id]).attempts = rows[id].attempts + 1
    <3>1. rows[id] \in Row
      BY <1>0
    <3>2. QED
      BY <3>1, UpdateAttempts
  <2>2. QED
    BY <2>1
<1>1. ASSUME ClaimTargetsWrite(th) PROVE CountedStep(th) /\ ApartKept(th)
  <2>1. /\ targeted' = [targeted EXCEPT ![th] = claimIds[th]]
        /\ claimIds' = [claimIds EXCEPT ![th] = {}] /\ pc' = [pc EXCEPT ![th] = "backlog"]
        /\ UNCHANGED <<supplemental, current, cancelIds>>
        /\ rows' = [id \in TaskIds |->
                      IF id \in claimIds[th] THEN Claimed(rows[id]) ELSE rows[id]]
    BY <1>1 DEF ClaimTargetsWrite, Goto
  <2>2. ASSUME NEW id \in TaskIds
        PROVE  \/ /\ Holders(id)' \subseteq Holders(id)
                  /\ rows'[id].attempts = rows[id].attempts
               \/ /\ Holders(id)' \subseteq Holders(id) \cup {th}
                  /\ rows'[id].attempts = rows[id].attempts + 1
    <3>1. Holders(id)' \subseteq Holders(id) \cup {th}
      BY <1>0, <2>1 DEF Holders, Holds, Remaining
    <3>2. CASE id \in claimIds[th]
      BY <1>u, <2>1, <3>1, <3>2
    <3>3. CASE id \notin claimIds[th]
      <4>1. Holds(th, id)' => Holds(th, id)
        BY <1>0, <2>1, <3>3 DEF Holds, Remaining
      <4>2. QED
        BY <2>1, <3>1, <3>3, <4>1 DEF Holders
    <3>4. QED
      BY <3>2, <3>3
  <2>3. ApartKept(th)
    BY <1>0, <2>1 DEF ApartKept
  <2>4. QED
    BY <2>2, <2>3 DEF CountedStep
<1>2. ASSUME ClaimBacklogWrite(th) PROVE CountedStep(th) /\ ApartKept(th)
  <2>1. /\ supplemental' = [supplemental EXCEPT ![th] = claimIds[th]]
        /\ claimIds' = [claimIds EXCEPT ![th] = {}] /\ pc' = [pc EXCEPT ![th] = "work"]
        /\ cancelIds' = [cancelIds EXCEPT ![th] = {}]
        /\ UNCHANGED <<targeted, current>>
        /\ rows' = [id \in TaskIds |-> IF id \in cancelIds[th] THEN Canceled(rows[id])
                                       ELSE IF id \in claimIds[th] THEN Claimed(rows[id])
                                       ELSE rows[id]]
    BY <1>2 DEF ClaimBacklogWrite, Goto
  <2>2. cancelIds[th] \cap claimIds[th] = {}
    BY <1>2 DEF ClaimBacklogWrite, ClaimsApart
  <2>3. ASSUME NEW id \in TaskIds
        PROVE  \/ /\ Holders(id)' \subseteq Holders(id)
                  /\ rows'[id].attempts = rows[id].attempts
               \/ /\ Holders(id)' \subseteq Holders(id) \cup {th}
                  /\ rows'[id].attempts = rows[id].attempts + 1
    <3>1. Holders(id)' \subseteq Holders(id) \cup {th}
      BY <1>0, <2>1 DEF Holders, Holds, Remaining
    <3>2. CASE id \in claimIds[th]
      BY <1>u, <2>1, <2>2, <3>1, <3>2
    <3>3. CASE id \notin claimIds[th]
      <4>1. Holds(th, id)' => Holds(th, id)
        BY <1>0, <2>1, <3>3 DEF Holds, Remaining
      <4>2. rows'[id].attempts = rows[id].attempts
        BY <1>u, <2>1, <3>3
      <4>3. QED
        BY <3>1, <4>1, <4>2 DEF Holders
    <3>4. QED
      BY <3>2, <3>3
  <2>4. ApartKept(th)
    BY <1>0, <2>1 DEF ApartKept
  <2>5. QED
    BY <2>3, <2>4 DEF CountedStep
<1>3. ASSUME NEW id \in TaskIds, EnqueueInsert(th, id) PROVE CountedStep(th) /\ ApartKept(th)
  <2>1. UNCHANGED <<targeted, supplemental, current, cancelIds, claimIds>>
        /\ id \notin Existing /\ pc' = [pc EXCEPT ![th] = "enqueue"]
        /\ \A i \in TaskIds \ {id} : rows'[i] = rows[i]
    BY <1>0, <1>3 DEF EnqueueInsert, decision, batch, Goto
  <2>2. \A i \in TaskIds : Holders(i)' = Holders(i)
    BY <2>1 DEF Holders, Holds, Remaining
  <2>3. Holders(id) = {}
    BY <2>1, HeldExist DEF Holders
  <2>4. CountedStep(th)
    BY <2>1, <2>2, <2>3 DEF CountedStep
  <2>5. QED
    BY <1>0, <2>1, <2>4 DEF ApartKept
<1>4. QED
  BY <1>1, <1>2, <1>3

\* ClaimsInv is inductive relative to IInv.
LEMMA ClaimsStep == IInv /\ ClaimsInv /\ [Next]_vars => ClaimsInv'
<1> SUFFICES ASSUME IInv, ClaimsInv, [Next]_vars PROVE ClaimsInv'
  OBVIOUS
<1>0. IInv'
  BY NextStep
<1>1. CASE Tick \/ UNCHANGED vars
  BY <1>1 DEF Tick, vars, batch, decision, enqueueing, ClaimsInv, ClaimsAreCounted, ClaimsApart,
     Holds, Remaining
<1>2. ASSUME NEW th \in Threads,
             \/ \E requests \in SUBSET Fingerprints : StartGenerate(th, requests)
             \/ StartDrain(th) \/ Progress(th) \/ Invalidate(th) \/ Crash(th)
      PROVE  ClaimsInv'
  <2>1. CountedStep(th) /\ ApartKept(th)
    BY <1>2, DecidingClaimsNothing, WritingClaimsNothing, ClaimingPays, NothingClaimedCounts
       DEF Progress, ClaimsInv
  <2>2. QED
    BY <1>0, <2>1, CountedStepKeeps, ApartStays DEF ClaimsInv
<1>3. QED
  BY <1>1, <1>2 DEF Next

LEMMA InitClaimsInv == Init => ClaimsInv
<1> SUFFICES ASSUME Init PROVE ClaimsInv
  OBVIOUS
<1>1. \A id \in TaskIds : Holders(id) = {} /\ rows[id].attempts = 0
  BY DEF Init, Holders, Holds, Remaining, TaskIds, NoRow
<1>2. ClaimsAreCounted
  BY <1>1, FS_EmptySet DEF ClaimsAreCounted, Holders
<1>3. ClaimsApart
  BY DEF Init, ClaimsApart
<1>4. QED
  BY <1>2, <1>3 DEF ClaimsInv

\* However many threads claim the same row, attempt_count is never below the
\* number of threads that still hold it: no claim goes unpaid, no late write of
\* another thread takes one back.
THEOREM ClaimsCounted == Spec => []ClaimsAreCounted
<1>1. ClaimsInv => ClaimsAreCounted
  BY DEF ClaimsInv
<1>2. QED
  BY <1>1, InitClaimsInv, ClaimsStep, SpecIInv, PTL DEF Spec

-----------------------------------------------------------------------------
(* The cap.  Once a row has been claimed as often as its class allows, what  *)
(* threads decided before can still take effect: a thread that has decided   *)
(* to requeue the row gives every thread one more chance to claim it.        *)

N == Cardinality(Threads)
Deciders(id) == {th \in Threads : id \in DOMAIN retryAt[th]}
Claimers(id) == {th \in Threads : id \in claimIds[th]}
Waiting(id) == rows[id].status \in {"pending", "deferred"}
Cap(id) == RetryCap(ClassOf(rows[id]))

\* How often a row can still be claimed on what has been decided.
Chances(id) ==
    N * Cardinality(Deciders(id)) + IF Waiting(id) THEN N ELSE Cardinality(Claimers(id))

CapKept(id) ==
    rows[id].attempts < Cap(id) \/ rows[id].attempts + Chances(id) <= Cap(id) + N * (N - 1)

\* A thread is about to requeue or about to claim, never both.
DecisionsApart ==
    \A th \in Threads :
        /\ DOMAIN retryAt[th] # {} => pc[th] \in {"sweep", "retryWrite"}
        /\ claimIds[th] # {} => pc[th] \in {"claimTargets", "claimBacklog"}

CapInv == DecisionsApart /\ \A id \in Existing : CapKept(id)

\* What a step of th may do to a row that is there, by what it does to the row's
\* attempts, to whether it waits, and to who has decided about it.
Leaves(id) ==
    /\ rows'[id].attempts = rows[id].attempts
    /\ Deciders(id)' \subseteq Deciders(id)
    /\ Waiting(id)' => Waiting(id)
    /\ Waiting(id) \/ Claimers(id)' \subseteq Claimers(id)
UnderCap(id) == rows'[id].attempts = rows[id].attempts /\ rows[id].attempts < Cap(id)
Requeues(th, id) ==
    /\ rows'[id].attempts = rows[id].attempts
    /\ th \in Deciders(id) /\ Deciders(id)' \subseteq Deciders(id) \ {th}
    /\ Claimers(id)' \subseteq Claimers(id)
Claims(th, id) ==
    /\ rows'[id].attempts = rows[id].attempts + 1
    /\ th \in Claimers(id) /\ Claimers(id)' \subseteq Claimers(id) \ {th}
    /\ th \notin Deciders(id) /\ Deciders(id)' \subseteq Deciders(id)
    /\ ~Waiting(id)'

CapStep(th) ==
    /\ \A id \in Existing : /\ id \in Existing' /\ rows'[id].fp = rows[id].fp
                            /\ Leaves(id) \/ UnderCap(id) \/ Requeues(th, id) \/ Claims(th, id)
    /\ \A id \in Existing' \ Existing : rows'[id].attempts = 0

LEMMA CapType ==
    ASSUME IInv, NEW id \in Existing
    PROVE  Cap(id) \in Nat \ {0} /\ rows[id].attempts \in Nat
  BY WarmQueueAssumption DEF IInv, TypeOK, Existing, Row, ClassOf, Cap, RetryCap

LEMMA ThreadSets ==
    ASSUME NEW S, S \subseteq Threads
    PROVE  IsFiniteSet(S) /\ Cardinality(S) \in Nat /\ Cardinality(S) <= N /\ N \in Nat
<1>1. IsFiniteSet(S) /\ Cardinality(S) <= N
  BY WarmQueueAssumption, FS_Subset DEF N
<1>2. QED
  BY <1>1, WarmQueueAssumption, FS_CardinalityType DEF N

\* What n threads, each with n chances, come to when one of them has just claimed.
LEMMA ChancesLeft ==
    ASSUME NEW n \in Nat, NEW r \in Nat, NEW c \in Nat, r + c <= n - 1
    PROVE  n * r + c <= n * (n - 1)
<1>1. PICK d \in Nat : n - 1 = r + d /\ c <= d
  <2>1. n - 1 - r \in Nat /\ n - 1 = r + (n - 1 - r) /\ c <= n - 1 - r
    OBVIOUS
  <2>2. QED
    BY <2>1
<1>2. n * (r + d) = n * r + n * d
  OBVIOUS
<1>3. d <= n * d
  <2>1. CASE d = 0
    BY <2>1
  <2>2. CASE d > 0
    <3>1. n >= 1
      BY <1>1
    <3>2. QED
      BY <3>1, <2>2
  <2>3. QED
    BY <2>1, <2>2
<1>4. n * r \in Nat /\ n * d \in Nat
  OBVIOUS
<1>5. QED
  BY <1>1, <1>2, <1>3, <1>4

LEMMA ProductOrder ==
    ASSUME NEW n \in Nat, NEW r \in Nat, NEW s \in Nat
    PROVE  /\ r <= s => n * r <= n * s
           /\ r + 1 <= s => n * r + n <= n * s
           /\ n * r \in Nat /\ n * s \in Nat
<1>1. r <= s => n * r <= n * s
  OBVIOUS
<1>2. r + 1 <= s => n * (r + 1) <= n * s
  OBVIOUS
<1>3. n * (r + 1) = n * r + n
  OBVIOUS
<1>4. QED
  BY <1>1, <1>2, <1>3

\* However a step changes a row, it leaves it no more chances than it had.
LEMMA RowKept ==
    ASSUME IInv, IInv', DecisionsApart, NEW th \in Threads, NEW id \in Existing, id \in Existing',
           rows'[id].fp = rows[id].fp, CapKept(id),
           Leaves(id) \/ UnderCap(id) \/ Requeues(th, id) \/ Claims(th, id)
    PROVE  CapKept(id)'
<1> DEFINE r == Cardinality(Deciders(id))
           c == Cardinality(Claimers(id))
           s == Cardinality(Deciders(id)')
           d == Cardinality(Claimers(id)')
           a == rows[id].attempts
           b == rows'[id].attempts
           cap == Cap(id)
<1>1. /\ Deciders(id) \subseteq Threads /\ Claimers(id) \subseteq Threads
      /\ Deciders(id)' \subseteq Threads /\ Claimers(id)' \subseteq Threads
  BY DEF Deciders, Claimers
<1>2. /\ r \in Nat /\ c \in Nat /\ s \in Nat /\ d \in Nat /\ N \in Nat
      /\ c <= N /\ d <= N /\ N >= 1
      /\ IsFiniteSet(Deciders(id)) /\ IsFiniteSet(Claimers(id))
  <2>1. \A S : S \subseteq Threads =>
          IsFiniteSet(S) /\ Cardinality(S) \in Nat /\ Cardinality(S) <= N /\ N \in Nat
    BY ThreadSets
  <2>2. Cardinality({th}) = 1
    BY FS_Singleton
  <2>3. {th} \subseteq Threads
    OBVIOUS
  <2>4. N >= 1
    BY <2>1, <2>2, <2>3
  <2>5. QED
    BY <1>1, <2>1, <2>4
<1>3. a \in Nat /\ b \in Nat /\ cap \in Nat \ {0} /\ Cap(id)' = cap
  BY CapType DEF IInv, TypeOK, Row, Existing, Cap, ClassOf
<1>4. a < cap \/ a + N * r + (IF Waiting(id) THEN N ELSE c) <= cap + N * (N - 1)
  <2>1. N * r \in Nat
    BY <1>2
  <2>2. QED
    BY <1>2, <1>3, <2>1 DEF CapKept, Chances
<1>5. SUFFICES b < cap \/ b + N * s + (IF Waiting(id)' THEN N ELSE d) <= cap + N * (N - 1)
  <2>1. N * s \in Nat
    BY <1>2
  <2>2. N' = N
    BY DEF N
  <2>3. CapKept(id)' <=> (b < cap \/ b + (N * s + (IF Waiting(id)' THEN N ELSE d)) <= cap + N * (N - 1))
    BY <1>3, <2>2 DEF CapKept, Chances
  <2>4. QED
    BY <1>2, <1>3, <2>1, <2>3
<1>6. /\ \A T : T \subseteq Deciders(id) => Cardinality(T) <= r
      /\ \A T : T \subseteq Claimers(id) => Cardinality(T) <= c
  BY <1>2, FS_Subset
<1>7. /\ th \in Deciders(id) => Cardinality(Deciders(id) \ {th}) = r - 1
      /\ th \in Claimers(id) => Cardinality(Claimers(id) \ {th}) = c - 1
      /\ IsFiniteSet(Deciders(id) \ {th}) /\ IsFiniteSet(Claimers(id) \ {th})
  BY <1>2, FS_RemoveElement
<1>8. CASE Leaves(id)
  <2>1. s <= r /\ b = a /\ (Waiting(id) \/ d <= c) /\ (Waiting(id)' => Waiting(id))
    BY <1>6, <1>8 DEF Leaves
  <2>2. N * s <= N * r /\ N * s \in Nat /\ N * r \in Nat
    BY <1>2, <2>1, ProductOrder
  <2> HIDE DEF r, c, s, d, a, b, cap
  <2>3. CASE Waiting(id)
    BY <1>2, <1>3, <1>4, <2>1, <2>2, <2>3
  <2>4. CASE ~Waiting(id)
    BY <1>2, <1>3, <1>4, <2>1, <2>2, <2>4
  <2>5. QED
    BY <2>3, <2>4
<1>9. CASE UnderCap(id)
  BY <1>3, <1>9 DEF UnderCap
<1>10. CASE Requeues(th, id)
  <2>1. s <= r - 1 /\ b = a /\ d <= c
    <3>1. s <= Cardinality(Deciders(id) \ {th})
      BY <1>7, <1>10, FS_Subset DEF Requeues
    <3>2. QED
      BY <1>6, <1>7, <1>10, <3>1 DEF Requeues
  <2>2. N * s + N <= N * r /\ N * s \in Nat /\ N * r \in Nat
    BY <1>2, <2>1, ProductOrder
  <2> HIDE DEF r, c, s, d, a, b, cap
  <2>3. QED
    BY <1>2, <1>3, <1>4, <2>1, <2>2
<1>11. CASE Claims(th, id)
  <2>1. s <= r /\ b = a + 1 /\ d <= c - 1 /\ ~Waiting(id)'
    <3>1. d <= Cardinality(Claimers(id) \ {th})
      BY <1>7, <1>11, FS_Subset DEF Claims
    <3>2. QED
      BY <1>6, <1>7, <1>11, <3>1 DEF Claims
  <2>2. N * s <= N * r /\ N * s \in Nat /\ N * r \in Nat
    BY <1>2, <2>1, ProductOrder
  <2>3. CASE a < cap
    <3>1. s + d <= N - 1
      <4> DEFINE D == Deciders(id)'
                 C == Claimers(id)'
      <4>1. D \cap C = {}
        <5>1. \A t \in Threads : ~(id \in DOMAIN retryAt[t] /\ id \in claimIds[t])
          BY DEF DecisionsApart
        <5>2. Deciders(id) \cap Claimers(id) = {}
          BY <5>1 DEF Deciders, Claimers
        <5>3. QED
          BY <5>2, <1>11 DEF Claims
      <4>2. D \cup C \subseteq Threads \ {th}
        BY <1>1, <1>11 DEF Claims
      <4>3. IsFiniteSet(D) /\ IsFiniteSet(C)
        BY <1>1, ThreadSets
      <4>4. Cardinality(D \cup C) = s + d
        <5>1. Cardinality(D \cup C) = Cardinality(D) + Cardinality(C) - Cardinality(D \cap C)
          BY <4>3, FS_Union
        <5>2. Cardinality(D \cap C) = 0
          BY <4>1, FS_EmptySet
        <5>3. QED
          BY <1>2, <5>1, <5>2
      <4>5. IsFiniteSet(Threads \ {th}) /\ Cardinality(Threads \ {th}) = N - 1
        BY WarmQueueAssumption, FS_RemoveElement DEF N
      <4>6. Cardinality(D \cup C) <= N - 1
        BY <4>2, <4>5, FS_Subset
      <4>7. QED
        BY <4>4, <4>6
    <3>2. N * s + d <= N * (N - 1)
      BY <1>2, <3>1, ChancesLeft
    <3> HIDE DEF r, c, s, d, a, b, cap
    <3>3. N * (N - 1) \in Nat
      <4>1. N - 1 \in Nat
        BY <1>2
      <4>2. QED
        BY <1>2, <4>1
    <3>4. QED
      BY <1>2, <1>3, <2>1, <2>2, <2>3, <3>2, <3>3
  <2>4. CASE ~(a < cap)
    <3>1. N * (N - 1) \in Int
      BY <1>2
    <3> HIDE DEF r, c, s, d, a, b, cap
    <3>2. CASE Waiting(id)
      BY <1>2, <1>3, <1>4, <2>1, <2>2, <2>4, <3>1, <3>2
    <3>3. CASE ~Waiting(id)
      BY <1>2, <1>3, <1>4, <2>1, <2>2, <2>4, <3>1, <3>3
    <3>4. QED
      BY <3>2, <3>3
  <2>5. QED
    BY <2>3, <2>4
<1>12. QED
  BY <1>8, <1>9, <1>10, <1>11

LEMMA CapStepKeeps ==
    ASSUME IInv, IInv', CapInv, NEW th \in Threads, CapStep(th)
    PROVE  \A id \in Existing' : CapKept(id)'
<1> SUFFICES ASSUME NEW id \in Existing' PROVE CapKept(id)'
  OBVIOUS
<1>1. CASE id \in Existing
  BY <1>1, RowKept DEF CapInv, CapStep
<1>2. CASE id \notin Existing
  <2>1. rows'[id].attempts = 0
    BY <1>2 DEF CapStep
  <2>2. Cap(id)' \in Nat \ {0}
    BY WarmQueueAssumption DEF IInv, TypeOK, Existing, ClassOf, Cap, RetryCap
  <2>3. QED
    BY <2>1, <2>2 DEF CapKept
<1>3. QED
  BY <1>1, <1>2

\* Only th decides anew, and decides one thing at a time.
DecidesAlone(th) ==
    /\ \A t \in Threads \ {th} :
          pc'[t] = pc[t] /\ retryAt'[t] = retryAt[t] /\ claimIds'[t] = claimIds[t]
    /\ DOMAIN retryAt'[th] # {} => pc'[th] \in {"sweep", "retryWrite"}
    /\ claimIds'[th] # {} => pc'[th] \in {"claimTargets", "claimBacklog"}

LEMMA DecidesAloneKeeps ==
    ASSUME DecisionsApart, NEW th \in Threads, DecidesAlone(th)
    PROVE  DecisionsApart'
  BY DEF DecisionsApart, DecidesAlone

\* A row that stays, about which th decides nothing new or which th may still claim.
LEMMA RowStays ==
    ASSUME NEW th \in Threads, NEW id \in TaskIds, DecidesAlone(th), rows'[id] = rows[id],
           id \in DOMAIN retryAt'[th] => id \in DOMAIN retryAt[th],
           id \in claimIds'[th] => id \in claimIds[th] \/ Waiting(id)
    PROVE  Leaves(id)
  BY DEF DecidesAlone, Leaves, Deciders, Claimers, Waiting

\* A row th settles, whatever it was.
LEMMA RowSettles ==
    ASSUME NEW th \in Threads, NEW id \in TaskIds, DecidesAlone(th), ~Waiting(id)',
           rows'[id].attempts = rows[id].attempts,
           id \in DOMAIN retryAt'[th] => id \in DOMAIN retryAt[th],
           id \in claimIds'[th] => id \in claimIds[th]
    PROVE  Leaves(id)
  BY DEF DecidesAlone, Leaves, Deciders, Claimers

LEMMA UpdateWaits ==
    ASSUME NEW row \in Row, NEW at, NEW next
    PROVE  /\ Canceled(row).status \notin {"pending", "deferred"}
           /\ Claimed(row).status \notin {"pending", "deferred"}
           /\ \A status \in {"completed", "failed"} :
                Settled(row, status, at).status \notin {"pending", "deferred"}
  BY DEF Row, Canceled, Claimed, Settled

\* The steps that leave the table alone.
LEMMA DecidingKeepsCap ==
    ASSUME IInv, CapInv, NEW th \in Threads
    PROVE  /\ \A requests \in SUBSET Fingerprints :
                StartGenerate(th, requests) => CapStep(th) /\ DecidesAlone(th)
           /\ \A fp \in Fingerprints : EnqueueSelect(th, fp) => CapStep(th) /\ DecidesAlone(th)
           /\ StartDrain(th) \/ StartInline(th) => CapStep(th) /\ DecidesAlone(th)
           /\ SkipInline(th) => CapStep(th) /\ DecidesAlone(th)
           /\ ClaimTargetsSelect(th) => CapStep(th) /\ DecidesAlone(th)
           /\ ClaimBacklogSelect(th) => CapStep(th) /\ DecidesAlone(th)
           /\ NoSpareCapacity(th) => CapStep(th) /\ DecidesAlone(th)
           /\ \A id \in TaskIds : BeginWarm(th, id) => CapStep(th) /\ DecidesAlone(th)
           /\ WarmSucceeds(th) => CapStep(th) /\ DecidesAlone(th)
           /\ WarmRaises(th) => CapStep(th) /\ DecidesAlone(th)
           /\ RetrySelect(th) => CapStep(th) /\ DecidesAlone(th)
           /\ FinishPass(th) => CapStep(th) /\ DecidesAlone(th)
           /\ Invalidate(th) => CapStep(th) /\ DecidesAlone(th)
           /\ Crash(th) => CapStep(th) /\ DecidesAlone(th)
<1>0. /\ pc \in [Threads -> Labels] /\ claimIds \in [Threads -> SUBSET Existing]
      /\ retryAt = [t \in Threads |-> retryAt[t]] /\ rows \in [TaskIds -> Row]
      /\ current \in [Threads -> {0} \cup Existing] /\ Existing \subseteq TaskIds
  BY DEF IInv, TypeOK, Existing
<1>a. /\ DOMAIN retryAt[th] # {} => pc[th] \in {"sweep", "retryWrite"}
      /\ claimIds[th] # {} => pc[th] \in {"claimTargets", "claimBacklog"}
  BY DEF CapInv, DecisionsApart
<1>b. ASSUME UNCHANGED rows, DecidesAlone(th),
             \A id \in Existing : Leaves(id) \/ UnderCap(id)
      PROVE  CapStep(th)
  BY <1>b DEF CapStep, Existing
<1>c. ASSUME UNCHANGED <<rows, retryAt, claimIds>>, DecidesAlone(th) PROVE CapStep(th)
  BY <1>0, <1>b, <1>c, RowStays
<1> USE DEF DecidesAlone, Goto, enqueueing, decision, batch
<1>1. ASSUME NEW requests \in SUBSET Fingerprints, StartGenerate(th, requests)
      PROVE  CapStep(th) /\ DecidesAlone(th)
  BY <1>0, <1>a, <1>c, <1>1 DEF StartGenerate
<1>2. ASSUME NEW fp \in Fingerprints, EnqueueSelect(th, fp)
      PROVE  CapStep(th) /\ DecidesAlone(th)
  BY <1>0, <1>a, <1>c, <1>2 DEF EnqueueSelect
<1>3. ASSUME StartDrain(th) \/ StartInline(th) PROVE CapStep(th) /\ DecidesAlone(th)
  <2>1. pc[th] \in {"idle", "enqueue"} /\ \E draining \in BOOLEAN : SweepSelect(th, draining)
    BY <1>3 DEF StartDrain, StartInline
  <2>2. PICK draining \in BOOLEAN : SweepSelect(th, draining)
    BY <2>1
  <2>3. /\ UNCHANGED <<rows, claimIds>> /\ retryAt' = [retryAt EXCEPT ![th] = SweepRetryAt]
        /\ pc' = [pc EXCEPT ![th] = IF SweepExpired \cup SweepStale = {}
                                    THEN AfterSweep(th, draining) ELSE "sweep"]
    BY <2>2 DEF SweepSelect
  <2>4. DOMAIN SweepRetryAt = SweepStale \ SweepExhausted
    BY DEF SweepRetryAt
  <2>5. claimIds[th] = {}
    BY <1>a, <2>1
  <2>6. retryAt'[th] = SweepRetryAt
    BY <1>0, <2>3
  <2>7. DecidesAlone(th)
    BY <1>0, <2>3, <2>4, <2>5, <2>6
  <2>8. ASSUME NEW id \in Existing PROVE Leaves(id) \/ UnderCap(id)
    <3>1. CASE id \in SweepStale \ SweepExhausted
      <4>1. ~Spent(rows[id])
        BY <3>1 DEF SweepExhausted
      <4>2. rows[id].attempts < Cap(id)
        BY <4>1, CapType DEF Spent, Cap
      <4>3. QED
        BY <2>3, <4>2 DEF UnderCap
    <3>2. CASE id \notin SweepStale \ SweepExhausted
      BY <1>0, <2>3, <2>4, <2>6, <2>7, <3>2, RowStays
    <3>3. QED
      BY <3>1, <3>2
  <2>9. QED
    BY <1>b, <2>3, <2>7, <2>8
<1>4. SkipInline(th) => CapStep(th) /\ DecidesAlone(th)
  BY <1>0, <1>a, <1>c DEF SkipInline
<1>5. ASSUME ClaimTargetsSelect(th) PROVE CapStep(th) /\ DecidesAlone(th)
  <2> DEFINE claimable == {id \in FreshTargets(th) : rows[id].status = "pending"}
  <2>1. /\ UNCHANGED <<rows, retryAt>> /\ claimIds' = [claimIds EXCEPT ![th] = claimable]
        /\ pc[th] = "targets"
        /\ pc' = [pc EXCEPT ![th] = IF claimable = {} THEN "backlog" ELSE "claimTargets"]
    BY <1>5 DEF ClaimTargetsSelect
  <2>2. \A id \in claimable : Waiting(id)
    BY DEF Waiting
  <2> HIDE DEF claimable
  <2>3. DecidesAlone(th)
    BY <1>0, <1>a, <2>1
  <2>4. \A id \in Existing : Leaves(id)
    BY <1>0, <2>1, <2>2, <2>3, RowStays
  <2>5. QED
    BY <1>b, <2>1, <2>3, <2>4
<1>6. ASSUME ClaimBacklogSelect(th) PROVE CapStep(th) /\ DecidesAlone(th)
  <2> DEFINE selected == SelectedIds(Capacity(th))
  <2>1. /\ UNCHANGED <<rows, retryAt>> /\ claimIds' = [claimIds EXCEPT ![th] = selected]
        /\ pc[th] = "backlog"
        /\ pc' = [pc EXCEPT ![th] = IF BacklogExpired \cup selected = {}
                                    THEN "work" ELSE "claimBacklog"]
    BY <1>6 DEF ClaimBacklogSelect
  <2>2. \A id \in selected : Waiting(id)
    BY DEF Waiting, SelectedIds, BacklogEligible, Backlog, InStatus
  <2> HIDE DEF selected
  <2>3. DecidesAlone(th)
    BY <1>0, <1>a, <2>1
  <2>4. \A id \in Existing : Leaves(id)
    BY <1>0, <2>1, <2>2, <2>3, RowStays
  <2>5. QED
    BY <1>b, <2>1, <2>3, <2>4
<1>7. NoSpareCapacity(th) => CapStep(th) /\ DecidesAlone(th)
  BY <1>0, <1>a, <1>c DEF NoSpareCapacity
<1>8. ASSUME NEW id \in TaskIds, BeginWarm(th, id) PROVE CapStep(th) /\ DecidesAlone(th)
  BY <1>0, <1>a, <1>c, <1>8 DEF BeginWarm
<1>9. WarmSucceeds(th) => CapStep(th) /\ DecidesAlone(th)
  BY <1>0, <1>a, <1>c DEF WarmSucceeds
<1>10. WarmRaises(th) => CapStep(th) /\ DecidesAlone(th)
  BY <1>0, <1>a, <1>c DEF WarmRaises
<1>11. ASSUME RetrySelect(th) PROVE CapStep(th) /\ DecidesAlone(th)
  <2>1. /\ UNCHANGED <<rows, claimIds>> /\ pc' = [pc EXCEPT ![th] = "retryWrite"]
        /\ pc[th] = "retrySelect" /\ current[th] \in Existing
    BY <1>11 DEF RetrySelect, IInv, TypeOK
  <2>2. claimIds[th] = {}
    BY <1>a, <2>1
  <2>3. PICK next :
          /\ retryAt' = [retryAt EXCEPT ![th] = next]
          /\ DOMAIN next \subseteq {current[th]}
          /\ Spent(rows[current[th]]) => DOMAIN next = {}
    <3>1. CASE Spent(rows[current[th]])
      <4>1. retryAt' = [retryAt EXCEPT ![th] = NoRetry] /\ DOMAIN NoRetry = {}
        BY <1>11, <3>1 DEF RetrySelect, NoRetry
      <4>2. QED
        BY <4>1
    <3>2. CASE ~Spent(rows[current[th]])
      <4> DEFINE next == [i \in {current[th]} |->
                    now + RetryDelay(ClassOf(rows[current[th]]), rows[current[th]].attempts)]
      <4>1. retryAt' = [retryAt EXCEPT ![th] = next] /\ DOMAIN next = {current[th]}
        BY <1>11, <3>2 DEF RetrySelect
      <4> HIDE DEF next
      <4>2. QED
        BY <3>2, <4>1
    <3>3. QED
      BY <3>1, <3>2
  <2>4. retryAt'[th] = next
    BY <1>0, <2>3
  <2>5. DecidesAlone(th)
    BY <1>0, <2>1, <2>2, <2>3, <2>4
  <2>6. ASSUME NEW id \in Existing PROVE Leaves(id) \/ UnderCap(id)
    <3>1. CASE id \in DOMAIN next
      <4>1. ~Spent(rows[id])
        BY <2>3, <3>1
      <4>2. rows[id].attempts < Cap(id)
        BY <4>1, CapType DEF Spent, Cap
      <4>3. QED
        BY <2>1, <4>2 DEF UnderCap
    <3>2. CASE id \notin DOMAIN next
      BY <1>0, <2>1, <2>4, <2>5, <3>2, RowStays
    <3>3. QED
      BY <3>1, <3>2
  <2>7. QED
    BY <1>b, <2>1, <2>5, <2>6
<1>12. FinishPass(th) => CapStep(th) /\ DecidesAlone(th)
  BY <1>0, <1>a, <1>c DEF FinishPass
<1>13. Invalidate(th) => CapStep(th) /\ DecidesAlone(th)
  BY <1>0, <1>a, <1>c DEF Invalidate, CancelSelect
<1>14. ASSUME Crash(th) PROVE CapStep(th) /\ DecidesAlone(th)
  <2>1. /\ UNCHANGED rows /\ retryAt' = [retryAt EXCEPT ![th] = NoRetry]
        /\ claimIds' = [claimIds EXCEPT ![th] = {}] /\ pc' = [pc EXCEPT ![th] = "idle"]
    BY <1>14 DEF Crash
  <2>2. retryAt'[th] = NoRetry /\ DOMAIN NoRetry = {} /\ claimIds'[th] = {}
    BY <1>0, <2>1 DEF NoRetry
  <2>3. DecidesAlone(th)
    BY <1>0, <2>1, <2>2
  <2>4. \A id \in Existing : Leaves(id)
    BY <1>0, <2>1, <2>2, <2>3, RowStays
  <2>5. QED
    BY <1>b, <2>1, <2>3, <2>4
<1>15. QED
  BY <1>1, <1>2, <1>3, <1>4, <1>5, <1>6, <1>7, <1>8, <1>9, <1>10, <1>11, <1>12, <1>13, <1>14

\* What a good update leaves of a row.
LEMMA GoodRows ==
    ASSUME IInv, GoodStep
    PROVE  /\ Existing' = Existing
           /\ \A id \in Existing : rows'[id].fp = rows[id].fp
<1>1. Existing' = Existing
  BY GoodStepTable
<1>2. ASSUME NEW id \in Existing PROVE rows'[id].fp = rows[id].fp
  <2>1. rows'[id] = rows[id] \/ GoodUpdate(rows[id], rows'[id])
    BY DEF GoodStep, Existing
  <2>2. QED
    BY <2>1 DEF GoodUpdate
<1>3. QED
  BY <1>1, <1>2

LEMMA CapStepOfGood ==
    ASSUME IInv, GoodStep, NEW th \in Threads,
           \A id \in Existing : Leaves(id) \/ Requeues(th, id) \/ Claims(th, id)
    PROVE  CapStep(th)
  BY GoodRows DEF CapStep

\* The steps that write the table.
LEMMA WritingKeepsCap ==
    ASSUME IInv, CapInv, NEW th \in Threads
    PROVE  /\ SweepWrite(th) => CapStep(th) /\ DecidesAlone(th)
           /\ ClaimTargetsWrite(th) => CapStep(th) /\ DecidesAlone(th)
           /\ ClaimBacklogWrite(th) => CapStep(th) /\ DecidesAlone(th)
           /\ RetryWrite(th) => CapStep(th) /\ DecidesAlone(th)
           /\ CancelWrite(th) => CapStep(th) /\ DecidesAlone(th)
           /\ MarkCompleted(th) \/ WarmSkipped(th) => CapStep(th) /\ DecidesAlone(th)
           /\ \A id \in TaskIds : ProfileMissing(th, id) => CapStep(th) /\ DecidesAlone(th)
           /\ \A id \in TaskIds : EnqueueInsert(th, id) => CapStep(th) /\ DecidesAlone(th)
<1>0. /\ pc \in [Threads -> Labels] /\ claimIds \in [Threads -> SUBSET Existing]
      /\ retryAt = [t \in Threads |-> retryAt[t]] /\ rows \in [TaskIds -> Row]
      /\ current \in [Threads -> {0} \cup Existing] /\ Existing \subseteq TaskIds
      /\ targeted \in [Threads -> SUBSET Existing]
      /\ supplemental \in [Threads -> SUBSET Existing]
  BY DEF IInv, TypeOK, Existing
<1>a. /\ DOMAIN retryAt[th] # {} => pc[th] \in {"sweep", "retryWrite"}
      /\ claimIds[th] # {} => pc[th] \in {"claimTargets", "claimBacklog"}
  BY DEF CapInv, DecisionsApart
<1>n. DOMAIN NoRetry = {}
  BY DEF NoRetry
<1>u. \A id \in TaskIds, status \in {"completed", "failed"} : \A at, next :
        /\ Canceled(rows[id]).attempts = rows[id].attempts
        /\ Canceled(rows[id]).status \notin {"pending", "deferred"}
        /\ Claimed(rows[id]).attempts = rows[id].attempts + 1
        /\ Claimed(rows[id]).status \notin {"pending", "deferred"}
        /\ Settled(rows[id], status, at).attempts = rows[id].attempts
        /\ Settled(rows[id], status, at).status \notin {"pending", "deferred"}
        /\ Deferred(rows[id], at, next).attempts = rows[id].attempts
        /\ Recovered(rows[id], at, next).attempts = rows[id].attempts
  <2> SUFFICES ASSUME NEW id \in TaskIds, NEW status \in {"completed", "failed"}, NEW at, NEW next
      PROVE /\ Canceled(rows[id]).attempts = rows[id].attempts
            /\ Canceled(rows[id]).status \notin {"pending", "deferred"}
            /\ Claimed(rows[id]).attempts = rows[id].attempts + 1
            /\ Claimed(rows[id]).status \notin {"pending", "deferred"}
            /\ Settled(rows[id], status, at).attempts = rows[id].attempts
            /\ Settled(rows[id], status, at).status \notin {"pending", "deferred"}
            /\ Deferred(rows[id], at, next).attempts = rows[id].attempts
            /\ Recovered(rows[id], at, next).attempts = rows[id].attempts
    OBVIOUS
  <2>1. rows[id] \in Row
    BY <1>0
  <2>2. QED
    BY <2>1, UpdateAttempts, UpdateWaits
<1>1. ASSUME SweepWrite(th) PROVE CapStep(th) /\ DecidesAlone(th)
  <2>1. /\ retryAt' = [retryAt EXCEPT ![th] = NoRetry] /\ UNCHANGED claimIds
        /\ pc[th] = "sweep"
        /\ \E label \in {"backlog", "targets"} : pc' = [pc EXCEPT ![th] = label]
        /\ rows' = [id \in TaskIds |->
                  IF id \in cancelIds[th] THEN Canceled(rows[id])
                  ELSE IF id \in failIds[th] THEN Settled(rows[id], "failed", readAt[th])
                  ELSE IF id \in DOMAIN retryAt[th]
                       THEN Recovered(rows[id], readAt[th], retryAt[th][id])
                  ELSE rows[id]]
    BY <1>1 DEF SweepWrite, AfterSweep, Goto
  <2>2. retryAt'[th] = NoRetry /\ claimIds[th] = {}
    BY <1>0, <1>a, <2>1
  <2>3. DecidesAlone(th)
    BY <1>0, <1>n, <2>1, <2>2 DEF DecidesAlone
  <2>4. ASSUME NEW id \in Existing PROVE Leaves(id) \/ Requeues(th, id)
    <3>1. CASE id \in cancelIds[th] \/ id \in failIds[th]
      <4>1. rows'[id].attempts = rows[id].attempts /\ ~Waiting(id)'
        BY <1>0, <1>u, <2>1, <3>1 DEF Waiting
      <4>2. QED
        BY <1>0, <1>n, <2>1, <2>2, <2>3, <4>1, RowSettles
    <3>2. CASE id \notin cancelIds[th] /\ id \notin failIds[th] /\ id \in DOMAIN retryAt[th]
      <4>1. rows'[id].attempts = rows[id].attempts
        BY <1>0, <1>u, <2>1, <3>2
      <4>2. QED
        BY <1>n, <2>1, <2>2, <2>3, <3>2, <4>1 DEF Requeues, Deciders, Claimers, DecidesAlone
    <3>3. CASE id \notin cancelIds[th] /\ id \notin failIds[th] /\ id \notin DOMAIN retryAt[th]
      <4>1. rows'[id] = rows[id]
        BY <1>0, <2>1, <3>3
      <4>2. QED
        BY <1>0, <1>n, <2>1, <2>2, <2>3, <4>1, RowStays
    <3>4. QED
      BY <3>1, <3>2, <3>3
  <2>5. QED
    BY <1>1, <2>3, <2>4, CapStepOfGood, TableSteps
<1>2. ASSUME ClaimTargetsWrite(th) PROVE CapStep(th) /\ DecidesAlone(th)
  <2>1. /\ claimIds' = [claimIds EXCEPT ![th] = {}] /\ UNCHANGED retryAt
        /\ pc[th] = "claimTargets" /\ pc' = [pc EXCEPT ![th] = "backlog"]
        /\ rows' = [id \in TaskIds |->
                      IF id \in claimIds[th] THEN Claimed(rows[id]) ELSE rows[id]]
    BY <1>2 DEF ClaimTargetsWrite, Goto, decision
  <2>2. DOMAIN retryAt[th] = {} /\ claimIds'[th] = {}
    BY <1>0, <1>a, <2>1
  <2>3. DecidesAlone(th)
    BY <1>0, <2>1, <2>2 DEF DecidesAlone
  <2>4. ASSUME NEW id \in Existing PROVE Leaves(id) \/ Claims(th, id)
    <3>1. CASE id \in claimIds[th]
      <4>1. rows'[id].attempts = rows[id].attempts + 1 /\ ~Waiting(id)'
        BY <1>0, <1>u, <2>1, <3>1 DEF Waiting
      <4>2. QED
        BY <2>1, <2>2, <2>3, <3>1, <4>1 DEF Claims, Deciders, Claimers, DecidesAlone
    <3>2. CASE id \notin claimIds[th]
      BY <1>0, <2>1, <2>2, <2>3, <3>2, RowStays
    <3>3. QED
      BY <3>1, <3>2
  <2>5. QED
    BY <1>2, <2>3, <2>4, CapStepOfGood, TableSteps
<1>3. ASSUME ClaimBacklogWrite(th) PROVE CapStep(th) /\ DecidesAlone(th)
  <2>1. /\ claimIds' = [claimIds EXCEPT ![th] = {}] /\ UNCHANGED retryAt
        /\ pc[th] = "claimBacklog" /\ pc' = [pc EXCEPT ![th] = "work"]
        /\ rows' = [id \in TaskIds |-> IF id \in cancelIds[th] THEN Canceled(rows[id])
                                       ELSE IF id \in claimIds[th] THEN Claimed(rows[id])
                                       ELSE rows[id]]
    BY <1>3 DEF ClaimBacklogWrite, Goto
  <2>2. DOMAIN retryAt[th] = {} /\ claimIds'[th] = {}
    BY <1>0, <1>a, <2>1
  <2>3. DecidesAlone(th)
    BY <1>0, <2>1, <2>2 DEF DecidesAlone
  <2>4. ASSUME NEW id \in Existing PROVE Leaves(id) \/ Claims(th, id)
    <3>1. CASE id \in cancelIds[th]
      <4>1. rows'[id].attempts = rows[id].attempts /\ ~Waiting(id)'
        BY <1>0, <1>u, <2>1, <3>1 DEF Waiting
      <4>2. QED
        BY <1>0, <2>1, <2>2, <2>3, <4>1, RowSettles
    <3>2. CASE id \notin cancelIds[th] /\ id \in claimIds[th]
      <4>1. rows'[id].attempts = rows[id].attempts + 1 /\ ~Waiting(id)'
        BY <1>0, <1>u, <2>1, <3>2 DEF Waiting
      <4>2. QED
        BY <2>1, <2>2, <2>3, <3>2, <4>1 DEF Claims, Deciders, Claimers, DecidesAlone
    <3>3. CASE id \notin cancelIds[th] /\ id \notin claimIds[th]
      BY <1>0, <2>1, <2>2, <2>3, <3>3, RowStays
    <3>4. QED
      BY <3>1, <3>2, <3>3
  <2>5. QED
    BY <1>3, <2>3, <2>4, CapStepOfGood, TableSteps
<1>4. ASSUME RetryWrite(th) PROVE CapStep(th) /\ DecidesAlone(th)
  <2>1. /\ retryAt' = [retryAt EXCEPT ![th] = NoRetry] /\ UNCHANGED claimIds
        /\ pc[th] = "retryWrite" /\ pc' = [pc EXCEPT ![th] = "work"]
        /\ rows' = [id \in TaskIds |->
                  IF id \in failIds[th] THEN Settled(rows[id], "failed", now)
                  ELSE IF id \in DOMAIN retryAt[th]
                       THEN Deferred(rows[id], readAt[th], retryAt[th][id])
                  ELSE rows[id]]
    BY <1>4 DEF RetryWrite, Goto
  <2>2. retryAt'[th] = NoRetry /\ claimIds[th] = {}
    BY <1>0, <1>a, <2>1
  <2>3. DecidesAlone(th)
    BY <1>0, <1>n, <2>1, <2>2 DEF DecidesAlone
  <2>4. ASSUME NEW id \in Existing PROVE Leaves(id) \/ Requeues(th, id)
    <3>1. CASE id \in failIds[th]
      <4>1. rows'[id].attempts = rows[id].attempts /\ ~Waiting(id)'
        BY <1>0, <1>u, <2>1, <3>1 DEF Waiting
      <4>2. QED
        BY <1>0, <1>n, <2>1, <2>2, <2>3, <4>1, RowSettles
    <3>2. CASE id \notin failIds[th] /\ id \in DOMAIN retryAt[th]
      <4>1. rows'[id].attempts = rows[id].attempts
        BY <1>0, <1>u, <2>1, <3>2
      <4>2. QED
        BY <1>n, <2>1, <2>2, <2>3, <3>2, <4>1 DEF Requeues, Deciders, Claimers, DecidesAlone
    <3>3. CASE id \notin failIds[th] /\ id \notin DOMAIN retryAt[th]
      <4>1. rows'[id] = rows[id]
        BY <1>0, <2>1, <3>3
      <4>2. QED
        BY <1>0, <1>n, <2>1, <2>2, <2>3, <4>1, RowStays
    <3>4. QED
      BY <3>1, <3>2, <3>3
  <2>5. QED
    BY <1>4, <2>3, <2>4, CapStepOfGood, TableSteps
<1>5. ASSUME CancelWrite(th) PROVE CapStep(th) /\ DecidesAlone(th)
  <2>1. /\ UNCHANGED <<retryAt, claimIds>>
        /\ pc[th] = "cancel" /\ pc' = [pc EXCEPT ![th] = "idle"]
        /\ rows' = [id \in TaskIds |->
                      IF id \in cancelIds[th] THEN Canceled(rows[id]) ELSE rows[id]]
    BY <1>5 DEF CancelWrite, Goto
  <2>2. DOMAIN retryAt[th] = {} /\ claimIds[th] = {}
    BY <1>a, <2>1
  <2>3. DecidesAlone(th)
    BY <1>0, <2>1, <2>2 DEF DecidesAlone
  <2>4. ASSUME NEW id \in Existing PROVE Leaves(id)
    <3>1. CASE id \in cancelIds[th]
      <4>1. rows'[id].attempts = rows[id].attempts /\ ~Waiting(id)'
        BY <1>0, <1>u, <2>1, <3>1 DEF Waiting
      <4>2. QED
        BY <1>0, <2>1, <2>3, <4>1, RowSettles
    <3>2. CASE id \notin cancelIds[th]
      BY <1>0, <2>1, <2>3, <3>2, RowStays
    <3>3. QED
      BY <3>1, <3>2
  <2>5. QED
    BY <1>5, <2>3, <2>4, CapStepOfGood, TableSteps
<1>6. ASSUME NEW id \in Existing, NEW status \in {"completed", "failed"},
             rows' = [rows EXCEPT ![id] = Settled(@, status, now)],
             UNCHANGED <<retryAt, claimIds>>, DecidesAlone(th)
      PROVE  CapStep(th)
  <2>1. ASSUME NEW i \in Existing PROVE Leaves(i)
    <3>1. CASE i = id
      <4>1. rows'[i].attempts = rows[i].attempts /\ ~Waiting(i)'
        BY <1>0, <1>u, <1>6, <3>1 DEF Waiting
      <4>2. QED
        BY <1>0, <1>6, <4>1, RowSettles
    <3>2. CASE i # id
      <4>1. rows'[i] = rows[i]
        BY <1>0, <1>6, <3>2
      <4>2. QED
        BY <1>0, <1>6, <4>1, RowStays
    <3>3. QED
      BY <3>1, <3>2
  <2>2. GoodStep
    BY <1>6, SettleGood
  <2>3. QED
    BY <2>1, <2>2, CapStepOfGood
<1>7. ASSUME MarkCompleted(th) \/ WarmSkipped(th) PROVE CapStep(th) /\ DecidesAlone(th)
  <2>1. /\ UNCHANGED <<retryAt, claimIds>> /\ pc[th] \in {"complete", "warm"}
        /\ pc' = [pc EXCEPT ![th] = "work"]
        /\ \E status \in {"completed", "failed"} :
             rows' = [rows EXCEPT ![current[th]] = Settled(@, status, now)]
    BY <1>7 DEF MarkCompleted, WarmSkipped, decision, Goto
  <2>2. current[th] \in Existing
    BY <2>1 DEF IInv, TypeOK
  <2>3. DecidesAlone(th)
    BY <1>0, <1>a, <2>1 DEF DecidesAlone
  <2>4. QED
    BY <1>6, <2>1, <2>2, <2>3
<1>8. ASSUME NEW id \in TaskIds, ProfileMissing(th, id) PROVE CapStep(th) /\ DecidesAlone(th)
  <2>1. /\ UNCHANGED <<pc, retryAt, claimIds>> /\ pc[th] = "work" /\ id \in Existing
        /\ rows' = [rows EXCEPT ![id] = Settled(@, "failed", now)]
    BY <1>0, <1>8 DEF ProfileMissing, Take, decision
  <2>2. DecidesAlone(th)
    BY <1>a, <2>1 DEF DecidesAlone
  <2>3. QED
    BY <1>6, <2>1, <2>2
<1>9. ASSUME NEW id \in TaskIds, EnqueueInsert(th, id) PROVE CapStep(th) /\ DecidesAlone(th)
  <2> DEFINE new == [fp |-> item[th], status |-> "pending", attempts |-> 0,
                     created |-> readAt[th], updated |-> readAt[th], next |-> NoTime]
  <2>1. /\ UNCHANGED <<retryAt, claimIds>> /\ pc[th] = "insert" /\ id \notin Existing
        /\ pc' = [pc EXCEPT ![th] = "enqueue"]
        /\ rows' = [rows EXCEPT ![id] = new] /\ new.attempts = 0
    BY <1>9 DEF EnqueueInsert, decision, Goto
  <2> HIDE DEF new
  <2>2. DecidesAlone(th)
    BY <1>0, <1>a, <2>1 DEF DecidesAlone
  <2>3. ASSUME NEW i \in Existing
        PROVE  i \in Existing' /\ rows'[i].fp = rows[i].fp /\ Leaves(i)
    <3>1. rows'[i] = rows[i]
      BY <1>0, <2>1
    <3>2. i \in Existing'
      BY <3>1 DEF Existing
    <3>3. QED
      BY <1>0, <2>1, <2>2, <3>1, <3>2, RowStays
  <2>4. \A i \in Existing' \ Existing : rows'[i].attempts = 0
    BY <1>0, <2>1 DEF Existing
  <2>5. QED
    BY <2>2, <2>3, <2>4 DEF CapStep
<1>10. QED
  BY <1>1, <1>2, <1>3, <1>4, <1>5, <1>7, <1>8, <1>9

\* CapInv is inductive relative to IInv.
LEMMA CapInvStep == IInv /\ CapInv /\ [Next]_vars => CapInv'
<1> SUFFICES ASSUME IInv, CapInv, [Next]_vars PROVE CapInv'
  OBVIOUS
<1>0. IInv'
  BY NextStep
<1>1. CASE Tick \/ UNCHANGED vars
  BY <1>1 DEF Tick, vars, decision, CapInv, DecisionsApart, CapKept, Chances, Deciders,
     Claimers, Waiting, Cap, ClassOf, Existing, N
<1>2. ASSUME NEW th \in Threads,
             \/ \E requests \in SUBSET Fingerprints : StartGenerate(th, requests)
             \/ StartDrain(th) \/ Progress(th) \/ Invalidate(th) \/ Crash(th)
      PROVE  CapInv'
  <2>1. CapStep(th) /\ DecidesAlone(th)
    BY <1>2, DecidingKeepsCap, WritingKeepsCap DEF Progress
  <2>2. QED
    BY <1>0, <2>1, CapStepKeeps, DecidesAloneKeeps DEF CapInv
<1>3. QED
  BY <1>1, <1>2 DEF Next

LEMMA CapInvBounds == IInv /\ CapInv => AttemptsBounded
<1> SUFFICES ASSUME IInv, CapInv, NEW id \in Existing
             PROVE  rows[id].attempts <= Cap(id) + N * (N - 1)
  BY DEF AttemptsBounded, Cap, N
<1>1. rows[id].attempts \in Nat /\ Cap(id) \in Nat
  BY CapType
<1>2. /\ Cardinality(Deciders(id)) \in Nat /\ Cardinality(Claimers(id)) \in Nat /\ N \in Nat
  <2>1. Deciders(id) \subseteq Threads /\ Claimers(id) \subseteq Threads
    BY DEF Deciders, Claimers
  <2>2. QED
    BY <2>1, ThreadSets
<1>3. N * Cardinality(Deciders(id)) \in Nat /\ N * (N - 1) \in Nat
  <2>1. CASE N = 0
    BY <1>2, <2>1
  <2>2. CASE N > 0
    <3>1. N - 1 \in Nat
      BY <1>2, <2>2
    <3>2. QED
      BY <1>2, <3>1, ProductOrder
  <2>3. QED
    BY <1>2, <2>1, <2>2
<1>4. CapKept(id)
  BY DEF CapInv
<1>5. QED
  BY <1>1, <1>2, <1>3, <1>4 DEF CapKept, Chances

\* However threads race, no task is claimed more often than its class allows and
\* once more for each ordered pair of threads: every other thread may requeue the
\* row on a count it read before the cap was reached, and every thread may claim
\* what was requeued so.
THEOREM AttemptsStayBounded == Spec => []AttemptsBounded
<1>1. Init => CapInv
  BY DEF Init, CapInv, DecisionsApart, NoRetry, Existing, NoRow
<1>2. IInv /\ CapInv => AttemptsBounded
  BY CapInvBounds
<1>3. QED
  BY <1>1, <1>2, CapInvStep, SpecIInv, PTL DEF Spec

-----------------------------------------------------------------------------
(* One request at a time.  With a single thread nothing comes between a      *)
(* SELECT and the write it was made for, so every decision still stands when *)
(* it is written, and each step moves each task as WarmLifecycle allows.     *)

Processing(id) == rows[id].status = "processing"
Serving == {"work", "warm", "complete", "retrySelect", "retryWrite"}

\* A task that waits may be claimed.
RowsInOrder ==
    /\ \A id \in TaskIds : rows[id].status = "absent" => rows[id].attempts = 0
    /\ \A id \in Existing : Waiting(id) => rows[id].attempts < Cap(id)

\* What th decided from its SELECT is still so.
DecisionsStand(th) ==
    /\ \A id \in cancelIds[th] : rows[id].status \in Active
    /\ \A id \in failIds[th] : Processing(id)
    /\ \A id \in DOMAIN retryAt[th] : Processing(id) /\ rows[id].attempts < Cap(id)
    /\ \A id \in claimIds[th] : Waiting(id)
    /\ cancelIds[th] # {} => pc[th] \in {"sweep", "claimBacklog", "cancel"}
    /\ failIds[th] # {} => pc[th] \in {"sweep", "retryWrite"}
    /\ DOMAIN retryAt[th] # {} => pc[th] \in {"sweep", "retryWrite"}
    /\ claimIds[th] # {} => pc[th] \in {"claimTargets", "claimBacklog"}
    /\ pc[th] # "sweep" => \A id \in cancelIds[th] : Waiting(id)
    /\ pc[th] = "claimBacklog" => cancelIds[th] \cap claimIds[th] = {}
    /\ pc[th] = "retryWrite" => failIds[th] \cup DOMAIN retryAt[th] \subseteq {current[th]}

\* What th claimed is still being processed, and is in one place.
ClaimsStand(th) ==
    /\ \A id \in targeted[th] \cup supplemental[th] : Processing(id) /\ id # current[th]
    /\ targeted[th] \cap supplemental[th] = {}
    /\ current[th] # 0 => Processing(current[th]) /\ pc[th] \in Serving \ {"work"}
    /\ targeted[th] # {} => pc[th] \in Serving \cup {"backlog", "claimBacklog"}
    /\ supplemental[th] # {} => pc[th] \in Serving

StandingInv(th) == RowsInOrder /\ DecisionsStand(th) /\ ClaimsStand(th)

\* The moves of WarmLifecycle, on rows.
IsEnqueued(id) ==
    /\ rows[id].status = "absent" /\ rows'[id].status = "pending"
    /\ rows'[id].attempts = rows[id].attempts /\ rows'[id].fp \in Fingerprints
IsClaimed(id) ==
    /\ Waiting(id) /\ rows'[id].status = "processing"
    /\ rows[id].attempts < Cap(id) /\ rows'[id].attempts = rows[id].attempts + 1
IsSettled(id) ==
    /\ Processing(id) /\ rows'[id].status \in {"completed", "failed"}
    /\ rows'[id].attempts = rows[id].attempts
IsRequeued(id) ==
    /\ Processing(id) /\ rows'[id].status \in {"pending", "deferred"}
    /\ rows[id].attempts < Cap(id) /\ rows'[id].attempts = rows[id].attempts
IsCanceled(id) ==
    /\ rows[id].status \in Active /\ rows'[id].status = "canceled"
    /\ rows'[id].attempts = rows[id].attempts
RowMove(id) ==
    \/ IsEnqueued(id)
    \/ rows'[id] = rows[id]
    \/ /\ id \in Existing /\ rows'[id].fp = rows[id].fp
       /\ IsClaimed(id) \/ IsSettled(id) \/ IsRequeued(id) \/ IsCanceled(id)

LEMMA RowMoveIsLegal ==
    ASSUME IInv, IInv', NEW id \in TaskIds, RowMove(id)
    PROVE  Lifecycle!Move(id)
<1> USE DEF Lifecycle!Move, TaskStatus, TaskAttempts, TaskCap
<1>1. CASE IsEnqueued(id)
  <2>1. /\ ClassOf(rows[id])' = Request[rows'[id].fp].class
        /\ rows'[id].fp \in DOMAIN Request
    <3>1. rows'[id].fp \in Fingerprints
      BY <1>1 DEF IsEnqueued
    <3>2. QED
      BY <3>1, WarmQueueAssumption DEF ClassOf
  <2>2. TaskCap'[id] \in {RetryCap(Request[fp].class) : fp \in DOMAIN Request}
    BY <1>1, <2>1 DEF IsEnqueued
  <2>3. Lifecycle!Enqueued(id)
    BY <1>1, <2>2 DEF IsEnqueued, Lifecycle!Enqueued
  <2>4. QED
    BY <2>3
<1>2. CASE rows'[id] = rows[id]
  <2>1. Lifecycle!Rest(id) /\ TaskCap'[id] = TaskCap[id]
    BY <1>2 DEF Lifecycle!Rest, ClassOf
  <2>2. QED
    BY <2>1
<1>3. CASE /\ id \in Existing /\ rows'[id].fp = rows[id].fp
           /\ IsClaimed(id) \/ IsSettled(id) \/ IsRequeued(id) \/ IsCanceled(id)
  <2>1. rows[id].status # "absent" /\ rows'[id].status # "absent"
    BY <1>3 DEF Existing, IsClaimed, IsSettled, IsRequeued, IsCanceled
  <2>2. TaskCap[id] = Cap(id) /\ TaskCap'[id] = TaskCap[id]
    BY <1>3, <2>1 DEF Cap, ClassOf
  <2>3. Lifecycle!Claim(id) \/ Lifecycle!Settle(id) \/ Lifecycle!Requeue(id) \/ Lifecycle!Cancel(id)
    BY <1>3, <2>2 DEF IsClaimed, IsSettled, IsRequeued, IsCanceled, Waiting, Processing, Active,
       Lifecycle!Claim, Lifecycle!Settle, Lifecycle!Requeue, Lifecycle!Cancel
  <2>4. QED
    BY <2>2, <2>3
<1>4. QED
  BY <1>1, <1>2, <1>3 DEF RowMove

LEMMA MovesKeepOrder ==
    ASSUME IInv, IInv', RowsInOrder, \A id \in TaskIds : RowMove(id)
    PROVE  RowsInOrder'
<1>1. ASSUME NEW id \in TaskIds, rows'[id].status = "absent" PROVE rows'[id].attempts = 0
  <2>1. rows'[id] = rows[id]
    BY <1>1 DEF RowMove, IsEnqueued, IsClaimed, IsSettled, IsRequeued, IsCanceled
  <2>2. QED
    BY <1>1, <2>1 DEF RowsInOrder
<1>2. ASSUME NEW id \in Existing', Waiting(id)' PROVE rows'[id].attempts < Cap(id)'
  <2>1. id \in TaskIds /\ rows'[id].status # "absent"
    BY DEF Existing
  <2>2. CASE IsEnqueued(id)
    <3>1. rows'[id].attempts = 0
      BY <2>1, <2>2 DEF IsEnqueued, RowsInOrder
    <3>2. Cap(id)' \in Nat \ {0}
      BY <2>2, WarmQueueAssumption DEF IsEnqueued, Cap, ClassOf, RetryCap
    <3>3. QED
      BY <3>1, <3>2
  <2>3. CASE rows'[id] = rows[id]
    <3>1. id \in Existing /\ Waiting(id) /\ Cap(id)' = Cap(id)
      BY <1>2, <2>1, <2>3 DEF Existing, Waiting, Cap, ClassOf
    <3>2. QED
      BY <2>3, <3>1 DEF RowsInOrder
  <2>4. CASE rows'[id].fp = rows[id].fp /\ IsRequeued(id)
    <3>1. Cap(id)' = Cap(id)
      BY <2>4 DEF Cap, ClassOf
    <3>2. QED
      BY <2>4, <3>1 DEF IsRequeued
  <2>5. ~(IsClaimed(id) \/ IsSettled(id) \/ IsCanceled(id))
    BY <1>2 DEF IsClaimed, IsSettled, IsCanceled, Waiting
  <2>6. QED
    BY <2>1, <2>2, <2>3, <2>4, <2>5 DEF RowMove
<1>3. QED
  BY <1>1, <1>2 DEF RowsInOrder

\* A step that leaves the table alone keeps it in order, and moves no task.
LEMMA TableRests ==
    ASSUME RowsInOrder, UNCHANGED rows
    PROVE  RowsInOrder' /\ \A id \in TaskIds : RowMove(id)
  BY DEF RowsInOrder, RowMove, Existing, Waiting, Cap, ClassOf

\* What the proofs about th's steps need of its variables.
LEMMA ThreadTypes ==
    ASSUME IInv, NEW th \in Threads
    PROVE  /\ pc \in [Threads -> Labels] /\ rows \in [TaskIds -> Row]
           /\ cancelIds \in [Threads -> SUBSET Existing]
           /\ failIds \in [Threads -> SUBSET Existing]
           /\ retryAt = [t \in Threads |-> retryAt[t]]
           /\ DOMAIN retryAt[th] \subseteq Existing
           /\ claimIds \in [Threads -> SUBSET Existing]
           /\ targeted \in [Threads -> SUBSET Existing]
           /\ supplemental \in [Threads -> SUBSET Existing]
           /\ current \in [Threads -> {0} \cup Existing]
           /\ Existing \subseteq TaskIds /\ 0 \notin TaskIds
  BY DEF IInv, TypeOK, Existing, TaskIds

\* The steps of a thread that only move it on.
LEMMA MovingOnStands ==
    ASSUME IInv, NEW th \in Threads, StandingInv(th)
    PROVE  /\ \A requests \in SUBSET Fingerprints :
                StartGenerate(th, requests) => StandingInv(th)' /\ \A i \in TaskIds : RowMove(i)
           /\ \A fp \in Fingerprints :
                EnqueueSelect(th, fp) => StandingInv(th)' /\ \A i \in TaskIds : RowMove(i)
           /\ SkipInline(th) \/ NoSpareCapacity(th) \/ WarmSucceeds(th) \/ WarmRaises(th)
                \/ FinishPass(th) => StandingInv(th)' /\ \A i \in TaskIds : RowMove(i)
<1>1. ASSUME UNCHANGED <<rows, cancelIds, failIds, retryAt, claimIds, batch>>,
             pc[th] \notin {"sweep", "claimTargets", "claimBacklog", "cancel", "retryWrite"},
             NEW label, pc'[th] = label, label \notin {"sweep", "claimBacklog", "retryWrite"},
             targeted[th] # {} => label \in Serving \cup {"backlog"},
             supplemental[th] # {} => label \in Serving,
             current[th] # 0 => label \in Serving \ {"work"}
      PROVE  StandingInv(th)' /\ \A i \in TaskIds : RowMove(i)
  <2>1. RowsInOrder' /\ \A i \in TaskIds : RowMove(i)
    BY <1>1, TableRests DEF StandingInv
  <2>2. DecisionsStand(th)'
    BY <1>1 DEF StandingInv, DecisionsStand, Processing, Waiting, Cap, ClassOf
  <2>3. ClaimsStand(th)'
    BY <1>1 DEF StandingInv, ClaimsStand, Processing, batch, Serving
  <2>4. QED
    BY <2>1, <2>2, <2>3 DEF StandingInv
<1>2. pc \in [Threads -> Labels]
  BY ThreadTypes
<1> USE DEF Goto, decision, enqueueing, Serving, StandingInv, ClaimsStand
<1>3. ASSUME NEW requests \in SUBSET Fingerprints, StartGenerate(th, requests)
      PROVE  StandingInv(th)' /\ \A i \in TaskIds : RowMove(i)
  BY <1>1, <1>2, <1>3 DEF StartGenerate
<1>4. ASSUME NEW fp \in Fingerprints, EnqueueSelect(th, fp)
      PROVE  StandingInv(th)' /\ \A i \in TaskIds : RowMove(i)
  BY <1>1, <1>2, <1>4 DEF EnqueueSelect
<1>5. ASSUME SkipInline(th) PROVE StandingInv(th)' /\ \A i \in TaskIds : RowMove(i)
  BY <1>1, <1>2, <1>5 DEF SkipInline
<1>6. ASSUME NoSpareCapacity(th) PROVE StandingInv(th)' /\ \A i \in TaskIds : RowMove(i)
  BY <1>1, <1>2, <1>6 DEF NoSpareCapacity
<1>7. ASSUME WarmSucceeds(th) PROVE StandingInv(th)' /\ \A i \in TaskIds : RowMove(i)
  BY <1>1, <1>2, <1>7 DEF WarmSucceeds
<1>8. ASSUME WarmRaises(th) PROVE StandingInv(th)' /\ \A i \in TaskIds : RowMove(i)
  BY <1>1, <1>2, <1>8 DEF WarmRaises
<1>9. ASSUME FinishPass(th) PROVE StandingInv(th)' /\ \A i \in TaskIds : RowMove(i)
  BY <1>1, <1>2, <1>9 DEF FinishPass, Remaining
<1>10. QED
  BY <1>3, <1>4, <1>5, <1>6, <1>7, <1>8, <1>9

\* The steps that decide: what they decide holds of the table they read.
LEMMA DecidingStands ==
    ASSUME IInv, NEW th \in Threads, StandingInv(th)
    PROVE  /\ StartDrain(th) \/ StartInline(th) => StandingInv(th)' /\ UNCHANGED rows
           /\ ClaimTargetsSelect(th) => StandingInv(th)' /\ UNCHANGED rows
           /\ ClaimBacklogSelect(th) => StandingInv(th)' /\ UNCHANGED rows
           /\ RetrySelect(th) => StandingInv(th)' /\ UNCHANGED rows
           /\ Invalidate(th) => StandingInv(th)' /\ UNCHANGED rows
<1>0. /\ pc \in [Threads -> Labels] /\ rows \in [TaskIds -> Row]
      /\ cancelIds \in [Threads -> SUBSET Existing]
      /\ failIds \in [Threads -> SUBSET Existing]
      /\ retryAt = [t \in Threads |-> retryAt[t]]
      /\ DOMAIN retryAt[th] \subseteq Existing
      /\ claimIds \in [Threads -> SUBSET Existing]
      /\ Existing \subseteq TaskIds /\ 0 \notin TaskIds
  BY ThreadTypes
<1>a. ASSUME UNCHANGED rows, DecisionsStand(th)', ClaimsStand(th)' PROVE StandingInv(th)'
  BY <1>a, TableRests DEF StandingInv
\* What is not decided now is as it was, while pc is at none of the writes.
<1>b. /\ cancelIds[th] # {} => pc[th] \in {"sweep", "claimBacklog", "cancel"}
      /\ failIds[th] # {} => pc[th] \in {"sweep", "retryWrite"}
      /\ DOMAIN retryAt[th] # {} => pc[th] \in {"sweep", "retryWrite"}
      /\ claimIds[th] # {} => pc[th] \in {"claimTargets", "claimBacklog"}
  BY DEF StandingInv, DecisionsStand
<1>c. \A id \in Existing : rows[id].attempts \in Nat /\ Cap(id) \in Nat
  BY CapType
<1>1. ASSUME StartDrain(th) \/ StartInline(th) PROVE StandingInv(th)' /\ UNCHANGED rows
  <2>1. pc[th] \in {"idle", "enqueue"} /\ \E draining \in BOOLEAN : SweepSelect(th, draining)
    BY <1>1 DEF StartDrain, StartInline
  <2>2. PICK draining \in BOOLEAN : SweepSelect(th, draining)
    BY <2>1
  <2>3. /\ UNCHANGED <<rows, claimIds, batch>> /\ retryAt'[th] = SweepRetryAt
        /\ cancelIds'[th] = SweepExpired /\ failIds'[th] = SweepExhausted
        /\ pc'[th] \in {"sweep", "backlog", "targets"}
        /\ SweepExpired \cup SweepStale # {} => pc'[th] = "sweep"
    BY <1>0, <2>2 DEF SweepSelect, Goto, AfterSweep
  <2>4. /\ claimIds'[th] = {}
        /\ targeted[th] = {} /\ supplemental[th] = {} /\ current[th] = 0
    BY <1>b, <2>1, <2>3 DEF StandingInv, ClaimsStand, Serving
  <2>5. /\ \A id \in SweepExpired : rows[id].status \in Active
        /\ SweepExhausted \subseteq SweepStale
        /\ \A id \in SweepStale : Processing(id) /\ id \in Existing
        /\ \A id \in SweepStale \ SweepExhausted : rows[id].attempts < Cap(id)
        /\ DOMAIN SweepRetryAt = SweepStale \ SweepExhausted
    <3>1. \A id \in SweepStale : Processing(id) /\ id \in Existing
      BY DEF SweepStale, SweepRows, InStatus, Processing, Existing
    <3>2. \A id \in SweepStale \ SweepExhausted : rows[id].attempts < Cap(id)
      BY <1>c, <3>1 DEF SweepExhausted, Spent, Cap
    <3>3. QED
      BY <3>1, <3>2 DEF SweepExpired, SweepRows, SweepExhausted, SweepRetryAt, InStatus, Active
  <2>6. DecisionsStand(th)'
    <3> HIDE DEF SweepExpired, SweepExhausted, SweepStale, SweepRetryAt
    <3>1. \A id \in TaskIds : Cap(id)' = Cap(id)
      BY <2>3 DEF Cap, ClassOf
    <3>2. cancelIds'[th] # {} \/ failIds'[th] # {} \/ DOMAIN retryAt'[th] # {} => pc'[th] = "sweep"
      BY <2>3, <2>5
    <3>3. DOMAIN retryAt'[th] \subseteq TaskIds
      BY <1>0, <2>3, <2>5
    <3>4. \A id \in DOMAIN retryAt'[th] : Processing(id)' /\ rows'[id].attempts < Cap(id)'
      BY <2>3, <2>5, <3>1, <3>3 DEF Processing
    <3>5. QED
      BY <2>3, <2>4, <2>5, <3>2, <3>4 DEF DecisionsStand, Processing
  <2>7. ClaimsStand(th)'
    BY <2>3, <2>4 DEF ClaimsStand, batch
  <2>8. QED
    BY <1>a, <2>3, <2>6, <2>7
<1>2. ASSUME ClaimTargetsSelect(th) PROVE StandingInv(th)' /\ UNCHANGED rows
  <2> DEFINE claimable == {id \in FreshTargets(th) : rows[id].status = "pending"}
  <2>1. /\ UNCHANGED <<rows, cancelIds, failIds, retryAt, batch>> /\ claimIds'[th] = claimable
        /\ pc[th] = "targets" /\ pc'[th] \in {"backlog", "claimTargets"}
        /\ claimable # {} => pc'[th] = "claimTargets"
    BY <1>0, <1>2 DEF ClaimTargetsSelect, Goto
  <2>2. \A id \in claimable : Waiting(id)
    BY DEF Waiting
  <2> HIDE DEF claimable
  <2>3. DecisionsStand(th)'
    BY <1>b, <2>1, <2>2 DEF DecisionsStand, Waiting
  <2>4. ClaimsStand(th)'
    BY <2>1 DEF StandingInv, ClaimsStand, Processing, batch, Serving
  <2>5. QED
    BY <1>a, <2>1, <2>3, <2>4
<1>3. ASSUME ClaimBacklogSelect(th) PROVE StandingInv(th)' /\ UNCHANGED rows
  <2> DEFINE selected == SelectedIds(Capacity(th))
  <2>1. /\ UNCHANGED <<rows, failIds, retryAt, batch>> /\ claimIds'[th] = selected
        /\ cancelIds'[th] = BacklogExpired
        /\ pc[th] = "backlog" /\ pc'[th] \in {"work", "claimBacklog"}
        /\ BacklogExpired \cup selected # {} => pc'[th] = "claimBacklog"
    BY <1>0, <1>3 DEF ClaimBacklogSelect, Goto
  <2>2. /\ \A id \in selected : Waiting(id)
        /\ \A id \in BacklogExpired : Waiting(id)
        /\ BacklogExpired \cap selected = {}
    BY DEF Waiting, SelectedIds, BacklogEligible, BacklogExpired, Backlog, InStatus
  <2> HIDE DEF selected
  <2>3. DecisionsStand(th)'
    BY <1>b, <2>1, <2>2 DEF DecisionsStand, Waiting, Active
  <2>4. ClaimsStand(th)'
    BY <2>1 DEF StandingInv, ClaimsStand, Processing, batch, Serving
  <2>5. QED
    BY <1>a, <2>1, <2>3, <2>4
<1>4. ASSUME RetrySelect(th) PROVE StandingInv(th)' /\ UNCHANGED rows
  <2>1. /\ UNCHANGED <<rows, cancelIds, claimIds, batch>>
        /\ pc[th] = "retrySelect" /\ pc'[th] = "retryWrite"
    BY <1>0, <1>4 DEF RetrySelect, Goto
  <2>2. current[th] \in Existing /\ Processing(current[th])
    BY <2>1 DEF IInv, TypeOK, StandingInv, ClaimsStand
  <2>3. /\ failIds'[th] \subseteq {current[th]} /\ DOMAIN retryAt'[th] \subseteq {current[th]}
        /\ DOMAIN retryAt'[th] # {} => ~Spent(rows[current[th]])
    <3>1. CASE Spent(rows[current[th]])
      <4>1. retryAt'[th] = NoRetry /\ DOMAIN NoRetry = {} /\ failIds'[th] = {current[th]}
        BY <1>0, <1>4, <3>1 DEF RetrySelect, NoRetry
      <4>2. QED
        BY <4>1
    <3>2. CASE ~Spent(rows[current[th]])
      <4> DEFINE next == [i \in {current[th]} |->
                    now + RetryDelay(ClassOf(rows[current[th]]), rows[current[th]].attempts)]
      <4>1. retryAt'[th] = next /\ DOMAIN next = {current[th]} /\ failIds'[th] = {}
        BY <1>0, <1>4, <3>2 DEF RetrySelect
      <4> HIDE DEF next
      <4>2. QED
        BY <3>2, <4>1
    <3>3. QED
      BY <3>1, <3>2
  <2>4. DOMAIN retryAt'[th] # {} => rows[current[th]].attempts < Cap(current[th])
    BY <1>c, <2>2, <2>3 DEF Spent, Cap
  <2>5. DecisionsStand(th)'
    <3>1. Cap(current[th])' = Cap(current[th]) /\ UNCHANGED current
      BY <2>1 DEF Cap, ClassOf, batch
    <3>2. \A id \in DOMAIN retryAt'[th] : Processing(id)' /\ rows'[id].attempts < Cap(id)'
      BY <2>1, <2>2, <2>3, <2>4 DEF Processing, Cap, ClassOf
    <3>3. QED
      BY <1>b, <2>1, <2>2, <2>3, <3>1, <3>2 DEF DecisionsStand, Processing, Waiting
  <2>6. ClaimsStand(th)'
    BY <2>1 DEF StandingInv, ClaimsStand, Processing, batch, Serving
  <2>7. QED
    BY <1>a, <2>1, <2>5, <2>6
<1>5. ASSUME Invalidate(th) PROVE StandingInv(th)' /\ UNCHANGED rows
  <2>1. PICK matched :
          /\ matched \subseteq InStatus({"pending"}) /\ cancelIds'[th] = matched
          /\ UNCHANGED <<rows, failIds, retryAt, claimIds, batch>>
          /\ pc[th] = "idle" /\ pc'[th] = "cancel"
    <3>1. PICK student \in Students, session \in Sessions \cup {NoItem}, targets \in SUBSET Targets :
            CancelSelect(th, student, session, targets)
      BY <1>5 DEF Invalidate
    <3> DEFINE matching == {id \in InStatus({"pending"}) :
                              MatchesInvalidation(rows[id].fp, student, session, targets)}
    <3>2. /\ cancelIds'[th] = matching /\ UNCHANGED <<rows, failIds, retryAt, claimIds, batch>>
          /\ pc[th] = "idle" /\ pc'[th] = "cancel"
      BY <1>0, <3>1 DEF CancelSelect, Goto
    <3>3. matching \subseteq InStatus({"pending"})
      OBVIOUS
    <3> HIDE DEF matching
    <3>4. QED
      BY <3>2, <3>3
  <2>2. \A id \in matched : Waiting(id)
    BY <2>1 DEF InStatus, Waiting
  <2>3. DecisionsStand(th)'
    BY <1>b, <2>1, <2>2 DEF DecisionsStand, Waiting, Active
  <2>4. ClaimsStand(th)'
    BY <2>1 DEF StandingInv, ClaimsStand, Processing, batch, Serving
  <2>5. QED
    BY <1>a, <2>1, <2>3, <2>4
<1>6. QED
  BY <1>1, <1>2, <1>3, <1>4, <1>5

\* Taking the next claimed task, and dying.
LEMMA TakingStands ==
    ASSUME IInv, NEW th \in Threads, StandingInv(th)
    PROVE  /\ \A id \in TaskIds : BeginWarm(th, id) => StandingInv(th)' /\ UNCHANGED rows
           /\ Crash(th) => StandingInv(th)' /\ UNCHANGED rows
<1>0. /\ pc \in [Threads -> Labels] /\ rows \in [TaskIds -> Row]
      /\ cancelIds \in [Threads -> SUBSET Existing]
      /\ failIds \in [Threads -> SUBSET Existing]
      /\ retryAt = [t \in Threads |-> retryAt[t]]
      /\ claimIds \in [Threads -> SUBSET Existing]
      /\ targeted \in [Threads -> SUBSET Existing]
      /\ supplemental \in [Threads -> SUBSET Existing]
      /\ current \in [Threads -> {0} \cup Existing]
      /\ Existing \subseteq TaskIds /\ 0 \notin TaskIds
  BY ThreadTypes
<1>1. ASSUME NEW id \in TaskIds, BeginWarm(th, id) PROVE StandingInv(th)' /\ UNCHANGED rows
  <2>1. /\ UNCHANGED <<rows, cancelIds, failIds, retryAt, claimIds>>
        /\ pc[th] = "work" /\ pc'[th] = "warm" /\ current'[th] = id
        /\ id \in targeted[th] \cup supplemental[th]
        /\ targeted'[th] \cup supplemental'[th] = (targeted[th] \cup supplemental[th]) \ {id}
        /\ targeted'[th] \subseteq targeted[th] /\ supplemental'[th] \subseteq supplemental[th]
    BY <1>0, <1>1 DEF BeginWarm, Goto, decision, Take, StandingInv, ClaimsStand
  <2>2. DecisionsStand(th)'
    BY <2>1 DEF StandingInv, DecisionsStand, Processing, Waiting, Cap, ClassOf
  <2>3. ClaimsStand(th)'
    BY <2>1 DEF StandingInv, ClaimsStand, Processing, Serving
  <2>4. QED
    BY <2>1, <2>2, <2>3, TableRests DEF StandingInv
<1>2. ASSUME Crash(th) PROVE StandingInv(th)' /\ UNCHANGED rows
  <2>1. /\ UNCHANGED rows /\ pc'[th] = "idle" /\ cancelIds'[th] = {} /\ failIds'[th] = {}
        /\ DOMAIN retryAt'[th] = {} /\ claimIds'[th] = {}
        /\ targeted'[th] = {} /\ supplemental'[th] = {} /\ current'[th] = 0
    BY <1>0, <1>2 DEF Crash, Goto, NoRetry
  <2>2. DecisionsStand(th)'
    BY <2>1 DEF DecisionsStand
  <2>3. ClaimsStand(th)'
    BY <2>1 DEF ClaimsStand
  <2>4. QED
    BY <2>1, <2>2, <2>3, TableRests DEF StandingInv
<1>3. QED
  BY <1>1, <1>2

\* What each UPDATE makes of a row, as far as WarmLifecycle tells rows apart.
LEMMA UpdateMoves ==
    ASSUME NEW row \in Row, NEW at, NEW next
    PROVE  /\ Canceled(row).status = "canceled" /\ Canceled(row).fp = row.fp
           /\ Claimed(row).status = "processing" /\ Claimed(row).fp = row.fp
           /\ \A status : /\ Settled(row, status, at).status = status
                          /\ Settled(row, status, at).fp = row.fp
           /\ Deferred(row, at, next).status = "deferred" /\ Deferred(row, at, next).fp = row.fp
           /\ Recovered(row, at, next).status \in {"pending", "deferred"}
           /\ Recovered(row, at, next).fp = row.fp
  BY DEF Row, Canceled, Claimed, Settled, Deferred, Recovered

LEMMA RowsMove ==
    ASSUME IInv, NEW id \in Existing, NEW at, NEW next
    PROVE  /\ rows'[id] = Canceled(rows[id]) /\ rows[id].status \in Active =>
                RowMove(id) /\ rows'[id].status = "canceled"
           /\ rows'[id] = Claimed(rows[id]) /\ Waiting(id) /\ rows[id].attempts < Cap(id) =>
                RowMove(id) /\ rows'[id].status = "processing"
           /\ \A status \in {"completed", "failed"} :
                rows'[id] = Settled(rows[id], status, at) /\ Processing(id) => RowMove(id)
           /\ (/\ rows'[id] \in {Deferred(rows[id], at, next), Recovered(rows[id], at, next)}
               /\ Processing(id) /\ rows[id].attempts < Cap(id)) => RowMove(id)
<1>1. rows[id] \in Row
  BY DEF IInv, TypeOK, Existing
<1>2. /\ Canceled(rows[id]).attempts = rows[id].attempts
      /\ Claimed(rows[id]).attempts = rows[id].attempts + 1
      /\ \A status : Settled(rows[id], status, at).attempts = rows[id].attempts
      /\ Deferred(rows[id], at, next).attempts = rows[id].attempts
      /\ Recovered(rows[id], at, next).attempts = rows[id].attempts
  BY <1>1, UpdateAttempts
<1>3. /\ Canceled(rows[id]).status = "canceled" /\ Canceled(rows[id]).fp = rows[id].fp
      /\ Claimed(rows[id]).status = "processing" /\ Claimed(rows[id]).fp = rows[id].fp
      /\ \A status : /\ Settled(rows[id], status, at).status = status
                     /\ Settled(rows[id], status, at).fp = rows[id].fp
      /\ Deferred(rows[id], at, next).status = "deferred"
      /\ Deferred(rows[id], at, next).fp = rows[id].fp
      /\ Recovered(rows[id], at, next).status \in {"pending", "deferred"}
      /\ Recovered(rows[id], at, next).fp = rows[id].fp
  BY <1>1, UpdateMoves
<1>4. QED
  BY <1>2, <1>3 DEF RowMove, IsCanceled, IsClaimed, IsSettled, IsRequeued

\* The steps that write what was decided.
LEMMA WritingStands ==
    ASSUME IInv, IInv', NEW th \in Threads, StandingInv(th)
    PROVE  /\ SweepWrite(th) => StandingInv(th)' /\ \A i \in TaskIds : RowMove(i)
           /\ ClaimTargetsWrite(th) => StandingInv(th)' /\ \A i \in TaskIds : RowMove(i)
           /\ ClaimBacklogWrite(th) => StandingInv(th)' /\ \A i \in TaskIds : RowMove(i)
           /\ CancelWrite(th) => StandingInv(th)' /\ \A i \in TaskIds : RowMove(i)
<1>0. /\ pc \in [Threads -> Labels] /\ rows \in [TaskIds -> Row]
      /\ cancelIds \in [Threads -> SUBSET Existing]
      /\ failIds \in [Threads -> SUBSET Existing]
      /\ retryAt = [t \in Threads |-> retryAt[t]]
      /\ DOMAIN retryAt[th] \subseteq Existing
      /\ claimIds \in [Threads -> SUBSET Existing]
      /\ targeted \in [Threads -> SUBSET Existing]
      /\ supplemental \in [Threads -> SUBSET Existing]
      /\ current \in [Threads -> {0} \cup Existing]
      /\ Existing \subseteq TaskIds /\ 0 \notin TaskIds
  BY ThreadTypes
<1>a. ASSUME \A i \in TaskIds : RowMove(i), DecisionsStand(th)', ClaimsStand(th)'
      PROVE  StandingInv(th)'
  BY <1>a, MovesKeepOrder DEF StandingInv
<1>b. /\ \A id \in cancelIds[th] : rows[id].status \in Active
      /\ \A id \in failIds[th] : Processing(id)
      /\ \A id \in DOMAIN retryAt[th] : Processing(id) /\ rows[id].attempts < Cap(id)
      /\ \A id \in claimIds[th] : Waiting(id)
      /\ cancelIds[th] # {} => pc[th] \in {"sweep", "claimBacklog", "cancel"}
      /\ failIds[th] # {} => pc[th] \in {"sweep", "retryWrite"}
      /\ DOMAIN retryAt[th] # {} => pc[th] \in {"sweep", "retryWrite"}
      /\ claimIds[th] # {} => pc[th] \in {"claimTargets", "claimBacklog"}
      /\ pc[th] # "sweep" => \A id \in cancelIds[th] : Waiting(id)
      /\ pc[th] = "claimBacklog" => cancelIds[th] \cap claimIds[th] = {}
  BY DEF StandingInv, DecisionsStand
<1>c. \A id \in claimIds[th] : rows[id].attempts < Cap(id)
  BY <1>0, <1>b DEF StandingInv, RowsInOrder
<1>1. ASSUME SweepWrite(th) PROVE StandingInv(th)' /\ \A i \in TaskIds : RowMove(i)
  <2>1. /\ UNCHANGED <<claimIds, batch>> /\ pc[th] = "sweep" /\ pc'[th] \in {"backlog", "targets"}
        /\ cancelIds'[th] = {} /\ failIds'[th] = {} /\ DOMAIN retryAt'[th] = {}
    BY <1>0, <1>1 DEF SweepWrite, Goto, AfterSweep, NoRetry
  <2>2. ASSUME NEW id \in TaskIds PROVE RowMove(id)
    <3>1. rows'[id] = IF id \in cancelIds[th] THEN Canceled(rows[id])
                      ELSE IF id \in failIds[th] THEN Settled(rows[id], "failed", readAt[th])
                      ELSE IF id \in DOMAIN retryAt[th]
                           THEN Recovered(rows[id], readAt[th], retryAt[th][id])
                      ELSE rows[id]
      BY <1>1 DEF SweepWrite
    <3>2. CASE id \in cancelIds[th]
      BY <1>0, <1>b, <3>1, <3>2, RowsMove
    <3>3. CASE id \notin cancelIds[th] /\ id \in failIds[th]
      BY <1>0, <1>b, <3>1, <3>3, RowsMove
    <3>4. CASE id \notin cancelIds[th] \cup failIds[th] /\ id \in DOMAIN retryAt[th]
      BY <1>0, <1>b, <3>1, <3>4, RowsMove
    <3>5. CASE id \notin cancelIds[th] \cup failIds[th] \cup DOMAIN retryAt[th]
      BY <3>1, <3>5 DEF RowMove
    <3>6. QED
      BY <3>2, <3>3, <3>4, <3>5
  <2>3. targeted[th] = {} /\ supplemental[th] = {} /\ current[th] = 0
    BY <2>1 DEF StandingInv, ClaimsStand, Serving
  <2>4. DecisionsStand(th)' /\ ClaimsStand(th)'
    BY <1>b, <2>1, <2>3 DEF DecisionsStand, ClaimsStand, batch
  <2>5. QED
    BY <1>a, <2>2, <2>4
<1>2. ASSUME ClaimTargetsWrite(th) PROVE StandingInv(th)' /\ \A i \in TaskIds : RowMove(i)
  <2>1. /\ UNCHANGED <<cancelIds, failIds, retryAt, supplemental, current>>
        /\ pc[th] = "claimTargets" /\ pc'[th] = "backlog"
        /\ targeted'[th] = claimIds[th] /\ claimIds'[th] = {}
    BY <1>0, <1>2 DEF ClaimTargetsWrite, Goto
  <2>2. ASSUME NEW id \in TaskIds
        PROVE  RowMove(id) /\ (id \in claimIds[th] => rows'[id].status = "processing")
    <3>1. rows'[id] = IF id \in claimIds[th] THEN Claimed(rows[id]) ELSE rows[id]
      BY <1>2 DEF ClaimTargetsWrite
    <3>2. CASE id \in claimIds[th]
      BY <1>0, <1>b, <1>c, <3>1, <3>2, RowsMove
    <3>3. CASE id \notin claimIds[th]
      BY <3>1, <3>3 DEF RowMove
    <3>4. QED
      BY <3>2, <3>3
  <2>3. supplemental[th] = {} /\ current[th] = 0
    BY <2>1 DEF StandingInv, ClaimsStand, Serving
  <2>4. DecisionsStand(th)'
    BY <1>b, <2>1 DEF DecisionsStand
  <2>5. ClaimsStand(th)'
    BY <1>0, <2>1, <2>2, <2>3 DEF ClaimsStand, Processing
  <2>6. QED
    BY <1>a, <2>2, <2>4, <2>5
<1>3. ASSUME ClaimBacklogWrite(th) PROVE StandingInv(th)' /\ \A i \in TaskIds : RowMove(i)
  <2>1. /\ UNCHANGED <<failIds, retryAt, targeted, current>>
        /\ pc[th] = "claimBacklog" /\ pc'[th] = "work"
        /\ supplemental'[th] = claimIds[th] /\ cancelIds'[th] = {} /\ claimIds'[th] = {}
    BY <1>0, <1>3 DEF ClaimBacklogWrite, Goto
  <2>2. ASSUME NEW id \in TaskIds
        PROVE  /\ RowMove(id) /\ (id \in claimIds[th] => rows'[id].status = "processing")
               /\ id \notin cancelIds[th] \cup claimIds[th] => rows'[id] = rows[id]
    <3>1. rows'[id] = IF id \in cancelIds[th] THEN Canceled(rows[id])
                      ELSE IF id \in claimIds[th] THEN Claimed(rows[id])
                      ELSE rows[id]
      BY <1>3 DEF ClaimBacklogWrite
    <3>2. CASE id \in cancelIds[th]
      BY <1>0, <1>b, <2>1, <3>1, <3>2, RowsMove
    <3>3. CASE id \in claimIds[th] /\ id \notin cancelIds[th]
      BY <1>0, <1>b, <1>c, <3>1, <3>3, RowsMove
    <3>4. CASE id \notin cancelIds[th] \cup claimIds[th]
      BY <3>1, <3>4 DEF RowMove
    <3>5. QED
      BY <3>2, <3>3, <3>4
  <2>3. current[th] = 0 /\ \A id \in targeted[th] : Processing(id)
    BY <2>1 DEF StandingInv, ClaimsStand, Serving
  <2>4. \A id \in targeted[th] : id \notin cancelIds[th] \cup claimIds[th]
    BY <1>b, <2>1, <2>3 DEF Processing, Waiting
  <2>5. DecisionsStand(th)'
    BY <1>b, <2>1 DEF DecisionsStand
  <2>6. ClaimsStand(th)'
    BY <1>0, <2>1, <2>2, <2>3, <2>4 DEF ClaimsStand, Processing, Serving
  <2>7. QED
    BY <1>a, <2>2, <2>5, <2>6
<1>4. ASSUME CancelWrite(th) PROVE StandingInv(th)' /\ \A i \in TaskIds : RowMove(i)
  <2>1. /\ UNCHANGED <<failIds, retryAt, claimIds, batch>>
        /\ pc[th] = "cancel" /\ pc'[th] = "idle" /\ cancelIds'[th] = {}
    BY <1>0, <1>4 DEF CancelWrite, Goto
  <2>2. ASSUME NEW id \in TaskIds PROVE RowMove(id)
    <3>1. rows'[id] = IF id \in cancelIds[th] THEN Canceled(rows[id]) ELSE rows[id]
      BY <1>4 DEF CancelWrite
    <3>2. CASE id \in cancelIds[th]
      BY <1>0, <1>b, <3>1, <3>2, RowsMove
    <3>3. CASE id \notin cancelIds[th]
      BY <3>1, <3>3 DEF RowMove
    <3>4. QED
      BY <3>2, <3>3
  <2>3. targeted[th] = {} /\ supplemental[th] = {} /\ current[th] = 0
    BY <2>1 DEF StandingInv, ClaimsStand, Serving
  <2>4. DecisionsStand(th)' /\ ClaimsStand(th)'
    BY <1>b, <2>1, <2>3 DEF DecisionsStand, ClaimsStand, batch
  <2>5. QED
    BY <1>a, <2>2, <2>4
<1>5. QED
  BY <1>1, <1>2, <1>3, <1>4

\* The steps that settle the task th is at, and the one that adds a task.
LEMMA SettlingStands ==
    ASSUME IInv, IInv', NEW th \in Threads, StandingInv(th)
    PROVE  /\ MarkCompleted(th) \/ WarmSkipped(th) => StandingInv(th)' /\ \A i \in TaskIds : RowMove(i)
           /\ RetryWrite(th) => StandingInv(th)' /\ \A i \in TaskIds : RowMove(i)
           /\ \A id \in TaskIds :
                ProfileMissing(th, id) => StandingInv(th)' /\ \A i \in TaskIds : RowMove(i)
           /\ \A id \in TaskIds :
                EnqueueInsert(th, id) => StandingInv(th)' /\ \A i \in TaskIds : RowMove(i)
<1>0. /\ pc \in [Threads -> Labels] /\ rows \in [TaskIds -> Row]
      /\ cancelIds \in [Threads -> SUBSET Existing]
      /\ failIds \in [Threads -> SUBSET Existing]
      /\ retryAt = [t \in Threads |-> retryAt[t]]
      /\ DOMAIN retryAt[th] \subseteq Existing
      /\ claimIds \in [Threads -> SUBSET Existing]
      /\ targeted \in [Threads -> SUBSET Existing]
      /\ supplemental \in [Threads -> SUBSET Existing]
      /\ current \in [Threads -> {0} \cup Existing]
      /\ Existing \subseteq TaskIds /\ 0 \notin TaskIds
  BY ThreadTypes
<1>a. ASSUME \A i \in TaskIds : RowMove(i), DecisionsStand(th)', ClaimsStand(th)'
      PROVE  StandingInv(th)'
  BY <1>a, MovesKeepOrder DEF StandingInv
<1>b. /\ cancelIds[th] # {} => pc[th] \in {"sweep", "claimBacklog", "cancel"}
      /\ failIds[th] # {} => pc[th] \in {"sweep", "retryWrite"}
      /\ DOMAIN retryAt[th] # {} => pc[th] \in {"sweep", "retryWrite"}
      /\ claimIds[th] # {} => pc[th] \in {"claimTargets", "claimBacklog"}
      /\ \A id \in failIds[th] : Processing(id)
      /\ \A id \in DOMAIN retryAt[th] : Processing(id) /\ rows[id].attempts < Cap(id)
      /\ pc[th] = "retryWrite" => failIds[th] \cup DOMAIN retryAt[th] \subseteq {current[th]}
  BY DEF StandingInv, DecisionsStand
<1>c. /\ \A id \in targeted[th] \cup supplemental[th] : Processing(id) /\ id # current[th]
      /\ targeted[th] \cap supplemental[th] = {}
      /\ current[th] # 0 => Processing(current[th]) /\ pc[th] \in Serving \ {"work"}
  BY DEF StandingInv, ClaimsStand
\* The decisions of th are spent and it is back at work, with all it holds untouched.
<1>d. ASSUME cancelIds'[th] = {}, failIds'[th] = {}, DOMAIN retryAt'[th] = {}, claimIds'[th] = {},
             pc'[th] = "work", current'[th] = 0,
             targeted'[th] \subseteq targeted[th], supplemental'[th] \subseteq supplemental[th],
             \A i \in targeted'[th] \cup supplemental'[th] : rows'[i] = rows[i]
      PROVE  DecisionsStand(th)' /\ ClaimsStand(th)'
  <2>1. DecisionsStand(th)'
    BY <1>d DEF DecisionsStand
  <2>2. ClaimsStand(th)'
    BY <1>0, <1>c, <1>d DEF ClaimsStand, Processing, Serving
  <2>3. QED
    BY <2>1, <2>2
<1>1. ASSUME MarkCompleted(th) \/ WarmSkipped(th)
      PROVE  StandingInv(th)' /\ \A i \in TaskIds : RowMove(i)
  <2>1. /\ UNCHANGED <<cancelIds, failIds, retryAt, claimIds, targeted, supplemental>>
        /\ pc[th] \in {"warm", "complete"} /\ pc'[th] = "work" /\ current'[th] = 0
    BY <1>0, <1>1 DEF MarkCompleted, WarmSkipped, Goto, decision
  <2>2. current[th] \in Existing /\ Processing(current[th])
    BY <1>0, <1>c, <2>1 DEF IInv, TypeOK
  <2>3. PICK status \in {"completed", "failed"} :
          rows' = [rows EXCEPT ![current[th]] = Settled(@, status, now)]
    BY <1>1 DEF MarkCompleted, WarmSkipped
  <2>4. ASSUME NEW id \in TaskIds
        PROVE  RowMove(id) /\ (id # current[th] => rows'[id] = rows[id])
    <3>1. CASE id = current[th]
      <4>1. rows'[id] = Settled(rows[id], status, now)
        BY <1>0, <2>3, <3>1
      <4>2. QED
        BY <2>2, <3>1, <4>1, RowsMove
    <3>2. CASE id # current[th]
      BY <1>0, <2>3, <3>2 DEF RowMove
    <3>3. QED
      BY <3>1, <3>2
  <2>5. DecisionsStand(th)' /\ ClaimsStand(th)'
    BY <1>0, <1>b, <1>c, <1>d, <2>1, <2>4
  <2>6. QED
    BY <1>a, <2>4, <2>5
<1>2. ASSUME RetryWrite(th) PROVE StandingInv(th)' /\ \A i \in TaskIds : RowMove(i)
  <2>1. /\ UNCHANGED <<cancelIds, claimIds, targeted, supplemental>>
        /\ pc[th] = "retryWrite" /\ pc'[th] = "work" /\ current'[th] = 0
        /\ failIds'[th] = {} /\ DOMAIN retryAt'[th] = {}
    BY <1>0, <1>2 DEF RetryWrite, Goto, NoRetry
  <2>2. ASSUME NEW id \in TaskIds
        PROVE  RowMove(id) /\ (id # current[th] => rows'[id] = rows[id])
    <3>1. rows'[id] = IF id \in failIds[th] THEN Settled(rows[id], "failed", now)
                      ELSE IF id \in DOMAIN retryAt[th]
                           THEN Deferred(rows[id], readAt[th], retryAt[th][id])
                      ELSE rows[id]
      BY <1>2 DEF RetryWrite
    <3>2. CASE id \in failIds[th]
      BY <1>0, <1>b, <2>1, <3>1, <3>2, RowsMove
    <3>3. CASE id \notin failIds[th] /\ id \in DOMAIN retryAt[th]
      BY <1>0, <1>b, <2>1, <3>1, <3>3, RowsMove
    <3>4. CASE id \notin failIds[th] \cup DOMAIN retryAt[th]
      BY <3>1, <3>4 DEF RowMove
    <3>5. QED
      BY <3>2, <3>3, <3>4
  <2>3. DecisionsStand(th)' /\ ClaimsStand(th)'
    BY <1>0, <1>b, <1>c, <1>d, <2>1, <2>2
  <2>4. QED
    BY <1>a, <2>2, <2>3
<1>3. ASSUME NEW id \in TaskIds, ProfileMissing(th, id)
      PROVE  StandingInv(th)' /\ \A i \in TaskIds : RowMove(i)
  <2>1. /\ UNCHANGED <<pc, cancelIds, failIds, retryAt, claimIds, current>> /\ pc[th] = "work"
        /\ rows' = [rows EXCEPT ![id] = Settled(@, "failed", now)]
    BY <1>3 DEF ProfileMissing, decision
  <2>2. /\ id \in targeted[th] \cup supplemental[th]
        /\ id \notin targeted'[th] \cup supplemental'[th]
        /\ targeted'[th] \subseteq targeted[th] /\ supplemental'[th] \subseteq supplemental[th]
    BY <1>0, <1>3, <1>c DEF ProfileMissing, Take
  <2>3. ASSUME NEW i \in TaskIds PROVE RowMove(i) /\ (i # id => rows'[i] = rows[i])
    <3>1. CASE i = id
      <4>1. rows'[i] = Settled(rows[i], "failed", now)
        BY <1>0, <2>1, <3>1
      <4>2. i \in Existing /\ Processing(i)
        BY <1>0, <1>c, <2>2, <3>1
      <4>3. RowMove(i)
        BY <4>1, <4>2, RowsMove
      <4>4. QED
        BY <3>1, <4>3
    <3>2. CASE i # id
      BY <1>0, <2>1, <3>2 DEF RowMove
    <3>3. QED
      BY <3>1, <3>2
  <2>4. current[th] = 0
    BY <1>c, <2>1
  <2>5. DecisionsStand(th)' /\ ClaimsStand(th)'
    BY <1>0, <1>b, <1>d, <2>1, <2>2, <2>3, <2>4
  <2>6. QED
    BY <1>a, <2>3, <2>5
<1>4. ASSUME NEW id \in TaskIds, EnqueueInsert(th, id)
      PROVE  StandingInv(th)' /\ \A i \in TaskIds : RowMove(i)
  <2>1. /\ UNCHANGED <<cancelIds, failIds, retryAt, claimIds, targeted, supplemental, current>>
        /\ pc[th] = "insert" /\ pc'[th] = "enqueue" /\ id \notin Existing
        /\ rows'[id] = [fp |-> item[th], status |-> "pending", attempts |-> 0,
                        created |-> readAt[th], updated |-> readAt[th], next |-> NoTime]
        /\ \A i \in TaskIds \ {id} : rows'[i] = rows[i]
    BY <1>0, <1>4 DEF EnqueueInsert, decision, batch, Goto
  <2>2. IsEnqueued(id)
    <3>1. rows[id].status = "absent" /\ rows[id].attempts = 0
      BY <2>1 DEF Existing, StandingInv, RowsInOrder
    <3>2. item[th] \in Fingerprints
      BY <2>1 DEF IInv, TypeOK
    <3>3. QED
      BY <2>1, <3>1, <3>2 DEF IsEnqueued
  <2>3. \A i \in TaskIds : RowMove(i)
    BY <2>1, <2>2 DEF RowMove
  <2>4. /\ cancelIds[th] = {} /\ failIds[th] = {} /\ DOMAIN retryAt[th] = {} /\ claimIds[th] = {}
        /\ targeted[th] = {} /\ supplemental[th] = {} /\ current[th] = 0
    BY <1>b, <2>1 DEF StandingInv, ClaimsStand, Serving
  <2>5. DecisionsStand(th)' /\ ClaimsStand(th)'
    BY <2>1, <2>4 DEF DecisionsStand, ClaimsStand
  <2>6. QED
    BY <1>a, <2>3, <2>5
<1>5. QED
  BY <1>1, <1>2, <1>3, <1>4

\* What one thread decides and claims stands through every step there is.
LEMMA StandingStep ==
    ASSUME NEW th, Threads = {th}, IInv, StandingInv(th), [Next]_vars
    PROVE  StandingInv(th)' /\ \A i \in TaskIds : RowMove(i)
<1>0. IInv' /\ th \in Threads
  BY NextStep
<1>1. CASE Tick \/ UNCHANGED vars
  <2>1. UNCHANGED <<rows, pc, decision, batch>>
    BY <1>1 DEF Tick, vars, decision, batch
  <2>2. DecisionsStand(th)' /\ ClaimsStand(th)'
    BY <2>1 DEF StandingInv, DecisionsStand, ClaimsStand, Processing, Waiting, Cap, ClassOf,
       decision, batch
  <2>3. QED
    BY <2>1, <2>2, TableRests DEF StandingInv
<1>2. CASE \/ \E requests \in SUBSET Fingerprints : StartGenerate(th, requests)
           \/ StartDrain(th) \/ Progress(th) \/ Invalidate(th) \/ Crash(th)
  <2>1. CASE UNCHANGED rows /\ StandingInv(th)'
    BY <2>1, TableRests DEF StandingInv
  <2>2. \/ UNCHANGED rows /\ StandingInv(th)'
        \/ StandingInv(th)' /\ \A i \in TaskIds : RowMove(i)
    BY <1>0, <1>2, MovingOnStands, DecidingStands, TakingStands, WritingStands, SettlingStands
       DEF Progress
  <2>3. QED
    BY <2>1, <2>2
<1>3. QED
  BY <1>1, <1>2 DEF Next

\* Served one request at a time, every step of the queue, threads that die
\* between any two statements included, is one legal move of each task: a task is
\* claimed only while it waits and no more often than its class allows, is settled
\* or requeued only while it is processed, and never leaves a terminal state.
THEOREM ServedOneByOne ==
    ASSUME NEW CONSTANT th, Threads = {th}
    PROVE  Spec => ImplementsLifecycle
<1>1. Init => StandingInv(th)
  BY DEF Init, StandingInv, RowsInOrder, DecisionsStand, ClaimsStand, Existing, NoRow, NoRetry,
     Waiting
<1>2. Init => Lifecycle!LifecycleInit
  BY DEF Init, Lifecycle!LifecycleInit, TaskStatus, TaskAttempts, TaskCap, NoRow
<1>3. IInv /\ StandingInv(th) /\ [Next]_vars => StandingInv(th)'
  BY StandingStep
<1>4. IInv /\ StandingInv(th) /\ [Next]_vars => [Lifecycle!LifecycleNext]_(Lifecycle!lifecycleVars)
  <2>1. ASSUME IInv, StandingInv(th), [Next]_vars PROVE Lifecycle!LifecycleNext
    <3>1. \A id \in TaskIds : Lifecycle!Move(id)
      BY <2>1, StandingStep, NextStep, RowMoveIsLegal
    <3>2. QED
      BY <3>1 DEF Lifecycle!LifecycleNext
  <2>2. QED
    BY <2>1
<1>5. QED
  BY <1>1, <1>2, <1>3, <1>4, SpecIInv, PTL DEF Spec, ImplementsLifecycle, Lifecycle!LifecycleSpec
=============================================================================
