------------------------------ MODULE WarmQueue ------------------------------
(***************************************************************************)
(* The durable predictive warm queue and the scheduler that drains it.     *)
(*                                                                         *)
(* Every request thread of the server owns its own SQLite connection.  A   *)
(* SELECT reads one committed state; the UPDATEs that follow it, up to the *)
(* commit, form one transaction.  Nothing spans the two, so each store     *)
(* method is two actions here, a ...Select and a ...Write, and whatever    *)
(* the method decided from its SELECT is kept in thread-local variables    *)
(* until the write.                                                        *)
(*                                                                         *)
(* A thread serves one request at a time: it finalizes a generation        *)
(* (enqueue the plan, then an inline pass), drains the backlog (the        *)
(* /content/warm/process endpoint) or cancels what new learner evidence    *)
(* made stale.  Between its steps anything else may happen, and it may die *)
(* at any of them, leaving its claimed rows behind.                        *)
(***************************************************************************)
EXTENDS WarmPriority, WarmPromises

CONSTANTS
    Threads,        \* request threads of the server
    Fingerprints,   \* distinct queued requests (student and payload hash)
    Students,       \* learners
    Sessions,       \* learning sessions
    Targets,        \* knowledge components and outcomes a request may target
    Backoff,        \* retry_backoff_seconds, in clock ticks
    MinDelay,       \* the 5 second floor of a retry delay, in clock ticks
    StaleAfter,     \* stale_after_minutes, in clock ticks
    ProcTimeout,    \* processing_timeout_seconds, in clock ticks
    InlineLimit,    \* predictive_warm_inline_process_limit, when it is not zero
    InlineMayBeOff, \* TRUE when a process may be started with a limit of zero
    DrainLimit,     \* the limit a drain request passes
    MaxTime,        \* bound: where the clock stops
    MaxCrashes      \* bound: threads that die in the middle of a pass

ASSUME WarmQueueAssumption ==
    /\ IsFiniteSet(Threads)
    /\ MaxRetry \in Nat \ {0}
    /\ Backoff \in Nat \ {0}
    /\ MinDelay \in Nat \ {0}
    /\ StaleAfter \in Nat \ {0}
    /\ ProcTimeout \in Nat \ {0}
    /\ InlineLimit \in Nat \ {0}
    /\ InlineMayBeOff \in BOOLEAN
    /\ DrainLimit \in Nat
    /\ MaxTasks \in Nat
    /\ MaxTime \in Nat
    /\ MaxCrashes \in Nat
    /\ Request \in [Fingerprints -> [student : Students, session : Sessions,
                                     targets : SUBSET Targets,
                                     class : PriorityClasses, score : Nat]]

\* An arithmetic fact the provers do not have: the backoff multipliers are numbers.
ASSUME DoublingAssumption == \A k \in 0 .. MaxRetry : 2 ^ k \in Nat

VARIABLES
    now,          \* the clock
    pc,           \* what each thread is about to do
    plan,         \* fingerprints the thread has still to enqueue
    fresh,        \* task ids the thread enqueued itself
    drain,        \* TRUE when the pass is a drain, FALSE when it is inline
    item,         \* the fingerprint the thread is about to insert
    current,      \* the claimed task the thread is warming, 0 for none
    readAt,       \* datetime.now() at the start of the store method
    cancelIds,    \* rows the thread decided to cancel
    failIds,      \* rows the thread decided to fail
    retryAt,      \* rows it decided to requeue, with their next_attempt_at
    claimIds,     \* rows it decided to claim
    targeted,     \* claimed rows of claim_tasks still to be warmed
    supplemental, \* claimed rows of claim_pending still to be warmed
    warmed,       \* history: tasks whose content has been generated
    crashes       \* threads that died so far

enqueueing == <<plan, fresh, item>>
decision == <<readAt, cancelIds, failIds, retryAt, claimIds>>
batch == <<targeted, supplemental, current>>
vars == <<now, rows, pc, plan, fresh, drain, item, current, readAt, cancelIds,
          failIds, retryAt, claimIds, targeted, supplemental, warmed, crashes>>

Statuses == {"absent", "pending", "processing", "deferred",
             "completed", "failed", "canceled"}
Active == {"pending", "processing", "deferred"}
Terminal == {"completed", "failed", "canceled"}
NoTime == -1       \* a NULL next_attempt_at
NoItem == "none"
NoRetry == [id \in {} |-> NoTime]

Row == [fp : Fingerprints \cup {NoItem}, status : Statuses, attempts : Nat,
        created : Nat, updated : Nat, next : Int]
NoRow == [fp |-> NoItem, status |-> "absent", attempts |-> 0,
          created |-> 0, updated |-> 0, next |-> NoTime]

Existing == {id \in TaskIds : rows[id].status # "absent"}
InStatus(set) == {id \in TaskIds : rows[id].status \in set}

Expired(row, at) == row.created + StaleAfter <= at

\* Mutant: no cap at all.
NeverSpent(row) == FALSE
Spent(row) == row.attempts >= RetryCap(ClassOf(row))

\* _retry_delay_seconds: the class multiplier is in halves, and int() truncates.
Doubling(attempts) == 2 ^ (IF attempts = 0 THEN 0 ELSE attempts - 1)
RetryDelay(class, attempts) ==
    LET halves == CASE class = "urgent" -> 1 [] class = "high" -> 2 [] OTHER -> 3
        delay  == (Backoff * halves * Doubling(attempts)) \div 2
    IN  IF delay < MinDelay THEN MinDelay ELSE delay
RecoveryDelay(class, attempts) ==
    LET halves == CASE class = "urgent" -> 0 [] class = "high" -> 1 [] OTHER -> 2
    IN  (Backoff * halves * Doubling(attempts)) \div 2

Init ==
    /\ now = 0
    /\ rows = [id \in TaskIds |-> NoRow]
    /\ pc = [th \in Threads |-> "idle"]
    /\ plan = [th \in Threads |-> {}]
    /\ fresh = [th \in Threads |-> {}]
    /\ drain = [th \in Threads |-> FALSE]
    /\ item = [th \in Threads |-> NoItem]
    /\ current = [th \in Threads |-> 0]
    /\ readAt = [th \in Threads |-> 0]
    /\ cancelIds = [th \in Threads |-> {}]
    /\ failIds = [th \in Threads |-> {}]
    /\ retryAt = [th \in Threads |-> NoRetry]
    /\ claimIds = [th \in Threads |-> {}]
    /\ targeted = [th \in Threads |-> {}]
    /\ supplemental = [th \in Threads |-> {}]
    /\ warmed = {}
    /\ crashes = 0

Tick ==
    /\ now < MaxTime
    /\ now' = now + 1
    /\ UNCHANGED <<rows, pc, drain, enqueueing, decision, batch, warmed, crashes>>

Goto(th, label) == pc' = [pc EXCEPT ![th] = label]

-----------------------------------------------------------------------------
(* What the UPDATE statements do to a row.  None of them looks at the      *)
(* status the row has by then: every WHERE clause names task ids only.     *)

Canceled(row) == [row EXCEPT !.status = "canceled", !.updated = now, !.next = NoTime]
Settled(row, status, at) ==
    [row EXCEPT !.status = status, !.updated = at, !.next = NoTime]
\* Mutant: the claim leaves the old backoff date on the row.
ClaimedKeepsBackoff(row) ==
    [row EXCEPT !.status = "processing", !.attempts = @ + 1, !.updated = now]
Claimed(row) == [row EXCEPT !.status = "processing", !.attempts = @ + 1,
                            !.updated = now, !.next = NoTime]
Deferred(row, at, next) ==
    [row EXCEPT !.status = "deferred", !.updated = at, !.next = next]
\* Mutant: a recovered row starts its attempts over.
RecoveredFromZero(row, at, next) ==
    [row EXCEPT !.status = IF next = NoTime THEN "pending" ELSE "deferred",
                !.attempts = 0, !.updated = at, !.next = next]
\* A stale row goes back to the backlog, at once when its delay is zero.
Recovered(row, at, next) ==
    [row EXCEPT !.status = IF next = NoTime THEN "pending" ELSE "deferred",
                !.updated = at, !.next = next]

-----------------------------------------------------------------------------
(* finalize_generated_content: enqueue_plan, one request after the other.  *)

\* Bound: a plan is accepted only when the table still has room for it.
HasRoom(requests) ==
    Cardinality(Existing) + Cardinality(requests)
      + Cardinality({due \in Threads \X Fingerprints : due[2] \in plan[due[1]]})
    <= MaxTasks

StartGenerate(th, requests) ==
    /\ pc[th] = "idle"
    /\ requests # {}
    /\ HasRoom(requests)
    /\ plan' = [plan EXCEPT ![th] = requests]
    /\ fresh' = [fresh EXCEPT ![th] = {}]
    /\ drain' = [drain EXCEPT ![th] = FALSE]
    /\ Goto(th, "enqueue")
    /\ UNCHANGED <<now, rows, item, decision, batch, warmed, crashes>>

\* The rows that make a new request a duplicate: deferred ones do not.
Duplicates(fp) ==
    {id \in TaskIds : rows[id].fp = fp /\ rows[id].status \in {"pending", "processing"}}

EnqueueSelect(th, fp) ==
    /\ pc[th] = "enqueue"
    /\ fp \in plan[th]
    /\ readAt' = [readAt EXCEPT ![th] = now]
    /\ IF Duplicates(fp) = {}
       THEN /\ item' = [item EXCEPT ![th] = fp]
            /\ Goto(th, "insert")
            /\ UNCHANGED plan
       ELSE /\ plan' = [plan EXCEPT ![th] = @ \ {fp}]
            /\ UNCHANGED <<item, pc>>
    /\ UNCHANGED <<now, rows, fresh, drain, cancelIds, failIds, retryAt, claimIds,
                   batch, warmed, crashes>>

\* Mutant: the insert is rolled back, its task id is reported all the same.
EnqueueInsertLost(th, id) ==
    /\ pc[th] = "insert"
    /\ id \in TaskIds \ Existing
    /\ fresh' = [fresh EXCEPT ![th] = @ \cup {id}]
    /\ plan' = [plan EXCEPT ![th] = @ \ {item[th]}]
    /\ item' = [item EXCEPT ![th] = NoItem]
    /\ Goto(th, "enqueue")
    /\ UNCHANGED <<now, rows, drain, decision, batch, warmed, crashes>>

\* Ids are handed out in insertion order, the order the code sorts rows by.
EnqueueInsert(th, id) ==
    /\ pc[th] = "insert"
    /\ id \in TaskIds \ Existing
    /\ \A other \in TaskIds \ Existing : id <= other
    /\ rows' = [rows EXCEPT ![id] =
                  [fp |-> item[th], status |-> "pending", attempts |-> 0,
                   created |-> readAt[th], updated |-> readAt[th], next |-> NoTime]]
    /\ fresh' = [fresh EXCEPT ![th] = @ \cup {id}]
    /\ plan' = [plan EXCEPT ![th] = @ \ {item[th]}]
    /\ item' = [item EXCEPT ![th] = NoItem]
    /\ Goto(th, "enqueue")
    /\ UNCHANGED <<now, drain, decision, batch, warmed, crashes>>

-----------------------------------------------------------------------------
(* sweep: expired rows are canceled, rows stuck in processing are retried  *)
(* or given up.  It opens every pass.                                      *)

\* Mutant: the sweep reads the backlog only.
SweepRowsWaiting == InStatus({"pending", "deferred"})
SweepRows == InStatus(Active)
SweepExpired == {id \in SweepRows : Expired(rows[id], now)}

\* Mutant: the status test is dropped.
SweepStaleAnyStatus == {id \in SweepRows \ SweepExpired :
                          rows[id].updated <= now - ProcTimeout}
SweepStale == {id \in SweepRows \ SweepExpired :
                 /\ rows[id].status = "processing"
                 /\ rows[id].updated <= now - ProcTimeout}
SweepExhausted == {id \in SweepStale : Spent(rows[id])}
SweepRetryAt ==
    [id \in SweepStale \ SweepExhausted |->
        LET delay == RecoveryDelay(ClassOf(rows[id]), rows[id].attempts)
        IN  IF delay = 0 THEN NoTime ELSE now + delay]

\* claim_tasks is skipped when the request enqueued nothing.
AfterSweep(th, draining) == IF draining \/ fresh[th] = {} THEN "backlog" ELSE "targets"

SweepSelect(th, draining) ==
    /\ readAt' = [readAt EXCEPT ![th] = now]
    /\ cancelIds' = [cancelIds EXCEPT ![th] = SweepExpired]
    /\ failIds' = [failIds EXCEPT ![th] = SweepExhausted]
    /\ retryAt' = [retryAt EXCEPT ![th] = SweepRetryAt]
    /\ Goto(th, IF SweepExpired \cup SweepStale = {}
                THEN AfterSweep(th, draining) ELSE "sweep")
    /\ UNCHANGED <<now, rows, enqueueing, claimIds, batch, warmed, crashes>>

\* process_pending
StartDrain(th) ==
    /\ pc[th] = "idle"
    /\ drain' = [drain EXCEPT ![th] = TRUE]
    /\ SweepSelect(th, TRUE)

\* process_inline
StartInline(th) ==
    /\ pc[th] = "enqueue"
    /\ plan[th] = {}
    /\ SweepSelect(th, FALSE)
    /\ UNCHANGED drain

\* process_inline of a process whose limit is zero.  The setting is read when a
\* process starts; the model does not remember which of its processes is which.
SkipInline(th) ==
    /\ InlineMayBeOff
    /\ pc[th] = "enqueue"
    /\ plan[th] = {}
    /\ Goto(th, "idle")
    /\ fresh' = [fresh EXCEPT ![th] = {}]
    /\ UNCHANGED <<now, rows, plan, item, drain, decision, batch, warmed, crashes>>

SweepWrite(th) ==
    /\ pc[th] = "sweep"
    /\ rows' = [id \in TaskIds |->
                  IF id \in cancelIds[th] THEN Canceled(rows[id])
                  ELSE IF id \in failIds[th] THEN Settled(rows[id], "failed", readAt[th])
                  ELSE IF id \in DOMAIN retryAt[th]
                       THEN Recovered(rows[id], readAt[th], retryAt[th][id])
                  ELSE rows[id]]
    /\ cancelIds' = [cancelIds EXCEPT ![th] = {}]
    /\ failIds' = [failIds EXCEPT ![th] = {}]
    /\ retryAt' = [retryAt EXCEPT ![th] = NoRetry]
    /\ Goto(th, AfterSweep(th, drain[th]))
    /\ UNCHANGED <<now, enqueueing, drain, readAt, claimIds, batch, warmed, crashes>>

-----------------------------------------------------------------------------
(* claim_tasks: the first InlineLimit of the rows this request enqueued,   *)
(* as far as they are still pending.  Expiry is not looked at.             *)

FreshTargets(th) ==
    {id \in fresh[th] : Cardinality({other \in fresh[th] : other < id}) < InlineLimit}

ClaimTargetsSelect(th) ==
    LET claimable == {id \in FreshTargets(th) : rows[id].status = "pending"}
    IN  /\ pc[th] = "targets"
        /\ claimIds' = [claimIds EXCEPT ![th] = claimable]
        /\ Goto(th, IF claimable = {} THEN "backlog" ELSE "claimTargets")
        /\ UNCHANGED <<now, rows, enqueueing, drain, readAt, cancelIds, failIds,
                       retryAt, batch, warmed, crashes>>

ClaimTargetsWrite(th) ==
    /\ pc[th] = "claimTargets"
    /\ rows' = [id \in TaskIds |->
                  IF id \in claimIds[th] THEN Claimed(rows[id]) ELSE rows[id]]
    /\ targeted' = [targeted EXCEPT ![th] = claimIds[th]]
    /\ claimIds' = [claimIds EXCEPT ![th] = {}]
    /\ Goto(th, "backlog")
    /\ UNCHANGED <<now, enqueueing, drain, readAt, cancelIds, failIds, retryAt,
                   supplemental, current, warmed, crashes>>

-----------------------------------------------------------------------------
(* claim_pending: cancel what expired, claim the best of what is eligible. *)

Backlog == InStatus({"pending", "deferred"})
BacklogExpired == {id \in Backlog : Expired(rows[id], now)}
BacklogEligible ==
    {id \in Backlog \ BacklogExpired :
        rows[id].next = NoTime \/ rows[id].next <= now}
AsTask(id) == [id |-> id, class |-> ClassOf(rows[id]), score |-> Request[rows[id].fp].score,
               created |-> rows[id].created, attempts |-> rows[id].attempts]
SelectedIds(limit) ==
    {id \in BacklogEligible :
        AsTask(id) \in SelectTaskBatch({AsTask(e) : e \in BacklogEligible}, limit, now)}

Capacity(th) == IF drain[th] THEN DrainLimit ELSE InlineLimit - Cardinality(targeted[th])

ClaimBacklogSelect(th) ==
    LET selected == SelectedIds(Capacity(th))
    IN  /\ pc[th] = "backlog"
        /\ drain[th] \/ Capacity(th) > 0
        /\ cancelIds' = [cancelIds EXCEPT ![th] = BacklogExpired]
        /\ claimIds' = [claimIds EXCEPT ![th] = selected]
        /\ Goto(th, IF BacklogExpired \cup selected = {} THEN "work" ELSE "claimBacklog")
        /\ UNCHANGED <<now, rows, enqueueing, drain, readAt, failIds, retryAt, batch,
                       warmed, crashes>>

NoSpareCapacity(th) ==
    /\ pc[th] = "backlog"
    /\ ~drain[th]
    /\ Capacity(th) <= 0
    /\ Goto(th, "work")
    /\ UNCHANGED <<now, rows, enqueueing, drain, decision, batch, warmed, crashes>>

ClaimBacklogWrite(th) ==
    /\ pc[th] = "claimBacklog"
    /\ rows' = [id \in TaskIds |->
                  IF id \in cancelIds[th] THEN Canceled(rows[id])
                  ELSE IF id \in claimIds[th] THEN Claimed(rows[id])
                  ELSE rows[id]]
    /\ supplemental' = [supplemental EXCEPT ![th] = claimIds[th]]
    /\ cancelIds' = [cancelIds EXCEPT ![th] = {}]
    /\ claimIds' = [claimIds EXCEPT ![th] = {}]
    /\ Goto(th, "work")
    /\ UNCHANGED <<now, enqueueing, drain, readAt, failIds, retryAt, targeted, current,
                   warmed, crashes>>

-----------------------------------------------------------------------------
(* _process_tasks: claimed rows are warmed one after the other, those of   *)
(* claim_tasks first.  The order inside each group is left open.           *)

Remaining(th) == targeted[th] \cup supplemental[th]

Take(th, id) ==
    \/ /\ id \in targeted[th]
       /\ targeted' = [targeted EXCEPT ![th] = @ \ {id}]
       /\ UNCHANGED supplemental
    \/ /\ targeted[th] = {}
       /\ id \in supplemental[th]
       /\ supplemental' = [supplemental EXCEPT ![th] = @ \ {id}]
       /\ UNCHANGED targeted

BeginWarm(th, id) ==
    /\ pc[th] = "work"
    /\ Take(th, id)
    /\ current' = [current EXCEPT ![th] = id]
    /\ Goto(th, "warm")
    /\ UNCHANGED <<now, rows, enqueueing, drain, decision, warmed, crashes>>

\* The learner has no profile (any more): mark_failed.
ProfileMissing(th, id) ==
    /\ pc[th] = "work"
    /\ Take(th, id)
    /\ rows' = [rows EXCEPT ![id] = Settled(@, "failed", now)]
    /\ UNCHANGED <<now, pc, enqueueing, drain, decision, current, warmed, crashes>>

\* The generation ran and its content is stored; the row is not touched yet.
WarmSucceeds(th) ==
    /\ pc[th] = "warm"
    /\ warmed' = warmed \cup {current[th]}
    /\ Goto(th, "complete")
    /\ UNCHANGED <<now, rows, enqueueing, drain, decision, batch, crashes>>

MarkCompleted(th) ==
    /\ pc[th] = "complete"
    /\ rows' = [rows EXCEPT ![current[th]] = Settled(@, "completed", now)]
    /\ current' = [current EXCEPT ![th] = 0]
    /\ Goto(th, "work")
    /\ UNCHANGED <<now, enqueueing, drain, decision, targeted, supplemental, warmed, crashes>>

\* Mutant: a skipped task is reported completed.
WarmSkippedCompletes(th) ==
    /\ pc[th] = "warm"
    /\ rows' = [rows EXCEPT ![current[th]] = Settled(@, "completed", now)]
    /\ current' = [current EXCEPT ![th] = 0]
    /\ Goto(th, "work")
    /\ UNCHANGED <<now, enqueueing, drain, decision, targeted, supplemental, warmed, crashes>>

\* warm() found no profile after all and generated nothing: mark_failed.
WarmSkipped(th) ==
    /\ pc[th] = "warm"
    /\ rows' = [rows EXCEPT ![current[th]] = Settled(@, "failed", now)]
    /\ current' = [current EXCEPT ![th] = 0]
    /\ Goto(th, "work")
    /\ UNCHANGED <<now, enqueueing, drain, decision, targeted, supplemental, warmed, crashes>>

\* The generation raised: defer_retry reads the row again.
WarmRaises(th) ==
    /\ pc[th] = "warm"
    /\ Goto(th, "retrySelect")
    /\ UNCHANGED <<now, rows, enqueueing, drain, decision, batch, warmed, crashes>>

RetrySelect(th) ==
    LET id  == current[th]
        row == rows[id]
    IN  /\ pc[th] = "retrySelect"
        /\ failIds' = [failIds EXCEPT ![th] = IF Spent(row) THEN {id} ELSE {}]
        /\ retryAt' = [retryAt EXCEPT ![th] =
                         IF Spent(row) THEN NoRetry
                         ELSE [i \in {id} |-> now + RetryDelay(ClassOf(row), row.attempts)]]
        /\ readAt' = [readAt EXCEPT ![th] = now]
        /\ Goto(th, "retryWrite")
        /\ UNCHANGED <<now, rows, enqueueing, drain, cancelIds, claimIds, batch,
                       warmed, crashes>>

RetryWrite(th) ==
    /\ pc[th] = "retryWrite"
    /\ rows' = [id \in TaskIds |->
                  IF id \in failIds[th] THEN Settled(rows[id], "failed", now)
                  ELSE IF id \in DOMAIN retryAt[th]
                       THEN Deferred(rows[id], readAt[th], retryAt[th][id])
                  ELSE rows[id]]
    /\ failIds' = [failIds EXCEPT ![th] = {}]
    /\ retryAt' = [retryAt EXCEPT ![th] = NoRetry]
    /\ current' = [current EXCEPT ![th] = 0]
    /\ Goto(th, "work")
    /\ UNCHANGED <<now, enqueueing, drain, readAt, cancelIds, claimIds, targeted,
                   supplemental, warmed, crashes>>

FinishPass(th) ==
    /\ pc[th] = "work"
    /\ Remaining(th) = {}
    /\ fresh' = [fresh EXCEPT ![th] = {}]
    /\ Goto(th, "idle")
    /\ UNCHANGED <<now, rows, plan, item, drain, decision, batch, warmed, crashes>>

-----------------------------------------------------------------------------
(* cancel_pending, called for every learner observation and Socratic       *)
(* outcome.  Only pending rows are looked at.                              *)

MatchesInvalidation(fp, student, session, targets) ==
    /\ Request[fp].student = student
    /\ session \in Sessions => Request[fp].session = session
    /\ targets # {} => Request[fp].targets \cap targets # {}

\* session is NoItem when the event names no learning session.
CancelSelect(th, student, session, targets) ==
    LET matched == {id \in InStatus({"pending"}) :
                      MatchesInvalidation(rows[id].fp, student, session, targets)}
    IN  /\ pc[th] = "idle"
        /\ matched # {}
        /\ cancelIds' = [cancelIds EXCEPT ![th] = matched]
        /\ Goto(th, "cancel")
        /\ UNCHANGED <<now, rows, enqueueing, drain, readAt, failIds, retryAt, claimIds,
                       batch, warmed, crashes>>

CancelWrite(th) ==
    /\ pc[th] = "cancel"
    /\ rows' = [id \in TaskIds |->
                  IF id \in cancelIds[th] THEN Canceled(rows[id]) ELSE rows[id]]
    /\ cancelIds' = [cancelIds EXCEPT ![th] = {}]
    /\ Goto(th, "idle")
    /\ UNCHANGED <<now, enqueueing, drain, readAt, failIds, retryAt, claimIds, batch,
                   warmed, crashes>>

-----------------------------------------------------------------------------
\* The thread dies between two of its statements: what it committed stays,
\* what it had decided or claimed in memory is lost.
Crash(th) ==
    /\ pc[th] # "idle"
    /\ crashes < MaxCrashes
    /\ crashes' = crashes + 1
    /\ Goto(th, "idle")
    /\ plan' = [plan EXCEPT ![th] = {}]
    /\ fresh' = [fresh EXCEPT ![th] = {}]
    /\ item' = [item EXCEPT ![th] = NoItem]
    /\ cancelIds' = [cancelIds EXCEPT ![th] = {}]
    /\ failIds' = [failIds EXCEPT ![th] = {}]
    /\ retryAt' = [retryAt EXCEPT ![th] = NoRetry]
    /\ claimIds' = [claimIds EXCEPT ![th] = {}]
    /\ targeted' = [targeted EXCEPT ![th] = {}]
    /\ supplemental' = [supplemental EXCEPT ![th] = {}]
    /\ current' = [current EXCEPT ![th] = 0]
    /\ UNCHANGED <<now, rows, drain, readAt, warmed>>

\* The steps a thread takes by itself once its request has started.
Progress(th) ==
    \/ \E fp \in Fingerprints : EnqueueSelect(th, fp)
    \/ \E id \in TaskIds : EnqueueInsert(th, id) \/ BeginWarm(th, id) \/ ProfileMissing(th, id)
    \/ StartInline(th) \/ SkipInline(th) \/ SweepWrite(th)
    \/ ClaimTargetsSelect(th) \/ ClaimTargetsWrite(th)
    \/ ClaimBacklogSelect(th) \/ NoSpareCapacity(th) \/ ClaimBacklogWrite(th)
    \/ WarmSucceeds(th) \/ MarkCompleted(th) \/ WarmSkipped(th)
    \/ WarmRaises(th) \/ RetrySelect(th) \/ RetryWrite(th)
    \/ FinishPass(th) \/ CancelWrite(th)

Invalidate(th) ==
    \E student \in Students, session \in Sessions \cup {NoItem}, targets \in SUBSET Targets :
        CancelSelect(th, student, session, targets)

Next ==
    \/ Tick
    \/ \E th \in Threads :
          \/ \E requests \in SUBSET Fingerprints : StartGenerate(th, requests)
          \/ StartDrain(th)
          \/ Progress(th)
          \/ Invalidate(th)
          \/ Crash(th)

Spec == Init /\ [][Next]_vars

\* A started request runs to its end unless its thread dies, and time passes.
Fairness == WF_vars(Tick) /\ \A th \in Threads : WF_vars(Progress(th))

FairSpec == Spec /\ Fairness

-----------------------------------------------------------------------------
(* Properties                                                              *)

Labels == {"idle", "enqueue", "insert", "sweep", "targets", "claimTargets", "backlog",
           "claimBacklog", "work", "warm", "complete", "retrySelect", "retryWrite",
           "cancel"}

\* Type invariant: every variable holds values of the shape the code stores.
TypeOK ==
    /\ now \in Nat
    /\ rows \in [TaskIds -> Row]
    /\ \A id \in Existing : rows[id].fp \in Fingerprints
    /\ pc \in [Threads -> Labels]
    /\ plan \in [Threads -> SUBSET Fingerprints]
    /\ fresh \in [Threads -> SUBSET Existing]
    /\ drain \in [Threads -> BOOLEAN]
    /\ item \in [Threads -> Fingerprints \cup {NoItem}]
    /\ \A th \in Threads : pc[th] = "insert" => item[th] \in Fingerprints
    /\ current \in [Threads -> {0} \cup Existing]
    /\ \A th \in Threads :
          pc[th] \in {"warm", "complete", "retrySelect", "retryWrite"} => current[th] # 0
    /\ readAt \in [Threads -> Nat]
    /\ cancelIds \in [Threads -> SUBSET Existing]
    /\ failIds \in [Threads -> SUBSET Existing]
    /\ retryAt = [th \in Threads |-> retryAt[th]]
    /\ \A th \in Threads : /\ DOMAIN retryAt[th] \subseteq Existing
                            /\ \A id \in DOMAIN retryAt[th] : retryAt[th][id] \in Int
    /\ claimIds \in [Threads -> SUBSET Existing]
    /\ targeted \in [Threads -> SUBSET Existing]
    /\ supplemental \in [Threads -> SUBSET Existing]
    /\ warmed \subseteq Existing
    /\ crashes \in Nat

Holds(th, id) == id \in Remaining(th) \/ current[th] = id

\* A backoff date is on a row exactly while the row is deferred, whatever the
\* threads overwrite: claim_pending and stats() both read eligibility off it.
DeferredIffScheduled ==
    \A id \in TaskIds : rows[id].status = "deferred" <=> rows[id].next # NoTime

\* A backoff date that defer_retry decided on is a real one.
DeferralsHaveDates ==
    \A th \in Threads : pc[th] = "retryWrite" =>
        \A id \in DOMAIN retryAt[th] : retryAt[th][id] # NoTime

\* attempt_count pays for every claim, also when several threads claim the same
\* row: it is never below the number of threads that still hold the row.
ClaimsAreCounted ==
    \A id \in TaskIds : Cardinality({th \in Threads : Holds(th, id)}) <= rows[id].attempts

\* A completed row has its content: no overwrite by a late thread makes a task
\* look warmed whose generation never ran.
CompletedWasWarmed ==
    \A id \in TaskIds : rows[id].status = "completed" => id \in warmed

\* The cap of a class is a hard one only while requests are served one at a time
\* (see ImplementsLifecycle).  When threads race it is a soft one: every other
\* thread may still defer the row on a count it read before the cap was reached,
\* and every thread may claim what was deferred so.
AttemptsBounded ==
    \A id \in Existing :
        rows[id].attempts <= RetryCap(ClassOf(rows[id])) + Cardinality(Threads) * (Cardinality(Threads) - 1)

\* Whatever threads crash or overwrite, every task whose expiry the clock reaches
\* ends in a terminal state and stays there, if drains are requested again and
\* again (nothing in the server schedules them: their callers do).
EverySettles ==
    ([]<><<\E th \in Threads : StartDrain(th)>>_vars) =>
        \A id \in TaskIds :
            [](rows[id].status # "absent" /\ rows[id].created + StaleAfter <= MaxTime
                 => <>[](rows[id].status \in Terminal))
=============================================================================
