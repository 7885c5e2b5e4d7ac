---------------------------- MODULE WarmLifecycle ----------------------------
(***************************************************************************)
(* What the predictive warm queue promises about each task, without        *)
(* threads, statements or a clock: a task is enqueued once, is claimed at  *)
(* most Cap times, is warmed only while it is processing, and reaches      *)
(* completed, failed or canceled for good.  One step of the queue may move *)
(* several tasks (a sweep, a claim of a batch), each by one legal move.    *)
(***************************************************************************)
EXTENDS Integers

CONSTANTS TaskIds, Caps

VARIABLES
    status,     \* of each task
    attempts,   \* how often each task has been claimed
    cap         \* how often it may be claimed, fixed when it is enqueued

lifecycleVars == <<status, attempts, cap>>

\* enqueue
Enqueued(id) ==
    /\ status[id] = "absent" /\ status'[id] = "pending"
    /\ attempts'[id] = attempts[id]
    /\ cap'[id] \in Caps

\* claim_tasks, claim_pending
Claim(id) ==
    /\ status[id] \in {"pending", "deferred"} /\ status'[id] = "processing"
    /\ attempts[id] < cap[id] /\ attempts'[id] = attempts[id] + 1

\* mark_completed, mark_failed, and the failure of a spent retry
Settle(id) ==
    /\ status[id] = "processing" /\ status'[id] \in {"completed", "failed"}
    /\ attempts'[id] = attempts[id]

\* defer_retry, and the requeue of a sweep
Requeue(id) ==
    /\ status[id] = "processing" /\ status'[id] \in {"pending", "deferred"}
    /\ attempts[id] < cap[id] /\ attempts'[id] = attempts[id]

\* cancel_pending, and the expiry of a sweep or claim
Cancel(id) ==
    /\ status[id] \in {"pending", "deferred", "processing"} /\ status'[id] = "canceled"
    /\ attempts'[id] = attempts[id]

Rest(id) == status'[id] = status[id] /\ attempts'[id] = attempts[id]

Move(id) ==
    \/ Enqueued(id)
    \/ /\ Claim(id) \/ Settle(id) \/ Requeue(id) \/ Cancel(id) \/ Rest(id)
       /\ cap'[id] = cap[id]

LifecycleInit ==
    /\ status = [id \in TaskIds |-> "absent"]
    /\ attempts = [id \in TaskIds |-> 0]
    /\ cap = [id \in TaskIds |-> 0]

LifecycleNext == \A id \in TaskIds : Move(id)

LifecycleSpec == LifecycleInit /\ [][LifecycleNext]_lifecycleVars
=============================================================================
