---------------------------- MODULE WarmPromises ----------------------------
(***************************************************************************)
(* What WarmQueue promises of each task while requests are served one at a *)
(* time, over the part of its state that says so: the table of tasks, seen *)
(* as the states of WarmLifecycle.                                         *)
(***************************************************************************)
EXTENDS Integers

CONSTANTS
    Request,  \* what the queue looks at in each distinct queued request
    MaxRetry, \* max_retry_attempts
    MaxTasks  \* bound: rows the table ever holds

VARIABLE
    rows      \* the table predictive_warm_queue

TaskIds == 1 .. MaxTasks
ClassOf(row) == Request[row.fp].class

\* _max_retry_attempts_for
RetryCap(class) ==
    CASE class = "urgent" -> MaxRetry + 1
      [] class = "high"   -> MaxRetry
      [] OTHER            -> IF MaxRetry > 1 THEN MaxRetry - 1 ELSE 1

TaskStatus == [id \in TaskIds |-> rows[id].status]
TaskAttempts == [id \in TaskIds |-> rows[id].attempts]
TaskCap == [id \in TaskIds |->
              IF rows[id].status = "absent" THEN 0 ELSE RetryCap(ClassOf(rows[id]))]

Lifecycle == INSTANCE WarmLifecycle
               WITH status <- TaskStatus, attempts <- TaskAttempts, cap <- TaskCap,
                    TaskIds <- TaskIds, Caps <- {RetryCap(Request[fp].class) : fp \in DOMAIN Request}

\* Every step of the queue is one legal move of each task it touches, crashes
\* between any two statements included.
ImplementsLifecycle == Lifecycle!LifecycleSpec
=============================================================================
