-------------------------- MODULE RetentionPromises --------------------------
(***************************************************************************)
(* What Retention promises a learner, over the part of its state that says *)
(* so: the rows, the day, and what is remembered of the nominations.       *)
(***************************************************************************)
EXTENDS Integers

VARIABLES
    reviews, \* the rows, in the order they were inserted
    today,
    promised, \* the nearest day each cluster's review was nominated for (history)
    raced     \* clusters with a review that requests at once merged into (history)

Active(cluster) ==
    {i \in DOMAIN reviews :
        reviews[i].cluster = cluster /\ reviews[i].status \in {"scheduled", "due"}}

\* A review that was nominated comes up no later than it was nominated for,
\* however it was merged and marked since: once that day has come, its cluster
\* has an active review whose own day has come, which the next list shows.  Two
\* requests that read a review and then both write it back may lose the nearer
\* day (retention_scheduler.py:80-87), and such a cluster is excepted; requests at
\* once that insert, each a review of its own, mark or merge into different rows
\* are not.
PromiseKept ==
    \A c \in DOMAIN promised \ raced : promised[c] <= today =>
        \E i \in Active(c) : reviews[i].due <= today
=============================================================================
