---------------------------- MODULE SurplusQueue ----------------------------
(***************************************************************************)
(* What the surplus cache promises a learner's session: the questions that *)
(* were generated beyond the one shown are handed out later, in order, and *)
(* each at most once.  They may be forgotten (their time to live ends, or  *)
(* new evidence makes them stale), but never come back.                    *)
(***************************************************************************)
EXTENDS Sequences

CONSTANT Items

VARIABLES
    queue,  \* the questions waiting, first one first
    taken   \* every question handed out so far

queueVars == <<queue, taken>>

Seen == {queue[i] : i \in DOMAIN queue} \cup {taken[i] : i \in DOMAIN taken}

QueueInit == queue = <<>> /\ taken = <<>>

\* A new question is shown at once, or kept for later behind the others.
Show == \E item \in Items \ Seen : taken' = Append(taken, item) /\ UNCHANGED queue
Keep == \E item \in Items \ Seen : queue' = Append(queue, item) /\ UNCHANGED taken

Take ==
    /\ queue # <<>>
    /\ taken' = Append(taken, Head(queue))
    /\ queue' = Tail(queue)

Forget == queue' = <<>> /\ UNCHANGED taken

QueueNext == Show \/ Keep \/ Take \/ Forget
QueueSpec == QueueInit /\ [][QueueNext]_queueVars
=============================================================================
