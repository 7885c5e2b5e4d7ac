----------------------------- MODULE Retention ------------------------------
(***************************************************************************)
(* Retention reviews of one learner.  Evidence nominates a review, due in  *)
(* days that depend on how urgent it is; a nomination for a cluster that   *)
(* has an active review is merged into it, and reading the list of due     *)
(* reviews first marks those whose day has come.  Nominating and marking   *)
(* both read rows and write them back whole, one statement at a time and   *)
(* without a lock, so that requests at once may overwrite each other.  A   *)
(* row has the columns status and due, by which it is found, and a         *)
(* payload, which is what a reader gets.                                   *)
(* Nothing in the repository records that a review was done.               *)
(***************************************************************************)
EXTENDS Integers, Sequences, FiniteSetsExt, RetentionPromises

CONSTANTS
    Threads,       \* the requests of the learner, each of which nominates or lists
    MaxDays,       \* bound: days that pass
    MaxNominations \* bound: reviews nominated

\* What the constants must be.
RetentionAssumption == MaxDays \in Nat /\ MaxNominations \in Nat

VARIABLES
    doing,     \* what each request is doing
    nominated  \* reviews nominated (history)

vars == <<reviews, doing, today, promised, raced, nominated>>

Clusters == {"kc", "outcome", "concept"}
Never == MaxDays + 1

\* found: the row a candidate is merged into, none is 0, and the payload that was
\* read of it; marked: the rows that are due, with their payloads.
Idle == [pc |-> "idle", queue |-> <<>>, found |-> 0, read |-> {}, marked |-> {}]

Init ==
    /\ reviews = <<>> /\ doing = [t \in Threads |-> Idle]
    /\ today = 0 /\ promised = [c \in Clusters |-> Never] /\ raced = {} /\ nominated = 0

Doing(t, pc) == doing[t].pc = pc
Does(t, state) == doing' = [doing EXCEPT ![t] = state]

-----------------------------------------------------------------------------
(* What evidence nominates: the tier and the cluster by which the review    *)
(* is kept, unless the source or a progression that repairs or is blocked   *)
(* suppresses it.  The other sources are given no such context.             *)

Window == [light |-> 4, standard |-> 2, urgent |-> 1]
Rank == [light |-> 0, standard |-> 1, urgent |-> 2]

Candidate(cluster, tier) == [cluster |-> cluster, tier |-> tier, due |-> today + Window[tier]]

Unsuppressed(cluster, tier, suppressed) ==
    IF suppressed THEN <<>> ELSE <<Candidate(cluster, tier)>>

Dependent == {"fragile", "support_dependent"}

\* _observation_writeback_candidates: mastery was written back.  alone: the
\* evidence is demonstrated, with low support and a score of 0.72.
FromWriteback(signal, alone, confident) ==
    IF signal \in Dependent THEN Unsuppressed("kc", "standard", TRUE)
    ELSE IF signal \notin {"emerging_mastery", "durable_mastery"} /\ ~alone THEN <<>>
    ELSE IF signal = "durable_mastery" /\ confident THEN <<Candidate("kc", "light")>>
    ELSE <<Candidate("kc", "standard")>>

\* nominate_from_outcome_progress: near is a mastery ratio of 0.76.
FromOutcome(state, quality, near, repairing) ==
    IF quality \in Dependent THEN Unsuppressed("outcome", "standard", TRUE)
    ELSE IF state = "mastered" THEN Unsuppressed("outcome", "light", repairing)
    ELSE IF state = "ready" /\ near THEN Unsuppressed("outcome", "standard", repairing)
    ELSE <<>>

\* _risk_marker_candidates and then _recovery_pattern_candidates, of a concept
\* cluster of their own.
FromPlanning(risk, weak, recovered) ==
    (IF risk = "low" \/ weak THEN <<>>
     ELSE <<Candidate("concept", IF risk = "high" THEN "urgent" ELSE "standard")>>)
        \o (IF recovered THEN <<Candidate("concept", "urgent")>> ELSE <<>>)

Start(t, candidates) ==
    /\ Doing(t, "idle") /\ candidates # <<>> /\ nominated < MaxNominations
    /\ Does(t, [Idle EXCEPT !.pc = "find", !.queue = candidates])
    /\ nominated' = nominated + 1
    /\ UNCHANGED <<reviews, today, promised, raced>>

NominateFromWriteback(t) ==
    \E signal \in Dependent \cup {"steady", "emerging_mastery", "durable_mastery"},
       alone, confident \in BOOLEAN :
        Start(t, FromWriteback(signal, alone, confident))

NominateFromProgression(t) ==
    \E state \in {"mastered", "ready", "blocked"}, quality \in Dependent \cup {"independent"},
       near, repairing \in BOOLEAN :
        Start(t, FromOutcome(state, quality, near, repairing))

NominateFromPlanning(t) ==
    \E risk \in {"low", "moderate", "high"}, weak, recovered \in BOOLEAN :
        Start(t, FromPlanning(risk, weak, recovered))

-----------------------------------------------------------------------------
\* active_for_cluster: the one due first.
Find(t) ==
    LET active == Active(Head(doing[t].queue).cluster)
        first == {i \in active : \A j \in active : reviews[i].due <= reviews[j].due}
    IN  /\ Doing(t, "find")
        /\ IF active = {} THEN Does(t, [doing[t] EXCEPT !.pc = "store"])
           ELSE \E i \in first :
                  Does(t, [doing[t] EXCEPT !.pc = "store", !.found = i,
                                           !.read = {reviews[i].payload}])
        /\ UNCHANGED <<reviews, today, promised, raced, nominated>>

\* Mutant: the newest nomination sets the day.
MergedLatest(old, c) ==
    [old EXCEPT !.due = c.due, !.tier = IF Rank[c.tier] > Rank[@] THEN c.tier ELSE @]

Merged(old, c) ==
    [old EXCEPT !.due = Min({@, c.due}), !.tier = IF Rank[c.tier] > Rank[@] THEN c.tier ELSE @]

Row(cluster, payload) ==
    [cluster |-> cluster, status |-> payload.status, due |-> payload.due, payload |-> payload]

\* Two requests read the same row, and both will write it back.
Races(t, i) == i # 0 /\ \E u \in Threads \ {t} : Doing(u, "store") /\ doing[u].found = i

\* The candidate is merged into what was read, or inserted.
Store(t) ==
    LET c == Head(doing[t].queue)
        rest == Tail(doing[t].queue)
        i == doing[t].found
    IN  /\ Doing(t, "store")
        /\ reviews' =
            IF i = 0
            THEN Append(reviews, Row(c.cluster, [status |-> "scheduled", due |-> c.due, tier |-> c.tier]))
            ELSE [reviews EXCEPT ![i] =
                    Row(c.cluster, Merged(CHOOSE p \in doing[t].read : TRUE, c))]
        /\ Does(t, IF rest = <<>> THEN Idle ELSE [Idle EXCEPT !.pc = "find", !.queue = rest])
        /\ promised' = [promised EXCEPT ![c.cluster] = Min({@, c.due})]
        /\ raced' = raced \cup (IF Races(t, i) THEN {c.cluster} ELSE {})
        /\ UNCHANGED <<today, nominated>>

\* The request fails or its thread dies.
Fail(t) ==
    /\ ~Doing(t, "idle")
    /\ Does(t, Idle)
    /\ UNCHANGED <<reviews, today, promised, raced, nominated>>

-----------------------------------------------------------------------------
\* _mark_due reads the scheduled reviews whose day has come ...
MarkRead(t) ==
    /\ Doing(t, "idle")
    /\ Does(t, [Idle EXCEPT !.pc = "mark", !.marked =
         {<<i, reviews[i].payload>> : i \in
            {j \in DOMAIN reviews : reviews[j].status = "scheduled" /\ reviews[j].due <= today}}])
    /\ UNCHANGED <<reviews, today, promised, raced, nominated>>

\* ... and writes them back as due: the status and the payload it read, not
\* the day they are due.
MarkWrite(t) ==
    LET marked == {m[1] : m \in doing[t].marked}
        payload(i) == (CHOOSE m \in doing[t].marked : m[1] = i)[2]
    IN  /\ Doing(t, "mark")
        /\ reviews' = [i \in DOMAIN reviews |->
              IF i \notin marked THEN reviews[i]
              ELSE [reviews[i] EXCEPT !.status = "due",
                                      !.payload = [payload(i) EXCEPT !.status = "due"]]]
        /\ Does(t, Idle)
        /\ UNCHANGED <<today, promised, raced, nominated>>

Tomorrow ==
    /\ today < MaxDays
    /\ today' = today + 1
    /\ UNCHANGED <<reviews, doing, promised, raced, nominated>>

Next ==
    \/ \E t \in Threads :
          \/ NominateFromWriteback(t) \/ NominateFromProgression(t) \/ NominateFromPlanning(t)
          \/ Find(t) \/ Store(t) \/ MarkRead(t) \/ MarkWrite(t) \/ Fail(t)
    \/ Tomorrow

Spec == Init /\ [][Next]_vars
=============================================================================
