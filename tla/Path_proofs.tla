------------------------------ MODULE Path_proofs ------------------------------
(***************************************************************************)
(* Proofs about a learner's path: that a nominated review comes up no      *)
(* later than it was nominated for (Retention), where a learner is placed  *)
(* in any corpus (Placement), and that whoever opens the workspace and     *)
(* meets no other puts the learner back on course (Planning).              *)
(***************************************************************************)
EXTENDS Retention, PlacementPromises, PlanningPromises, SequenceTheorems, WellFoundedInduction,
        NaturalsInduction, TLAPS

CONSTANTS Anchors, Profiles, Imported, Progressions, Adaptations, Targets, Wanted, Sessions, MaxRequests,
          MaxUpsets
VARIABLES thread, mapped, stale, moved, now, requests, upsets
Placing == INSTANCE Placement
Plan == INSTANCE Planning

-----------------------------------------------------------------------------
(* Retention.                                                               *)

Tiers == {"light", "standard", "urgent"}
Statuses == {"scheduled", "due"}
Nominees == [cluster : Clusters, tier : Tiers, due : Nat]
Payloads == [status : Statuses, due : Nat, tier : Tiers]
Rows == [cluster : Clusters, status : Statuses, due : Nat, payload : Payloads]
Doings == [pc : {"idle", "find", "store", "mark"}, queue : Seq(Nominees), found : Nat,
           read : SUBSET Payloads, marked : SUBSET (Nat \X Payloads)]

TypeOK ==
    /\ reviews \in Seq(Rows) /\ raced \subseteq Clusters
    /\ promised \in [Clusters -> Nat] /\ today \in 0 .. MaxDays
    /\ doing = [t \in Threads |-> doing[t]]

\* Marking reviews due may put an older payload back, but only one whose day has
\* come: what the next merge starts from is not later than the row, or not later
\* than today.
InTime(payload, due, date) == payload.due <= due \/ payload.due <= date

\* What is promised to a cluster is kept by a review, or was overtaken by time.
Keeps(review, c, day, date) ==
    review.cluster = c /\ (review.due <= day \/ review.due <= date)

\* What a request read of a review is not later than the review, unless another
\* request wrote it since; what it marks had come when it was read.
InHand(s, rows, exempt, date) ==
    /\ s \in Doings
    /\ s.pc \in {"find", "store"} => s.queue # <<>>
    /\ s.pc = "find" => s.found = 0
    /\ \A m \in s.marked : m[2].due <= date
    /\ s.pc = "store" /\ s.found # 0 =>
         /\ s.found \in DOMAIN rows
         /\ rows[s.found].cluster = Head(s.queue).cluster
         /\ \E p \in Payloads :
              /\ s.read = {p}
              /\ rows[s.found].cluster \notin exempt => InTime(p, rows[s.found].due, date)

IInv ==
    /\ TypeOK
    /\ \A i \in DOMAIN reviews : InTime(reviews[i].payload, reviews[i].due, today)
    /\ \A c \in Clusters \ raced : promised[c] < Never =>
         \E i \in DOMAIN reviews : Keeps(reviews[i], c, promised[c], today)
    /\ \A t \in Threads : InHand(doing[t], reviews, raced, today)

-----------------------------------------------------------------------------
LEMMA MinOfTwo == \A x, y \in Nat : Min({x, y}) \in Nat /\ Min({x, y}) <= x /\ Min({x, y}) <= y
                                    /\ (Min({x, y}) = x \/ Min({x, y}) = y)
<1> SUFFICES ASSUME NEW x \in Nat, NEW y \in Nat
             PROVE  /\ Min({x, y}) \in Nat /\ Min({x, y}) <= x /\ Min({x, y}) <= y
                    /\ Min({x, y}) = x \/ Min({x, y}) = y
  OBVIOUS
<1>1. \E m \in {x, y} : \A z \in {x, y} : m <= z
  OBVIOUS
<1>2. Min({x, y}) \in {x, y} /\ \A z \in {x, y} : Min({x, y}) <= z
  BY <1>1 DEF Min
<1>3. QED
  BY <1>2

LEMMA IdleInHand == Idle \in Doings /\ Idle.pc = "idle" /\ \A rows, exempt, date : InHand(Idle, rows, exempt, date)
<1>1. /\ Idle \in Doings /\ Idle.pc = "idle" /\ Idle.marked = {}
  BY DEF Idle, Doings
<1>2. QED
  BY <1>1 DEF InHand

\* Whatever the source, what is nominated names a cluster and a day.
LEMMA NomineesTyped ==
    ASSUME TypeOK, RetentionAssumption, NEW q,
           \/ \E signal, alone, confident : q = FromWriteback(signal, alone, confident)
           \/ \E state, quality, near, repairing : q = FromOutcome(state, quality, near, repairing)
           \/ \E risk, weak, recovered : q = FromPlanning(risk, weak, recovered)
    PROVE  q \in Seq(Nominees)
<1>1. \A cluster \in Clusters, tier \in Tiers : Candidate(cluster, tier) \in Nominees
  BY DEF Candidate, Nominees, Tiers, Window, TypeOK, RetentionAssumption
<1>2. \A cluster \in Clusters, tier \in Tiers :
        /\ <<Candidate(cluster, tier)>> \in Seq(Nominees)
        /\ \A suppressed : Unsuppressed(cluster, tier, suppressed) \in Seq(Nominees)
  BY <1>1 DEF Unsuppressed
<1>3. <<>> \in Seq(Nominees)
  OBVIOUS
<1>4. /\ {"kc", "outcome", "concept"} \subseteq Clusters
      /\ {"light", "standard", "urgent"} \subseteq Tiers
  BY DEF Clusters, Tiers
<1>5. ASSUME NEW signal, NEW alone, NEW confident, q = FromWriteback(signal, alone, confident)
      PROVE  q \in Seq(Nominees)
  BY <1>2, <1>3, <1>4, <1>5 DEF FromWriteback
<1>6. ASSUME NEW state, NEW quality, NEW near, NEW repairing,
             q = FromOutcome(state, quality, near, repairing)
      PROVE  q \in Seq(Nominees)
  BY <1>2, <1>3, <1>4, <1>6 DEF FromOutcome
<1>7. ASSUME NEW risk, NEW weak, NEW recovered, q = FromPlanning(risk, weak, recovered)
      PROVE  q \in Seq(Nominees)
  <2>1. PICK a, b : /\ a \in Seq(Nominees) /\ b \in Seq(Nominees) /\ q = a \o b
    BY <1>2, <1>3, <1>4, <1>7 DEF FromPlanning
  <2>2. QED
    BY <2>1
<1>8. QED
  BY <1>5, <1>6, <1>7

-----------------------------------------------------------------------------
(* The steps.                                                               *)

LEMMA RowTyped ==
    ASSUME IInv, NEW i \in DOMAIN reviews
    PROVE  /\ reviews[i] \in Rows /\ i \in Nat /\ i # 0 /\ reviews[i].payload \in Payloads
           /\ reviews[i].due \in Nat /\ reviews[i].payload.due \in Nat
           /\ reviews[i].status \in Statuses
<1>1. reviews[i] \in Rows /\ i \in Nat /\ i # 0
  BY DEF IInv, TypeOK
<1>2. reviews[i].payload \in Payloads /\ reviews[i].due \in Nat /\ reviews[i].status \in Statuses
  BY <1>1 DEF Rows
<1>3. QED
  BY <1>1, <1>2 DEF Payloads

\* A step of one request that leaves the rows alone.
LEMMA OnlyRequest ==
    ASSUME IInv, NEW t \in Threads, NEW s, Does(t, s), InHand(s, reviews, raced, today),
           UNCHANGED <<reviews, today, promised, raced>>
    PROVE  IInv'
<1>1. /\ doing' = [u \in Threads |-> doing'[u]]
      /\ \A u \in Threads : doing'[u] = IF u = t THEN s ELSE doing[u]
  BY DEF Does, IInv, TypeOK
<1>2. \A u \in Threads : InHand(doing'[u], reviews, raced, today)
  BY <1>1 DEF IInv
<1>3. TypeOK'
  BY <1>1 DEF IInv, TypeOK
<1>4. QED
  BY <1>2, <1>3 DEF IInv, Never

LEMMA StartStep ==
    ASSUME IInv, RetentionAssumption, NEW t \in Threads,
           NominateFromWriteback(t) \/ NominateFromProgression(t) \/ NominateFromPlanning(t)
    PROVE  IInv'
<1>1. PICK q : q \in Seq(Nominees) /\ Start(t, q)
  BY NomineesTyped DEF IInv, NominateFromWriteback, NominateFromProgression, NominateFromPlanning
<1>2. PICK s : s = [Idle EXCEPT !.pc = "find", !.queue = q]
  OBVIOUS
<1>3. s = [pc |-> "find", queue |-> q, found |-> 0, read |-> {}, marked |-> {}]
  BY <1>2 DEF Idle
<1>4. q # <<>> /\ Does(t, s) /\ UNCHANGED <<reviews, today, promised, raced>>
  BY <1>1, <1>2 DEF Start
<1>5. s \in Doings
  BY <1>1, <1>3 DEF Doings
<1>6. InHand(s, reviews, raced, today)
  BY <1>3, <1>4, <1>5 DEF InHand
<1>7. QED
  BY <1>4, <1>6, OnlyRequest

LEMMA FindStep == ASSUME IInv, NEW t \in Threads, Find(t) PROVE IInv'
<1> DEFINE d == doing[t]
           active == Active(Head(d.queue).cluster)
<1>1. /\ d.pc = "find" /\ UNCHANGED <<reviews, today, promised, raced>>
      /\ InHand(d, reviews, raced, today)
  BY DEF Find, Doing, IInv
<1>2. PICK s : /\ Does(t, s)
               /\ \/ s = [d EXCEPT !.pc = "store"]
                  \/ \E i \in active :
                       s = [d EXCEPT !.pc = "store", !.found = i, !.read = {reviews[i].payload}]
  BY Zenon DEF Find
<1>3. d \in Doings /\ d.queue # <<>> /\ \A m \in d.marked : m[2].due <= today
  BY <1>1 DEF InHand
<1> HIDE DEF d
<1>4. CASE s = [d EXCEPT !.pc = "store"]
  <2>0. d.found = 0
    BY <1>1 DEF InHand
  <2>1. s \in Doings /\ s.pc = "store" /\ s.queue = d.queue /\ s.found = 0 /\ s.marked = d.marked
    BY <1>3, <1>4, <2>0 DEF Doings
  <2>2. QED
    BY <1>1, <1>2, <1>3, <2>1, OnlyRequest DEF InHand
<1>5. ASSUME NEW i \in active,
             s = [d EXCEPT !.pc = "store", !.found = i, !.read = {reviews[i].payload}]
      PROVE  IInv'
  <2>1. i \in DOMAIN reviews /\ reviews[i].cluster = Head(d.queue).cluster
    BY DEF Active
  <2>2. i \in Nat /\ reviews[i].payload \in Payloads
    BY <2>1, RowTyped
  <2>3. InTime(reviews[i].payload, reviews[i].due, today)
    BY <2>1 DEF IInv
  <2>4. /\ s \in Doings /\ s.queue = d.queue /\ s.found = i /\ s.marked = d.marked
        /\ s.pc = "store" /\ s.read = {reviews[i].payload}
    BY <1>3, <1>5, <2>2 DEF Doings
  <2>5. InHand(s, reviews, raced, today)
    BY <1>3, <2>1, <2>2, <2>3, <2>4 DEF InHand
  <2>6. QED
    BY <1>1, <1>2, <2>5, OnlyRequest
<1>6. QED
  BY <1>2, <1>4, <1>5

LEMMA FailStep == ASSUME IInv, NEW t \in Threads, Fail(t) PROVE IInv'
  BY OnlyRequest, IdleInHand DEF Fail

LEMMA TomorrowStep == ASSUME IInv, RetentionAssumption, Tomorrow PROVE IInv'
<1>1. /\ today' = today + 1 /\ today < MaxDays /\ today \in Nat
      /\ UNCHANGED <<reviews, doing, promised, raced>>
  BY DEF Tomorrow, IInv, TypeOK
<1>2. TypeOK'
  BY <1>1 DEF IInv, TypeOK, RetentionAssumption
<1>3. \A d \in Nat : d <= today => d <= today'
  BY <1>1
<1>4. \A p \in Payloads : \A due \in Nat : InTime(p, due, today) => InTime(p, due, today')
  BY <1>3 DEF InTime, Payloads
<1>5. \A i \in DOMAIN reviews : reviews[i].due \in Nat /\ reviews[i].payload \in Payloads
  BY RowTyped
<1>6. \A i \in DOMAIN reviews : InTime(reviews[i].payload, reviews[i].due, today')
  BY <1>4, <1>5 DEF IInv
<1>7. \A i \in DOMAIN reviews : \A c : \A day :
        Keeps(reviews[i], c, day, today) => Keeps(reviews[i], c, day, today')
  BY <1>3, <1>5 DEF Keeps
<1>8. \A c \in Clusters \ raced : promised[c] < Never =>
        \E i \in DOMAIN reviews : Keeps(reviews[i], c, promised[c], today')
  BY <1>7 DEF IInv
<1>9. ASSUME NEW t \in Threads PROVE InHand(doing[t], reviews, raced, today')
  <2>1. InHand(doing[t], reviews, raced, today)
    BY DEF IInv
  <2>2. \A m \in doing[t].marked : m[2] \in Payloads /\ m[2].due \in Nat
    BY <2>1 DEF InHand, Doings, Payloads
  <2>3. \A m \in doing[t].marked : m[2].due <= today'
    BY <1>3, <2>1, <2>2 DEF InHand
  <2>4. QED
    BY <1>4, <1>5, <2>1, <2>3 DEF InHand
<1>10. QED
  BY <1>1, <1>2, <1>6, <1>8, <1>9 DEF IInv, Never

LEMMA MarkReadStep == ASSUME IInv, NEW t \in Threads, MarkRead(t) PROVE IInv'
<1> DEFINE due == {j \in DOMAIN reviews : reviews[j].status = "scheduled" /\ reviews[j].due <= today}
           marked == {<<i, reviews[i].payload>> : i \in due}
<1>1. PICK s : s = [Idle EXCEPT !.pc = "mark", !.marked = marked]
  OBVIOUS
<1>2. Does(t, s) /\ UNCHANGED <<reviews, today, promised, raced>>
  BY <1>1 DEF MarkRead
<1>3. \A m \in marked : m \in Nat \X Payloads /\ m[2].due <= today
  <2> SUFFICES ASSUME NEW i \in due
               PROVE  <<i, reviews[i].payload>> \in Nat \X Payloads /\ reviews[i].payload.due <= today
    OBVIOUS
  <2>1. /\ i \in Nat /\ reviews[i].payload \in Payloads
        /\ reviews[i].due \in Nat /\ reviews[i].payload.due \in Nat
    BY RowTyped
  <2>2. InTime(reviews[i].payload, reviews[i].due, today) /\ today \in Nat
    BY DEF IInv, TypeOK
  <2>3. QED
    BY <2>1, <2>2 DEF InTime
<1> HIDE DEF marked
<1>4. s = [pc |-> "mark", queue |-> <<>>, found |-> 0, read |-> {}, marked |-> marked]
  BY <1>1 DEF Idle
<1>5. s \in Doings
  BY <1>3, <1>4 DEF Doings
<1>6. InHand(s, reviews, raced, today)
  BY <1>3, <1>4, <1>5 DEF InHand
<1>7. QED
  BY <1>2, <1>6, OnlyRequest

\* Marking leaves the days alone by which reviews are found, and what it puts back
\* was read when its day had come.
LEMMA MarkWriteStep == ASSUME IInv, NEW t \in Threads, MarkWrite(t) PROVE IInv'
<1> DEFINE marked == {m[1] : m \in doing[t].marked}
           old(i) == (CHOOSE m \in doing[t].marked : m[1] = i)[2]
           new(i) == [old(i) EXCEPT !.status = "due"]
<1>1. /\ reviews' = [i \in DOMAIN reviews |->
              IF i \notin marked THEN reviews[i]
              ELSE [reviews[i] EXCEPT !.status = "due", !.payload = new(i)]]
      /\ Does(t, Idle) /\ UNCHANGED <<today, promised, raced>>
  BY DEF MarkWrite
<1>2. ASSUME NEW i \in DOMAIN reviews, i \in marked
      PROVE  new(i) \in Payloads /\ new(i).due <= today
  <2>1. PICK m \in doing[t].marked : m = CHOOSE n \in doing[t].marked : n[1] = i
    BY <1>2
  <2>2. m[2] \in Payloads /\ m[2].due <= today /\ old(i) = m[2]
    BY <2>1 DEF IInv, InHand, Doings
  <2> HIDE DEF old
  <2>3. QED
    BY <2>2 DEF Payloads, Statuses
<1> HIDE DEF marked, new
<1>3. ASSUME NEW i \in DOMAIN reviews
      PROVE  /\ reviews'[i] \in Rows /\ reviews'[i].cluster = reviews[i].cluster
             /\ reviews'[i].due = reviews[i].due
             /\ InTime(reviews'[i].payload, reviews'[i].due, today)
  <2>1. reviews[i] \in Rows /\ InTime(reviews[i].payload, reviews[i].due, today)
    BY RowTyped DEF IInv
  <2>2. CASE i \notin marked
    BY <1>1, <2>1, <2>2
  <2>3. CASE i \in marked
    <3>1. reviews'[i] = [reviews[i] EXCEPT !.status = "due", !.payload = new(i)]
      BY <1>1, <2>3
    <3>2. new(i) \in Payloads /\ new(i).due <= today
      BY <1>2, <2>3
    <3>3. /\ reviews'[i].cluster = reviews[i].cluster /\ reviews'[i].due = reviews[i].due
          /\ reviews'[i].payload = new(i) /\ reviews'[i] \in Rows
      BY <2>1, <3>1, <3>2 DEF Rows, Statuses
    <3>4. QED
      BY <3>2, <3>3 DEF InTime
  <2>4. QED
    BY <2>2, <2>3
<1>4. DOMAIN reviews' = DOMAIN reviews /\ reviews' \in Seq(Rows)
  <2>1. PICK n \in Nat : DOMAIN reviews = 1 .. n
    BY DEF IInv, TypeOK
  <2>2. reviews' = [i \in 1 .. n |-> reviews'[i]]
    BY <1>1, <2>1
  <2>3. \A i \in 1 .. n : reviews'[i] \in Rows
    BY <1>3, <2>1
  <2>4. QED
    BY <2>1, <2>2, <2>3
<1>5. /\ doing' = [u \in Threads |-> doing'[u]]
      /\ \A u \in Threads : doing'[u] = IF u = t THEN Idle ELSE doing[u]
  BY <1>1 DEF Does, IInv, TypeOK
<1>6. TypeOK'
  BY <1>1, <1>4, <1>5 DEF IInv, TypeOK
<1>7. \A i \in DOMAIN reviews' : InTime(reviews'[i].payload, reviews'[i].due, today')
  BY <1>1, <1>3, <1>4
<1>8. \A c \in Clusters \ raced' : promised'[c] < Never =>
        \E i \in DOMAIN reviews' : Keeps(reviews'[i], c, promised'[c], today')
  <2> SUFFICES ASSUME NEW c \in Clusters \ raced, promised[c] < Never
               PROVE  \E i \in DOMAIN reviews : Keeps(reviews'[i], c, promised[c], today)
    BY <1>1, <1>4
  <2>1. PICK i \in DOMAIN reviews : Keeps(reviews[i], c, promised[c], today)
    BY DEF IInv
  <2>2. QED
    BY <1>3, <2>1 DEF Keeps
<1>9. ASSUME NEW u \in Threads PROVE InHand(doing'[u], reviews', raced', today')
  <2>1. CASE u = t
    BY <1>5, <2>1, IdleInHand
  <2>2. CASE u # t
    <3>1. InHand(doing[u], reviews, raced, today) /\ doing'[u] = doing[u]
      BY <1>5, <2>2 DEF IInv
    <3>2. \A i \in DOMAIN reviews : i \in DOMAIN reviews' /\ reviews'[i].cluster = reviews[i].cluster
            /\ reviews'[i].due = reviews[i].due
      BY <1>3, <1>4
    <3>3. raced' = raced /\ today' = today
      BY <1>1
    <3>4. QED
      BY <3>1, <3>2, <3>3 DEF InHand
  <2>3. QED
    BY <2>1, <2>2
<1>10. QED
  BY <1>6, <1>7, <1>8, <1>9 DEF IInv, Never

\* What is stored is not later than the candidate, nor than the payload it was
\* merged into; what others read of the row they write after it is exempt.
LEMMA StoreStep == ASSUME IInv, NEW t \in Threads, Store(t) PROVE IInv'
<1> DEFINE d == doing[t]
           c == Head(d.queue)
           rest == Tail(d.queue)
           k == d.found
           next == IF rest = <<>> THEN Idle ELSE [Idle EXCEPT !.pc = "find", !.queue = rest]
<1>1. /\ d.pc = "store" /\ c \in Nominees /\ rest \in Seq(Nominees) /\ k \in Nat
      /\ today \in Nat /\ promised \in [Clusters -> Nat]
      /\ c.cluster \in Clusters /\ c.due \in Nat /\ c.tier \in Tiers
  <2>1. /\ d.pc = "store" /\ InHand(d, reviews, raced, today)
        /\ today \in Nat /\ promised \in [Clusters -> Nat]
    BY DEF Store, Doing, IInv, TypeOK
  <2>2. d.queue \in Seq(Nominees) /\ d.queue # <<>> /\ k \in Nat
    BY <2>1 DEF InHand, Doings
  <2> HIDE DEF d
  <2>3. c \in Nominees /\ rest \in Seq(Nominees)
    BY <2>2
  <2> HIDE DEF c, rest
  <2>4. QED
    BY <2>1, <2>2, <2>3 DEF Nominees
<1>2. /\ Does(t, next)
      /\ promised' = [promised EXCEPT ![c.cluster] = Min({promised[c.cluster], c.due})]
      /\ raced' = raced \cup (IF Races(t, k) THEN {c.cluster} ELSE {})
      /\ today' = today
  BY DEF Store
<1>3. \A rows, exempt, date : InHand(next, rows, exempt, date)
  <2>1. CASE rest = <<>>
    BY <2>1, IdleInHand
  <2>2. CASE rest # <<>>
    <3>1. next = [pc |-> "find", queue |-> rest, found |-> 0, read |-> {}, marked |-> {}]
      BY <2>2 DEF Idle
    <3> HIDE DEF next, rest
    <3>2. next \in Doings
      BY <1>1, <3>1 DEF Doings
    <3>3. QED
      BY <2>2, <3>1, <3>2 DEF InHand
  <2>3. QED
    BY <2>1, <2>2
<1>4. /\ promised' \in [Clusters -> Nat]
      /\ promised'[c.cluster] = promised[c.cluster] \/ promised'[c.cluster] = c.due
      /\ \A e \in Clusters \ {c.cluster} : promised'[e] = promised[e]
      /\ raced' \subseteq Clusters /\ raced \subseteq raced'
  BY <1>1, <1>2, MinOfTwo DEF IInv, TypeOK
<1>5. /\ doing' = [u \in Threads |-> doing'[u]]
      /\ \A u \in Threads : doing'[u] = IF u = t THEN next ELSE doing[u]
  BY <1>2 DEF Does, IInv, TypeOK
<1> HIDE DEF next
\* What remains to be shown of the rows.
<1>6. SUFFICES
        /\ reviews' \in Seq(Rows)
        /\ \A i \in DOMAIN reviews' : InTime(reviews'[i].payload, reviews'[i].due, today)
        /\ \A e \in Clusters \ raced' : promised'[e] < Never =>
             \E i \in DOMAIN reviews' : Keeps(reviews'[i], e, promised'[e], today)
        /\ \A u \in Threads \ {t} : InHand(doing[u], reviews', raced', today)
  <2> SUFFICES ASSUME /\ reviews' \in Seq(Rows)
                      /\ \A i \in DOMAIN reviews' : InTime(reviews'[i].payload, reviews'[i].due, today)
                      /\ \A e \in Clusters \ raced' : promised'[e] < Never =>
                           \E i \in DOMAIN reviews' : Keeps(reviews'[i], e, promised'[e], today)
                      /\ \A u \in Threads \ {t} : InHand(doing[u], reviews', raced', today)
               PROVE  IInv'
    OBVIOUS
  <2>1. TypeOK'
    BY <1>2, <1>4, <1>5 DEF IInv, TypeOK
  <2>2. \A u \in Threads : InHand(doing'[u], reviews', raced', today')
    BY <1>2, <1>3, <1>5
  <2>3. QED
    BY <1>2, <2>1, <2>2 DEF IInv, Never
<1>7. CASE k = 0
  <2> DEFINE payload == [status |-> "scheduled", due |-> c.due, tier |-> c.tier]
             new == Row(c.cluster, payload)
             n == Len(reviews)
  <2>1. reviews' = Append(reviews, new)
    BY <1>7 DEF Store
  <2>2. payload \in Payloads
    BY <1>1 DEF Payloads, Statuses
  <2>3. /\ new \in Rows /\ new.cluster = c.cluster /\ new.due = c.due /\ new.payload = payload
        /\ payload.due = c.due
    BY <1>1, <2>2 DEF Row, Rows, Statuses
  <2> HIDE DEF new, payload
  <2>4. /\ reviews' \in Seq(Rows) /\ DOMAIN reviews' = 1 .. (n + 1) /\ n \in Nat
        /\ reviews'[n + 1] = new /\ DOMAIN reviews = 1 .. n
        /\ \A i \in 1 .. n : reviews'[i] = reviews[i]
    BY <2>1, <2>3 DEF IInv, TypeOK
  <2> HIDE DEF n, c, k, d
  <2>5. \A i \in DOMAIN reviews' : InTime(reviews'[i].payload, reviews'[i].due, today)
    BY <1>1, <2>3, <2>4 DEF IInv, InTime
  <2>6. ASSUME NEW e \in Clusters \ raced', promised'[e] < Never
        PROVE  \E i \in DOMAIN reviews' : Keeps(reviews'[i], e, promised'[e], today)
    <3>1. CASE promised'[e] = promised[e]
      <4>1. PICK i \in DOMAIN reviews : Keeps(reviews[i], e, promised[e], today)
        BY <1>4, <2>6, <3>1 DEF IInv
      <4>2. QED
        BY <2>4, <3>1, <4>1
    <3>2. CASE e = c.cluster /\ promised'[e] = c.due
      <4>1. Keeps(reviews'[n + 1], e, promised'[e], today)
        BY <1>1, <2>3, <2>4, <3>2 DEF Keeps
      <4>2. QED
        BY <2>4, <4>1
    <3>3. QED
      BY <1>4, <3>1, <3>2
  <2>7. ASSUME NEW u \in Threads \ {t} PROVE InHand(doing[u], reviews', raced', today)
    <3>1. InHand(doing[u], reviews, raced, today)
      BY DEF IInv
    <3>2. \A i \in DOMAIN reviews : i \in DOMAIN reviews' /\ reviews'[i] = reviews[i]
      BY <2>4
    <3>3. QED
      BY <1>4, <3>1, <3>2 DEF InHand
  <2>8. QED
    BY <2>4, <2>5, <2>6, <2>7
<1>8. CASE k # 0
  <2>1. InHand(d, reviews, raced, today)
    BY DEF IInv
  <2>2. PICK p \in Payloads : /\ d.read = {p}
                              /\ reviews[k].cluster \notin raced => InTime(p, reviews[k].due, today)
    BY <1>1, <1>8, <2>1 DEF InHand
  <2>3. k \in DOMAIN reviews /\ reviews[k].cluster = c.cluster
    BY <1>1, <1>8, <2>1 DEF InHand
  <2> DEFINE payload == Merged(p, c)
             new == Row(c.cluster, payload)
  <2>4. reviews' = [reviews EXCEPT ![k] = new]
    <3>1. (CHOOSE x \in d.read : TRUE) = p
      BY <2>2
    <3>2. QED
      BY <1>8, <3>1 DEF Store
  <2> HIDE DEF c, k, d
  <2>5. payload \in Payloads /\ payload.due <= p.due /\ payload.due <= c.due
    <3>1. p.due \in Nat /\ p.tier \in Tiers /\ p.status \in Statuses
      BY DEF Payloads
    <3>2. payload = [p EXCEPT !.due = Min({p.due, c.due}),
                              !.tier = IF Rank[c.tier] > Rank[p.tier] THEN c.tier ELSE p.tier]
      BY DEF Merged
    <3>3. Min({p.due, c.due}) \in Nat /\ Min({p.due, c.due}) <= p.due /\ Min({p.due, c.due}) <= c.due
      BY <1>1, <3>1, MinOfTwo
    <3> HIDE DEF payload
    <3>4. payload.due = Min({p.due, c.due}) /\ payload \in Payloads
      BY <1>1, <3>1, <3>2, <3>3 DEF Payloads
    <3>5. QED
      BY <3>3, <3>4
  <2> HIDE DEF payload
  <2>6. /\ new \in Rows /\ new.cluster = c.cluster /\ new.due = payload.due /\ new.payload = payload
        /\ payload.due \in Nat
    BY <1>1, <2>5 DEF Row, Rows, Payloads
  <2> HIDE DEF new
  <2>7. /\ reviews' \in Seq(Rows) /\ DOMAIN reviews' = DOMAIN reviews /\ reviews'[k] = new
        /\ \A i \in DOMAIN reviews \ {k} : reviews'[i] = reviews[i]
    BY <2>3, <2>4, <2>6 DEF IInv, TypeOK
  <2>8. \A i \in DOMAIN reviews' : InTime(reviews'[i].payload, reviews'[i].due, today)
    BY <2>6, <2>7 DEF IInv, InTime
  <2>9. ASSUME NEW e \in Clusters \ raced', promised'[e] < Never
        PROVE  \E i \in DOMAIN reviews' : Keeps(reviews'[i], e, promised'[e], today)
    <3>1. CASE e = c.cluster /\ promised'[e] = c.due
      <4>1. Keeps(reviews'[k], e, promised'[e], today)
        BY <2>5, <2>6, <2>7, <3>1 DEF Keeps
      <4>2. QED
        BY <2>3, <2>7, <4>1
    <3>2. CASE promised'[e] = promised[e]
      <4>1. PICK i \in DOMAIN reviews : Keeps(reviews[i], e, promised[e], today)
        BY <1>4, <2>9, <3>2 DEF IInv
      <4>2. CASE i # k
        BY <2>7, <3>2, <4>1, <4>2
      <4>3. CASE i = k
        <5>1. e = c.cluster /\ InTime(p, reviews[k].due, today)
          BY <1>4, <2>2, <2>3, <4>1, <4>3 DEF Keeps
        <5>2. reviews[k].due <= promised[e] \/ reviews[k].due <= today
          BY <4>1, <4>3 DEF Keeps
        <5>3. /\ p.due \in Nat /\ reviews[k].due \in Nat /\ promised[e] \in Nat
          BY <1>1, <2>3, RowTyped DEF Payloads
        <5>4. payload.due <= promised[e] \/ payload.due <= today
          BY <1>1, <2>5, <2>6, <5>1, <5>2, <5>3 DEF InTime
        <5>5. Keeps(reviews'[k], e, promised'[e], today)
          BY <2>6, <2>7, <3>2, <5>1, <5>4 DEF Keeps
        <5>6. QED
          BY <2>3, <2>7, <5>5
      <4>4. QED
        BY <4>2, <4>3
    <3>3. QED
      BY <1>4, <3>1, <3>2
  <2>10. ASSUME NEW u \in Threads \ {t} PROVE InHand(doing[u], reviews', raced', today)
    <3>1. InHand(doing[u], reviews, raced, today)
      BY DEF IInv
    <3>2. CASE doing[u].pc = "store" /\ doing[u].found = k
      <4>1. c.cluster \in raced'
        BY <1>2, <1>8, <3>2 DEF Races, Doing
      <4>2. k \in DOMAIN reviews' /\ reviews'[k].cluster = reviews[k].cluster
            /\ reviews'[k].cluster \in raced'
        BY <2>3, <2>6, <2>7, <4>1
      <4>3. QED
        BY <3>1, <3>2, <4>2 DEF InHand
    <3>3. CASE ~(doing[u].pc = "store" /\ doing[u].found = k)
      BY <1>4, <2>7, <3>1, <3>3 DEF InHand
    <3>4. QED
      BY <3>2, <3>3
  <2>11. QED
    BY <2>7, <2>8, <2>9, <2>10
<1>9. QED
  BY <1>7, <1>8

LEMMA EveryStep == RetentionAssumption /\ IInv /\ [Next]_vars => IInv'
<1> SUFFICES ASSUME RetentionAssumption, IInv, [Next]_vars PROVE IInv'
  OBVIOUS
<1>1. CASE UNCHANGED vars
  BY <1>1 DEF vars, IInv, TypeOK, Never
<1>2. CASE Next
  BY <1>2, StartStep, FindStep, StoreStep, FailStep, MarkReadStep, MarkWriteStep, TomorrowStep
     DEF Next
<1>3. QED
  BY <1>1, <1>2

LEMMA TheInit == ASSUME RetentionAssumption, Init PROVE IInv
<1>1. /\ reviews = <<>> /\ doing = [t \in Threads |-> Idle] /\ today = 0 /\ raced = {}
      /\ promised = [c \in Clusters |-> Never]
  BY DEF Init
<1>2. TypeOK
  BY <1>1 DEF TypeOK, Never, RetentionAssumption
<1>3. QED
  BY <1>1, <1>2, IdleInHand DEF IInv, Never, RetentionAssumption

\* Of any number of requests that nominate and list a learner's reviews at once: a
\* review comes up no later than it was nominated for, although marking may put back
\* a payload that a merge has changed since (only one that was due already), unless
\* two requests merged into the same row at once.
THEOREM PromisesAreKept == ASSUME RetentionAssumption PROVE Spec => []PromiseKept
<1>1. Init => IInv
  BY TheInit
<1>2. IInv /\ [Next]_vars => IInv'
  BY EveryStep
<1>3. IInv => PromiseKept
  <2> SUFFICES ASSUME IInv, NEW c \in Clusters \ raced, promised[c] <= today
               PROVE  \E i \in Active(c) : reviews[i].due <= today
    <3>1. ASSUME IInv PROVE DOMAIN promised = Clusters
      BY <3>1 DEF IInv, TypeOK
    <3>2. QED
      BY <3>1 DEF PromiseKept
  <2>1. promised[c] \in Nat /\ today \in Nat /\ promised[c] < Never
    BY DEF IInv, TypeOK, Never, RetentionAssumption
  <2>2. PICK i \in DOMAIN reviews : Keeps(reviews[i], c, promised[c], today)
    BY <2>1 DEF IInv
  <2>3. reviews[i].due \in Nat /\ reviews[i].status \in Statuses
    BY RowTyped
  <2>4. i \in Active(c)
    BY <2>2, <2>3 DEF Active, Keeps, Statuses
  <2>5. QED
    BY <2>1, <2>2, <2>3, <2>4 DEF Keeps
<1>4. QED
  BY <1>1, <1>2, <1>3, PTL DEF Spec

-----------------------------------------------------------------------------
(* Placement.                                                               *)

\* A set of numbers has a least one.
LEMMA LeastExists ==
    ASSUME NEW T, T \subseteq Nat, T # {}
    PROVE  \E x \in T : \A y \in T : x <= y
<1>1. PICK R : R = {ss \in Nat \X Nat : ss[1] < ss[2]}
  OBVIOUS
<1>2. IsWellFoundedOn(R, Nat)
  <2>1. IsWellFoundedOn(OpToRel(<, Nat), Nat)
    BY NatLessThanWellFounded, Zenon
  <2>2. OpToRel(<, Nat) = R
    BY <1>1 DEF OpToRel
  <2>3. QED
    BY <2>1, <2>2
<1>3. \E x \in T : \A y \in T : ~ (<<y, x>> \in R)
  BY <1>2, WFMin
<1>4. PICK x \in T : \A y \in T : ~ (<<y, x>> \in R)
  BY <1>3
<1>5. \A y \in T : ~(y < x)
  <2> SUFFICES ASSUME NEW y \in T, y < x PROVE FALSE
    OBVIOUS
  <2>1. <<y, x>> \in R
    BY <1>1
  <2>2. QED
    BY <1>4, <2>1
<1>6. QED
  BY <1>5

\* A set that has 0, and after each number below the last its successor, has them all.
LEMMA Climbing ==
    ASSUME NEW n \in Nat, NEW T, 0 \in T, \A i \in 0..(n - 1) : i \in T => i + 1 \in T
    PROVE  0..n \subseteq T
<1> DEFINE U == {i \in 0..n : i \notin T}
<1> SUFFICES ASSUME U # {} PROVE FALSE
  OBVIOUS
<1>1. PICK m \in U : \A y \in U : m <= y
  <2>1. U \subseteq Nat
    OBVIOUS
  <2> HIDE DEF U
  <2> QED
    BY <2>1, LeastExists
<1>2. m # 0 /\ m \in 1..n
  BY <1>1
<1>3. m - 1 \in 0..(n - 1) /\ m - 1 \notin U
  BY <1>1, <1>2
<1>4. m - 1 \in T
  BY <1>3
<1> QED
  BY <1>1, <1>2, <1>3, <1>4

-----------------------------------------------------------------------------
(* The queue.                                                               *)

Into(seen, k, s) == IF k \in seen \cup ToSet(s) THEN s ELSE <<k>> \o s

\* The queues that the loop goes through.
IsQueue(q, n, seen, list, s) ==
    q = [i \in 0..n |-> IF i = 0 THEN s ELSE Into(seen, list[i], q[i - 1])]

LEMMA QueueExists ==
    ASSUME NEW n \in Nat, NEW seen, NEW list, NEW s
    PROVE  \E q : IsQueue(q, n, seen, list, s)
<1> DEFINE T == {i \in Nat : \E q : IsQueue(q, i, seen, list, s)}
<1>1. 0 \in T
  <2>1. IsQueue([i \in 0..0 |-> s], 0, seen, list, s)
    BY DEF IsQueue
  <2> QED
    BY <2>1
<1>2. ASSUME NEW i \in 0..(n - 1), i \in T PROVE i + 1 \in T
  <2>1. PICK q : IsQueue(q, i, seen, list, s)
    BY <1>2
  <2> DEFINE r == [j \in 0..(i + 1) |-> IF j <= i THEN q[j] ELSE Into(seen, list[i + 1], q[i])]
  <2>2. \A j \in 0..(i + 1) : r[j] = IF j = 0 THEN s ELSE Into(seen, list[j], r[j - 1])
    <3> SUFFICES ASSUME NEW j \in 0..(i + 1)
                 PROVE  r[j] = IF j = 0 THEN s ELSE Into(seen, list[j], r[j - 1])
      OBVIOUS
    <3>1. CASE j = 0
      BY <2>1, <3>1 DEF IsQueue
    <3>2. CASE j \in 1..i
      <4>1. r[j] = q[j] /\ r[j - 1] = q[j - 1]
        BY <3>2
      <4>2. q[j] = Into(seen, list[j], q[j - 1])
        BY <2>1, <3>2 DEF IsQueue
      <4> QED
        BY <3>2, <4>1, <4>2
    <3>3. CASE j = i + 1
      BY <3>3
    <3> QED
      BY <3>1, <3>2, <3>3
  <2>3. IsQueue(r, i + 1, seen, list, s)
    BY <2>2 DEF IsQueue
  <2>4. i + 1 \in Nat
    OBVIOUS
  <2> QED
    BY <2>3, <2>4
<1>3. 0..n \subseteq T
  <2> HIDE DEF T
  <2> QED
    BY <1>1, <1>2, Climbing
<1> QED
  BY <1>3

Injective(s) == \A i, j \in 1..Len(s) : s[i] = s[j] => i = j

LEMMA InFront ==
    ASSUME NEW K, NEW s \in Seq(K), NEW k \in K
    PROVE  /\ <<k>> \o s \in Seq(K)
           /\ ToSet(<<k>> \o s) = {k} \cup ToSet(s)
           /\ Injective(s) /\ k \notin ToSet(s) => Injective(<<k>> \o s)
<1> DEFINE r == <<k>> \o s
<1>1. /\ r \in Seq(K) /\ Len(r) = Len(s) + 1 /\ Len(s) \in Nat
      /\ r[1] = k /\ \A i \in 2..Len(r) : r[i] = s[i - 1]
  OBVIOUS
<1> HIDE DEF r
<1>2. ToSet(r) = {r[i] : i \in 1..Len(r)} /\ ToSet(s) = {s[i] : i \in 1..Len(s)}
  BY <1>1 DEF ToSet
<1>3. \A x \in ToSet(s) : x \in ToSet(r)
  <2> SUFFICES ASSUME NEW i \in 1..Len(s) PROVE s[i] \in ToSet(r)
    BY <1>2
  <2>1. i + 1 \in 2..Len(r) /\ r[i + 1] = s[i]
    BY <1>1
  <2> QED
    BY <1>2, <2>1
<1>4. \A x \in ToSet(r) : x = k \/ x \in ToSet(s)
  <2> SUFFICES ASSUME NEW i \in 1..Len(r), i # 1 PROVE r[i] \in ToSet(s)
    BY <1>1, <1>2
  <2>1. i - 1 \in 1..Len(s) /\ r[i] = s[i - 1]
    BY <1>1
  <2> QED
    BY <1>2, <2>1
<1>5. k \in ToSet(r)
  BY <1>1, <1>2
<1>6. ASSUME Injective(s), k \notin ToSet(s) PROVE Injective(r)
  <2> SUFFICES ASSUME NEW i \in 1..Len(r), NEW j \in 1..Len(r), r[i] = r[j] PROVE i = j
    BY DEF Injective
  <2>1. \A m \in 2..Len(r) : r[m] # k /\ m - 1 \in 1..Len(s) /\ r[m] = s[m - 1]
    BY <1>1, <1>2, <1>6
  <2>2. i \in 2..Len(r) /\ j \in 2..Len(r) => i - 1 = j - 1
    BY <1>6, <2>1 DEF Injective
  <2> QED
    BY <1>1, <2>1, <2>2
<1> QED
  BY <1>1, <1>3, <1>4, <1>5, <1>6 DEF r

LEMMA EnqueueIs ==
    ASSUME NEW K, NEW doc, doc.queued \in Seq(K), NEW list \in Seq(K),
           NEW seen, seen = Probed(doc), Injective(doc.queued), seen \cap ToSet(doc.queued) = {},
           NEW longer, longer = Placing!Enqueue(doc, list)
    PROVE  /\ longer \in Seq(K) /\ Injective(longer) /\ seen \cap ToSet(longer) = {}
           /\ ToSet(doc.queued) \subseteq ToSet(longer)
           /\ ToSet(list) \subseteq seen \cup ToSet(longer)
<1> DEFINE n == Len(list)
           Q == CHOOSE q : IsQueue(q, n, seen, list, doc.queued)
<1>1. n \in Nat
  OBVIOUS
<1>2. IsQueue(Q, n, seen, list, doc.queued)
  BY <1>1, QueueExists
<1>3. longer = Q[n]
  <2>1. Placing!Probed(doc) = seen
    BY DEF Probed, Placing!Probed
  <2>2. \A s : Placing!ToSet(s) = ToSet(s)
    BY DEF Placing!ToSet, ToSet
  <2> HIDE DEF n
  <2>3. longer = (CHOOSE q : q = [i \in 0..n |-> IF i = 0 THEN doc.queued
                    ELSE IF list[i] \in Placing!Probed(doc) \cup Placing!ToSet(q[i - 1]) THEN q[i - 1]
                    ELSE <<list[i]>> \o q[i - 1]])[n]
    BY DEF Placing!Enqueue, n
  <2>4. Q = CHOOSE q : q = [i \in 0..n |-> IF i = 0 THEN doc.queued
                    ELSE IF list[i] \in Placing!Probed(doc) \cup Placing!ToSet(q[i - 1]) THEN q[i - 1]
                    ELSE <<list[i]>> \o q[i - 1]]
    BY <2>1, <2>2 DEF IsQueue, Into
  <2> QED
    BY <2>3, <2>4
<1> HIDE DEF Q
<1>4. Q[0] = doc.queued /\ \A i \in 0..(n - 1) : Q[i + 1] = Into(seen, list[i + 1], Q[i])
  BY <1>1, <1>2 DEF IsQueue
<1> DEFINE Good(i) ==
        /\ Q[i] \in Seq(K) /\ Injective(Q[i]) /\ seen \cap ToSet(Q[i]) = {}
        /\ ToSet(doc.queued) \subseteq ToSet(Q[i])
        /\ \A j \in 1..i : list[j] \in seen \cup ToSet(Q[i])
           T == {i \in Nat : Good(i)}
<1>5. Good(0)
  BY <1>4
<1>6. ASSUME NEW i \in 0..(n - 1), Good(i) PROVE Good(i + 1)
  <2>1. list[i + 1] \in K
    OBVIOUS
  <2> DEFINE k == list[i + 1]
  <2>2. CASE k \in seen \cup ToSet(Q[i])
    <3>1. Q[i + 1] = Q[i]
      BY <1>4, <2>2 DEF Into
    <3> QED
      BY <1>6, <2>2, <3>1
  <2>3. CASE k \notin seen \cup ToSet(Q[i])
    <3>1. Q[i + 1] = <<k>> \o Q[i]
      BY <1>4, <2>3 DEF Into
    <3>2. /\ Q[i + 1] \in Seq(K) /\ Injective(Q[i + 1])
          /\ ToSet(Q[i + 1]) = {k} \cup ToSet(Q[i])
      BY <1>6, <2>1, <2>3, <3>1, InFront
    <3> QED
      BY <1>6, <2>3, <3>2
  <2> QED
    BY <2>2, <2>3
<1>7. n \in T
  <2>1. 0 \in T
    BY <1>5
  <2>2. ASSUME NEW i \in 0..(n - 1), i \in T PROVE i + 1 \in T
    <3>1. Good(i)
      BY <2>2
    <3>2. Good(i + 1)
      BY <3>1, <1>6
    <3> QED
      BY <3>2
  <2> HIDE DEF T
  <2>3. 0..n \subseteq T
    BY <1>1, <2>1, <2>2, Climbing
  <2> QED
    BY <1>1, <2>3
<1>8. Good(n)
  BY <1>7
<1>9. ToSet(list) = {list[j] : j \in 1..n}
  BY DEF ToSet
<1> QED
  BY <1>3, <1>8, <1>9

-----------------------------------------------------------------------------
(* The dependents of a component.                                           *)

Found(s, k, known, d) == IF k \in ToSet(Prerequisites[d]) /\ d \in known THEN Append(s, d) ELSE s

IsSearch(q, n, k, known) ==
    q = [i \in 0..n |-> IF i = 0 THEN <<>> ELSE Found(q[i - 1], k, known, Corpus[i])]

LEMMA SearchExists ==
    ASSUME NEW n \in Nat, NEW k, NEW known
    PROVE  \E q : IsSearch(q, n, k, known)
<1> DEFINE T == {i \in Nat : \E q : IsSearch(q, i, k, known)}
<1>1. 0 \in T
  <2>1. IsSearch([i \in 0..0 |-> <<>>], 0, k, known)
    BY DEF IsSearch
  <2> QED
    BY <2>1
<1>2. ASSUME NEW i \in 0..(n - 1), i \in T PROVE i + 1 \in T
  <2>1. PICK q : IsSearch(q, i, k, known)
    BY <1>2
  <2> DEFINE r == [j \in 0..(i + 1) |-> IF j <= i THEN q[j] ELSE Found(q[i], k, known, Corpus[i + 1])]
  <2>2. \A j \in 0..(i + 1) : r[j] = IF j = 0 THEN <<>> ELSE Found(r[j - 1], k, known, Corpus[j])
    <3> SUFFICES ASSUME NEW j \in 0..(i + 1)
                 PROVE  r[j] = IF j = 0 THEN <<>> ELSE Found(r[j - 1], k, known, Corpus[j])
      OBVIOUS
    <3>1. CASE j = 0
      BY <2>1, <3>1 DEF IsSearch
    <3>2. CASE j \in 1..i
      <4>1. r[j] = q[j] /\ r[j - 1] = q[j - 1]
        BY <3>2
      <4>2. q[j] = Found(q[j - 1], k, known, Corpus[j])
        BY <2>1, <3>2 DEF IsSearch
      <4> QED
        BY <3>2, <4>1, <4>2
    <3>3. CASE j = i + 1
      BY <3>3
    <3> QED
      BY <3>1, <3>2, <3>3
  <2>3. IsSearch(r, i + 1, k, known)
    BY <2>2 DEF IsSearch
  <2>4. i + 1 \in Nat
    OBVIOUS
  <2> QED
    BY <2>3, <2>4
<1>3. 0..n \subseteq T
  <2> HIDE DEF T
  <2> QED
    BY <1>1, <1>2, Climbing
<1> QED
  BY <1>3

\* A look-up lists the dependents that are known.
LEMMA DependentsListed ==
    ASSUME NEW K, Corpus \in Seq(K), NEW k, NEW known, NEW list, list = Placing!DependentsIn(k, known)
    PROVE  list \in Seq(K) /\ After({k}) \cap known \subseteq ToSet(list)
<1> DEFINE n == Len(Corpus)
           Q == CHOOSE q : IsSearch(q, n, k, known)
           Needing == {d \in KCs : k \in ToSet(Prerequisites[d]) /\ d \in known}
<1>1. n \in Nat
  OBVIOUS
<1>2. IsSearch(Q, n, k, known)
  BY <1>1, SearchExists
<1>3. list = Q[n]
  <2>0. \A s : Placing!ToSet(s) = ToSet(s)
    BY DEF Placing!ToSet, ToSet
  <2> HIDE DEF n
  <2>1. list = (CHOOSE q : q = [i \in 0..n |-> IF i = 0 THEN <<>>
          ELSE IF k \in Placing!ToSet(Prerequisites[Corpus[i]]) /\ Corpus[i] \in known
               THEN Append(q[i - 1], Corpus[i])
          ELSE q[i - 1]])[n]
    BY DEF Placing!DependentsIn, n
  <2>2. Q = CHOOSE q : q = [i \in 0..n |-> IF i = 0 THEN <<>>
          ELSE IF k \in Placing!ToSet(Prerequisites[Corpus[i]]) /\ Corpus[i] \in known
               THEN Append(q[i - 1], Corpus[i])
          ELSE q[i - 1]]
    BY <2>0 DEF IsSearch, Found
  <2> QED
    BY <2>1, <2>2
<1> HIDE DEF Q
<1>4. Q[0] = <<>> /\ \A i \in 0..(n - 1) : Q[i + 1] = Found(Q[i], k, known, Corpus[i + 1])
  BY <1>1, <1>2 DEF IsSearch
<1> DEFINE Has(i) == /\ Q[i] \in Seq(K)
                     /\ \A j \in 1..i : Corpus[j] \in Needing => Corpus[j] \in ToSet(Q[i])
           T == {i \in Nat : Has(i)}
<1>5. 0 \in T
  <2>1. <<>> \in Seq(K)
    OBVIOUS
  <2>2. Q[0] \in Seq(K)
    BY <1>4, <2>1
  <2> QED
    BY <2>2
<1>6. ASSUME NEW i \in 0..(n - 1), i \in T PROVE i + 1 \in T
  <2>1. Q[i] \in Seq(K) /\ Corpus[i + 1] \in K /\ i + 1 \in Nat
    BY <1>6
  <2>2. PICK longer : longer = Append(Q[i], Corpus[i + 1])
    OBVIOUS
  <2>3. longer \in Seq(K) /\ Corpus[i + 1] \in ToSet(longer) /\ ToSet(Q[i]) \subseteq ToSet(longer)
    <3>1. /\ longer \in Seq(K) /\ Len(longer) = Len(Q[i]) + 1 /\ longer[Len(longer)] = Corpus[i + 1]
          /\ \A j \in 1..Len(Q[i]) : longer[j] = Q[i][j]
      BY <2>1, <2>2
    <3>2. /\ ToSet(longer) = {longer[j] : j \in 1..Len(longer)}
          /\ ToSet(Q[i]) = {Q[i][j] : j \in 1..Len(Q[i])}
      BY <2>1, <3>1 DEF ToSet
    <3>3. PICK m \in Nat : m = Len(Q[i])
      BY <2>1
    <3>4. Len(longer) = m + 1 /\ \A j \in 1..m : j \in 1..(m + 1) /\ longer[j] = Q[i][j]
      BY <3>1, <3>3
    <3>5. Corpus[i + 1] \in ToSet(longer)
      <4>1. m + 1 \in 1..(m + 1) /\ longer[m + 1] = Corpus[i + 1]
        BY <3>1, <3>3, <3>4
      <4> QED
        BY <3>2, <3>4, <4>1
    <3>6. ToSet(Q[i]) \subseteq ToSet(longer)
      BY <3>2, <3>3, <3>4
    <3> QED
      BY <3>1, <3>5, <3>6
  <2>4. Q[i + 1] = IF Corpus[i + 1] \in Needing THEN longer ELSE Q[i]
    <3>1. Corpus[i + 1] \in KCs
      BY <1>1 DEF KCs, ToSet
    <3> QED
      BY <1>4, <2>2, <3>1 DEF Found
  <2>5. \A j \in 1..(i + 1) : j \in 1..i \/ j = i + 1
    OBVIOUS
  <2>6. \A j \in 1..i : Corpus[j] \in Needing => Corpus[j] \in ToSet(Q[i])
    BY <1>6
  <2> HIDE DEF Needing
  <2>7. Has(i + 1)
    BY <2>1, <2>3, <2>4, <2>5, <2>6
  <2> QED
    BY <2>1, <2>7
<1>7. Has(n)
  <2> HIDE DEF Has
  <2>1. 0..n \subseteq T
    <3> HIDE DEF T
    <3> QED
      BY <1>1, <1>5, <1>6, Climbing
  <2> QED
    BY <1>1, <2>1
<1>8. ASSUME NEW d \in After({k}) \cap known PROVE d \in ToSet(Q[n])
  <2>1. d \in Needing
    BY <1>8 DEF After
  <2>2. PICK j \in 1..n : d = Corpus[j]
    BY <2>1 DEF KCs, ToSet
  <2> QED
    BY <1>7, <2>1, <2>2
<1> QED
  BY <1>3, <1>7, <1>8

-----------------------------------------------------------------------------
(* The session.                                                             *)

Probe == [kc : KCs, correct : {"yes", "no", "pending"}]
Doc == [status : {"none", "active", "completed"}, queued : Seq(KCs), probes : Seq(Probe),
        demonstrated : SUBSET KCs, gap : SUBSET KCs]

\* A component is asked about once, and what was asked is found or missing.
Judged(doc) ==
    /\ Injective(doc.queued) /\ Probed(doc) \cap ToSet(doc.queued) = {}
    /\ \A i, j \in DOMAIN doc.probes : doc.probes[i].kc = doc.probes[j].kc => i = j
    /\ \A k \in doc.demonstrated : \E i \in DOMAIN doc.probes :
            doc.probes[i].kc = k /\ doc.probes[i].correct = "yes"
    /\ \A k \in doc.gap : \E i \in DOMAIN doc.probes :
            doc.probes[i].kc = k /\ doc.probes[i].correct = "no"

\* What an answer points to was asked about, will be, or could not be.
Frontier(doc, skip) ==
    After(doc.demonstrated) \cup Before(doc.gap) \subseteq Probed(doc) \cup ToSet(doc.queued) \cup skip

Ended(doc) == doc.queued = <<>> \/ Len(doc.probes) >= QuestionBudget

Follows(m, doc) ==
    /\ \A k \in doc.demonstrated : k \in DOMAIN m /\ m[k] >= 70
    /\ \A k \in doc.gap : k \in DOMAIN m /\ m[k] <= 30

Masteries(m) == \A k \in DOMAIN m : m[k] \in Nat

Sound(doc, skip) == doc \in Doc /\ Judged(doc) /\ Frontier(doc, skip)

LEMMA DocPlaces ==
    /\ Placing!KCs = KCs
    /\ \A doc : Placing!Probed(doc) = Probed(doc)
    /\ \A ks : Placing!After(ks) = After(ks) /\ Placing!Before(ks) = Before(ks)
    /\ \A s : Placing!ToSet(s) = ToSet(s)
<1>1. \A s : Placing!ToSet(s) = ToSet(s)
  BY DEF Placing!ToSet, ToSet
<1>2. Placing!KCs = KCs
  BY <1>1 DEF Placing!KCs, KCs
<1>3. \A doc : Placing!Probed(doc) = Probed(doc)
  BY DEF Placing!Probed, Probed
<1>5. ASSUME NEW ks PROVE Placing!After(ks) = After(ks)
  BY <1>1, <1>2 DEF Placing!After, After
<1>6. ASSUME NEW ks PROVE Placing!Before(ks) = Before(ks)
  BY <1>1 DEF Placing!Before, Before
<1> QED
  BY <1>1, <1>2, <1>3, <1>5, <1>6

LEMMA SeedingFollows ==
    ASSUME NEW m, NEW D, NEW G, NEW A, NEW B, NEW m1, NEW m2, NEW m3, NEW r,
           NEW up \in Nat, NEW near \in Nat, NEW down \in Nat, NEW far \in Nat,
           Masteries(m), D \cap G = {}, A \cap D = {},
           m1 = Placing!Raised(m, D, up), m2 = Placing!Raised(m1, B, near),
           m3 = Placing!Lowered(m2, G, down), r = Placing!Lowered(m3, A, far)
    PROVE  /\ Masteries(r)
           /\ \A k \in D : k \in DOMAIN r /\ r[k] >= up
           /\ \A k \in G : k \in DOMAIN r /\ r[k] <= down
<1>6. /\ Masteries(m1) /\ DOMAIN m1 = DOMAIN m \cup D /\ \A k \in D : m1[k] >= up
  BY DEF Placing!Raised, Placing!Known, Masteries
<1>7. /\ Masteries(m2) /\ DOMAIN m2 = DOMAIN m1 \cup B /\ \A k \in DOMAIN m1 : m2[k] >= m1[k]
  BY <1>6 DEF Placing!Raised, Placing!Known, Masteries
<1>8. /\ Masteries(m3) /\ DOMAIN m3 = DOMAIN m2 \cup G /\ \A k \in G : m3[k] <= down
      /\ \A k \in DOMAIN m2 : k \notin G => m3[k] = m2[k]
  BY <1>7 DEF Placing!Lowered, Placing!Known, Masteries
<1>9. /\ Masteries(r) /\ DOMAIN r = DOMAIN m3 \cup A
      /\ \A k \in DOMAIN m3 : r[k] <= m3[k] /\ (k \notin A => r[k] = m3[k])
  BY <1>8 DEF Placing!Lowered, Placing!Known, Masteries
<1>10. ASSUME NEW k \in D PROVE k \in DOMAIN r /\ r[k] >= up
  <2>1. k \in DOMAIN m1 /\ k \in DOMAIN m2 /\ k \in DOMAIN m3 /\ k \notin A /\ k \notin G
    BY <1>6, <1>7, <1>8
  <2>2. r[k] = m3[k] /\ m3[k] = m2[k] /\ m2[k] >= m1[k] /\ m1[k] >= up /\ m1[k] \in Nat /\ m2[k] \in Nat
    BY <1>6, <1>7, <1>8, <1>9, <2>1 DEF Masteries
  <2> QED
    BY <1>9, <2>1, <2>2
<1>11. ASSUME NEW k \in G PROVE k \in DOMAIN r /\ r[k] <= down
  <2>1. k \in DOMAIN m3
    BY <1>8
  <2>2. k \in DOMAIN r /\ r[k] <= m3[k] /\ m3[k] <= down /\ r[k] \in Nat /\ m3[k] \in Nat
    BY <1>8, <1>9, <2>1 DEF Masteries
  <2> QED
    BY <2>2
<1> QED
  BY <1>9, <1>10, <1>11

LEMMA SeededFollows ==
    ASSUME NEW m, NEW doc, NEW known, NEW r, Masteries(m), doc.demonstrated \cap doc.gap = {},
           r = Placing!Seeded(m, doc, known)
    PROVE  Masteries(r) /\ Follows(r, doc)
<1>1. PICK D, G, A, B : /\ D = doc.demonstrated /\ G = doc.gap
                        /\ B = Placing!Before(doc.demonstrated) \ doc.gap
                        /\ A = (Placing!After(doc.gap) \cap known) \ doc.demonstrated
  OBVIOUS
<1>0. PICK up \in Nat, near \in Nat, down \in Nat, far \in Nat :
            up = 70 /\ near = 62 /\ down = 30 /\ far = 38
  OBVIOUS
<1>2. PICK m1, m2, m3 : /\ m1 = Placing!Raised(m, D, up) /\ m2 = Placing!Raised(m1, B, near)
                        /\ m3 = Placing!Lowered(m2, G, down)
  OBVIOUS
<1>3. r = Placing!Lowered(m3, A, far)
  BY <1>0, <1>1, <1>2 DEF Placing!Seeded
<1>4. A \cap D = {} /\ D \cap G = {}
  BY <1>1
<1>5. /\ Masteries(r)
      /\ \A k \in D : k \in DOMAIN r /\ r[k] >= up
      /\ \A k \in G : k \in DOMAIN r /\ r[k] <= down
  BY <1>2, <1>3, <1>4, SeedingFollows
<1> QED
  BY <1>0, <1>1, <1>5 DEF Follows

-----------------------------------------------------------------------------
(* What is done to the session.                                             *)

LEMMA EmptyIsSound ==
    ASSUME Placing!PlacementAssumption, NEW skip
    PROVE  /\ Sound(Placing!NoSession, skip) /\ Sound(Placing!NewSession, skip)
           /\ Placing!NewSession.status = "active" /\ Placing!NoSession.status = "none"
<1> DEFINE none == Placing!NoSession
           new == Placing!NewSession
<1>1. /\ none = [status |-> "none", queued |-> <<>>, probes |-> <<>>, demonstrated |-> {}, gap |-> {}]
      /\ new = [status |-> "active", queued |-> Anchors, probes |-> <<>>, demonstrated |-> {}, gap |-> {}]
  <2>1. none = [status |-> "none", queued |-> <<>>, probes |-> <<>>, demonstrated |-> {}, gap |-> {}]
    BY DEF Placing!NoSession
  <2>2. new = [none EXCEPT !.status = "active", !.queued = Anchors]
    BY DEF Placing!NewSession
  <2> HIDE DEF none, new
  <2> QED
    BY <2>1, <2>2
<1>2. Anchors \in Seq(KCs) /\ Injective(Anchors) /\ Injective(<<>>)
  BY DocPlaces DEF Placing!PlacementAssumption, Injective, Placing!IsInjective
<1>3. <<>> \in Seq(KCs) /\ <<>> \in Seq(Probe) /\ Len(<<>>) = 0 /\ DOMAIN <<>> = {}
  OBVIOUS
<1> HIDE DEF none, new
<1>4. none \in Doc /\ new \in Doc
  BY <1>1, <1>2, <1>3 DEF Doc
<1>5. Probed(none) = {} /\ Probed(new) = {}
  BY <1>1, <1>3 DEF Probed
<1>6. Judged(none) /\ Judged(new)
  BY <1>1, <1>2, <1>3, <1>5 DEF Judged
<1>7. After({}) = {} /\ Before({}) = {}
  BY DEF After, Before
<1>8. Frontier(none, skip) /\ Frontier(new, skip)
  BY <1>1, <1>7 DEF Frontier
<1> QED
  BY <1>1, <1>4, <1>6, <1>8 DEF Sound, none, new

\* What could not be asked about only grows while a walk goes on.
LEMMA MoreSkipped ==
    ASSUME NEW doc, NEW few, NEW many, Sound(doc, few), few \subseteq many
    PROVE  Sound(doc, many)
  BY DEF Sound, Frontier

LEMMA Disjoint ==
    ASSUME NEW doc, Judged(doc) PROVE doc.demonstrated \cap doc.gap = {}
  BY DEF Judged

\* The last question is about a component.
LEMMA LastProbe ==
    ASSUME NEW doc, NEW skip, Sound(doc, skip), Placing!Pending(doc)
    PROVE  Placing!Last(doc.probes).kc \in KCs
<1>1. doc.probes \in Seq(Probe) /\ doc.probes # <<>>
  BY DEF Sound, Doc, Placing!Pending
<1>2. Placing!Last(doc.probes) = doc.probes[Len(doc.probes)] /\ Len(doc.probes) \in 1..Len(doc.probes)
  BY <1>1 DEF Placing!Last
<1>3. doc.probes[Len(doc.probes)] \in Probe
  BY <1>1, <1>2
<1> QED
  BY <1>2, <1>3 DEF Probe

\* The answer to the last question, and where it points.
PointsTo(doc, correct) ==
    LET kc == Placing!Last(doc.probes).kc
    IN  IF correct = "yes" THEN After({kc}) ELSE ToSet(Prerequisites[kc])

\* It was read off a list but for some.
ReadOff(doc, correct, near, more) == PointsTo(doc, correct) \subseteq ToSet(near) \cup more

LEMMA AnsweredSound ==
    ASSUME Placing!PlacementAssumption, NEW doc, NEW skip, NEW correct \in {"yes", "no"}, NEW near \in Seq(KCs),
           NEW more, NEW next, Sound(doc, skip), Placing!Pending(doc),
           ReadOff(doc, correct, near, more),
           next = Placing!Answered(doc, correct, near)
    PROVE  /\ Sound(next, skip \cup more) /\ Len(next.probes) = Len(doc.probes)
           /\ next.status = doc.status
<1>1. PICK n : n = Len(doc.probes)
  OBVIOUS
<1>2. doc \in Doc /\ Judged(doc) /\ Frontier(doc, skip)
  BY DEF Sound
<1>3. /\ doc.probes \in Seq(Probe) /\ n \in Nat \ {0} /\ doc.probes[n].correct = "pending"
      /\ Placing!Last(doc.probes) = doc.probes[n] /\ doc.probes[n] \in Probe
  BY <1>1, <1>2 DEF Doc, Placing!Pending, Placing!Last
<1>4. PICK k : k = doc.probes[n].kc
  OBVIOUS
<1>5. k \in KCs
  BY <1>3, <1>4 DEF Probe
<1>6. PointsTo(doc, correct) = IF correct = "yes" THEN After({k}) ELSE ToSet(Prerequisites[k])
  BY <1>3, <1>4 DEF PointsTo
<1>7. near \in Seq(KCs)
  OBVIOUS
<1>8. PICK longer : longer = Placing!Enqueue(doc, near)
  OBVIOUS
<1>9. PICK after : after = Placing!Front(doc.probes) \o <<[doc.probes[n] EXCEPT !.correct = correct]>>
  OBVIOUS
<1>10. /\ after \in Seq(Probe) /\ Len(after) = n
       /\ \A i \in 1..n : after[i].kc = doc.probes[i].kc
       /\ \A i \in 1..(n - 1) : after[i] = doc.probes[i]
       /\ after[n].correct = correct /\ after[n].kc = k
  <2>1. PICK front : front = Placing!Front(doc.probes)
    OBVIOUS
  <2>2. PICK last : last = [doc.probes[n] EXCEPT !.correct = correct]
    OBVIOUS
  <2>3. last \in Probe /\ last.correct = correct /\ last.kc = k
    BY <1>3, <1>4, <2>2 DEF Probe
  <2>4. front \in Seq(Probe) /\ Len(front) = n - 1 /\ \A i \in 1..(n - 1) : front[i] = doc.probes[i]
    BY <1>1, <1>3, <2>1 DEF Placing!Front
  <2>5. after = front \o <<last>>
    BY <1>9, <2>1, <2>2
  <2>6. /\ after \in Seq(Probe) /\ Len(after) = n /\ after[n] = last
        /\ \A i \in 1..(n - 1) : after[i] = front[i]
    BY <1>3, <2>3, <2>4, <2>5
  <2> QED
    BY <1>3, <1>4, <2>3, <2>4, <2>6
<1>11. /\ next = [doc EXCEPT !.probes = after, !.queued = longer,
                    !.demonstrated = IF correct = "yes" THEN @ \cup {k} ELSE @,
                    !.gap = IF correct = "no" THEN @ \cup {k} ELSE @]
  BY <1>3, <1>4, <1>8, <1>9 DEF Placing!Answered
<1>12. /\ next.status = doc.status /\ next.probes = after /\ next.queued = longer
       /\ next.demonstrated = IF correct = "yes" THEN doc.demonstrated \cup {k} ELSE doc.demonstrated
       /\ next.gap = IF correct = "no" THEN doc.gap \cup {k} ELSE doc.gap
  BY <1>2, <1>11 DEF Doc
<1>13. /\ doc.queued \in Seq(KCs) /\ Injective(doc.queued) /\ Probed(doc) \cap ToSet(doc.queued) = {}
  BY <1>2 DEF Doc, Judged
<1>14. /\ longer \in Seq(KCs) /\ Injective(longer) /\ Probed(doc) \cap ToSet(longer) = {}
       /\ ToSet(doc.queued) \subseteq ToSet(longer)
       /\ ToSet(near) \subseteq Probed(doc) \cup ToSet(longer)
  BY <1>7, <1>8, <1>13, EnqueueIs
<1>15. next \in Doc
  <2>1. PICK found, missing : /\ found = IF correct = "yes" THEN doc.demonstrated \cup {k} ELSE doc.demonstrated
                              /\ missing = IF correct = "no" THEN doc.gap \cup {k} ELSE doc.gap
    OBVIOUS
  <2>2. next = [doc EXCEPT !.probes = after, !.queued = longer, !.demonstrated = found, !.gap = missing]
    BY <1>11, <2>1
  <2>3. doc.demonstrated \in SUBSET KCs /\ doc.gap \in SUBSET KCs
    BY <1>2 DEF Doc
  <2>4. found \in SUBSET KCs /\ missing \in SUBSET KCs
    BY <1>5, <2>1, <2>3
  <2> QED
    BY <1>2, <1>10, <1>14, <2>2, <2>4 DEF Doc
<1>16. /\ DOMAIN doc.probes = 1..n /\ DOMAIN after = 1..n
  BY <1>1, <1>3, <1>10
<1>17. Probed(next) = Probed(doc)
  BY <1>10, <1>12, <1>16 DEF Probed
<1>18. Judged(next)
  <2>1. \A i, j \in DOMAIN after : after[i].kc = after[j].kc => i = j
    BY <1>2, <1>10, <1>16 DEF Judged
  <2>2. ASSUME NEW d \in doc.demonstrated
        PROVE  \E i \in DOMAIN after : after[i].kc = d /\ after[i].correct = "yes"
    <3>1. PICK i \in 1..n : doc.probes[i].kc = d /\ doc.probes[i].correct = "yes"
      BY <1>2, <1>16 DEF Judged
    <3>2. i \in 1..(n - 1)
      BY <1>3, <3>1
    <3> QED
      BY <1>10, <1>16, <3>1, <3>2
  <2>3. ASSUME NEW g \in doc.gap
        PROVE  \E i \in DOMAIN after : after[i].kc = g /\ after[i].correct = "no"
    <3>1. PICK i \in 1..n : doc.probes[i].kc = g /\ doc.probes[i].correct = "no"
      BY <1>2, <1>16 DEF Judged
    <3>2. i \in 1..(n - 1)
      BY <1>3, <3>1
    <3> QED
      BY <1>10, <1>16, <3>1, <3>2
  <2>4. n \in DOMAIN after
    BY <1>3, <1>16
  <2>5. \A d \in next.demonstrated : \E i \in DOMAIN after : after[i].kc = d /\ after[i].correct = "yes"
    BY <1>10, <1>12, <2>2, <2>4
  <2>6. \A g \in next.gap : \E i \in DOMAIN after : after[i].kc = g /\ after[i].correct = "no"
    BY <1>10, <1>12, <2>3, <2>4
  <2>7. Injective(next.queued) /\ Probed(next) \cap ToSet(next.queued) = {}
    BY <1>12, <1>14, <1>17
  <2>8. \A i, j \in DOMAIN next.probes : next.probes[i].kc = next.probes[j].kc => i = j
    BY <1>12, <2>1
  <2>9. /\ \A d \in next.demonstrated : \E i \in DOMAIN next.probes :
               next.probes[i].kc = d /\ next.probes[i].correct = "yes"
        /\ \A g \in next.gap : \E i \in DOMAIN next.probes :
               next.probes[i].kc = g /\ next.probes[i].correct = "no"
    BY <1>12, <2>5, <2>6
  <2> QED
    BY <2>7, <2>8, <2>9 DEF Judged
<1>19. Frontier(next, skip \cup more)
  <2>1. After(doc.demonstrated \cup {k}) = After(doc.demonstrated) \cup After({k})
    BY DEF After
  <2>2. Before(doc.gap \cup {k}) = Before(doc.gap) \cup ToSet(Prerequisites[k])
    BY DEF Before
  <2>3. After(doc.demonstrated) \cup Before(doc.gap) \subseteq Probed(doc) \cup ToSet(doc.queued) \cup skip
    BY <1>2 DEF Frontier
  <2>4. PointsTo(doc, correct) \subseteq Probed(doc) \cup ToSet(longer) \cup more
    BY <1>14 DEF ReadOff
  <2>5. After(next.demonstrated) \cup Before(next.gap)
            \subseteq After(doc.demonstrated) \cup Before(doc.gap) \cup PointsTo(doc, correct)
    <3>1. CASE correct = "yes"
      <4>1. next.demonstrated = doc.demonstrated \cup {k} /\ next.gap = doc.gap
        BY <1>12, <3>1
      <4>2. After(next.demonstrated) = After(doc.demonstrated) \cup After({k}) /\ Before(next.gap) = Before(doc.gap)
        BY <2>1, <4>1
      <4>3. PointsTo(doc, correct) = After({k})
        BY <1>6, <3>1
      <4> QED
        BY <4>2, <4>3
    <3>2. CASE correct = "no"
      <4>1. next.demonstrated = doc.demonstrated /\ next.gap = doc.gap \cup {k}
        BY <1>12, <3>2
      <4>2. /\ After(next.demonstrated) = After(doc.demonstrated)
            /\ Before(next.gap) = Before(doc.gap) \cup ToSet(Prerequisites[k])
        BY <2>2, <4>1
      <4>3. PointsTo(doc, correct) = ToSet(Prerequisites[k])
        BY <1>6, <3>2
      <4> QED
        BY <4>2, <4>3
    <3> QED
      BY <3>1, <3>2
  <2>6. ToSet(doc.queued) \subseteq ToSet(next.queued) /\ next.queued = longer
    BY <1>12, <1>14
  <2> QED
    BY <1>17, <2>3, <2>4, <2>5, <2>6 DEF Frontier
<1> QED
  BY <1>1, <1>10, <1>12, <1>15, <1>18, <1>19 DEF Sound

\* The head of the queue.
LEMMA Dequeued ==
    ASSUME NEW K, NEW s \in Seq(K), s # <<>>, Injective(s)
    PROVE  /\ Head(s) \in K /\ Tail(s) \in Seq(K) /\ Injective(Tail(s))
           /\ ToSet(s) = {Head(s)} \cup ToSet(Tail(s)) /\ Head(s) \notin ToSet(Tail(s))
<1> DEFINE r == Tail(s)
<1>1. /\ r \in Seq(K) /\ Len(r) = Len(s) - 1 /\ Len(s) \in Nat \ {0}
      /\ Head(s) = s[1] /\ s[1] \in K /\ \A i \in 1..Len(r) : r[i] = s[i + 1]
  OBVIOUS
<1> HIDE DEF r
<1>2. ToSet(r) = {r[i] : i \in 1..Len(r)} /\ ToSet(s) = {s[i] : i \in 1..Len(s)}
  BY <1>1 DEF ToSet
<1>3. Injective(r)
  <2> SUFFICES ASSUME NEW i \in 1..Len(r), NEW j \in 1..Len(r), r[i] = r[j] PROVE i = j
    BY DEF Injective
  <2>1. s[i + 1] = s[j + 1] /\ i + 1 \in 1..Len(s) /\ j + 1 \in 1..Len(s)
    BY <1>1
  <2>2. i + 1 = j + 1
    BY <2>1 DEF Injective
  <2> QED
    BY <2>2
<1>4. s[1] \notin ToSet(r)
  <2> SUFFICES ASSUME NEW i \in 1..Len(r), r[i] = s[1] PROVE FALSE
    BY <1>2
  <2>1. s[i + 1] = s[1] /\ i + 1 \in 1..Len(s) /\ 1 \in 1..Len(s)
    BY <1>1
  <2>2. i + 1 = 1
    BY <2>1 DEF Injective
  <2> QED
    BY <2>2
<1>5. \A x \in ToSet(s) : x = s[1] \/ x \in ToSet(r)
  <2> SUFFICES ASSUME NEW i \in 1..Len(s), i # 1 PROVE s[i] \in ToSet(r)
    BY <1>2
  <2>1. i - 1 \in 1..Len(r) /\ r[i - 1] = s[i]
    BY <1>1
  <2> QED
    BY <1>2, <2>1
<1>6. \A x \in ToSet(r) : x \in ToSet(s)
  <2> SUFFICES ASSUME NEW i \in 1..Len(r) PROVE r[i] \in ToSet(s)
    BY <1>2
  <2>1. i + 1 \in 1..Len(s) /\ r[i] = s[i + 1]
    BY <1>1
  <2> QED
    BY <1>2, <2>1
<1>7. s[1] \in ToSet(s)
  BY <1>1, <1>2
<1> QED
  BY <1>1, <1>3, <1>4, <1>5, <1>6, <1>7 DEF r

\* A question about the head is appended.
LEMMA AskedSound ==
    ASSUME NEW doc, NEW skip, NEW next, NEW probe \in Probe, Sound(doc, skip), doc.queued # <<>>,
           probe.kc = Head(doc.queued),
           next \in Doc, next.queued = Tail(doc.queued), next.probes = Append(doc.probes, probe),
           next.demonstrated = doc.demonstrated, next.gap = doc.gap
    PROVE  Sound(next, skip)
<1>1. doc \in Doc /\ Judged(doc) /\ Frontier(doc, skip)
  BY DEF Sound
<1>2. PICK k, rest, n : k = Head(doc.queued) /\ rest = Tail(doc.queued) /\ n = Len(doc.probes)
  OBVIOUS
<1>4. PICK after : after = Append(doc.probes, probe)
  OBVIOUS
<1>5. doc.queued \in Seq(KCs) /\ Injective(doc.queued) /\ doc.probes \in Seq(Probe) /\ n \in Nat
  BY <1>1, <1>2 DEF Doc, Judged
<1>6. /\ k \in KCs /\ rest \in Seq(KCs) /\ Injective(rest)
      /\ ToSet(doc.queued) = {k} \cup ToSet(rest) /\ k \notin ToSet(rest)
  BY <1>2, <1>5, Dequeued
<1>7. probe \in Probe /\ probe.kc = k
  BY <1>2
<1>8. /\ after \in Seq(Probe) /\ Len(after) = n + 1 /\ after[n + 1] = probe
      /\ \A i \in 1..n : after[i] = doc.probes[i]
  BY <1>2, <1>4, <1>5, <1>7
<1>10. /\ next.queued = rest /\ next.probes = after
       /\ next.demonstrated = doc.demonstrated /\ next.gap = doc.gap
  BY <1>2, <1>4
<1>11. next \in Doc
  OBVIOUS
<1>12. DOMAIN after = 1..(n + 1) /\ DOMAIN doc.probes = 1..n
  BY <1>2, <1>5, <1>8
<1>13. Probed(next) = Probed(doc) \cup {k}
  <2>1. \A i \in 1..n : i \in 1..(n + 1) /\ after[i].kc = doc.probes[i].kc
    BY <1>5, <1>8
  <2>2. after[n + 1].kc = k /\ n + 1 \in 1..(n + 1)
    BY <1>5, <1>7, <1>8
  <2>3. \A i \in 1..(n + 1) : i = n + 1 \/ i \in 1..n
    BY <1>5
  <2> QED
    BY <1>10, <1>12, <2>1, <2>2, <2>3 DEF Probed
<1>14. k \notin Probed(doc)
  BY <1>1, <1>6 DEF Judged
<1>15. Judged(next)
  <2>1. \A i, j \in DOMAIN after : after[i].kc = after[j].kc => i = j
    <3> SUFFICES ASSUME NEW i \in 1..(n + 1), NEW j \in 1..(n + 1), after[i].kc = after[j].kc
                 PROVE  i = j
      BY <1>12
    <3>1. \A x \in 1..n : after[x].kc \in Probed(doc) /\ after[x] = doc.probes[x]
      BY <1>8, <1>12 DEF Probed
    <3>2. CASE i \in 1..n /\ j \in 1..n
      BY <1>1, <1>12, <3>1, <3>2 DEF Judged
    <3>3. CASE i = n + 1 /\ j \in 1..n
      <4>1. after[i].kc = k /\ after[j].kc \in Probed(doc)
        BY <1>7, <1>8, <3>1, <3>3
      <4> QED
        BY <1>14, <4>1
    <3>4. CASE j = n + 1 /\ i \in 1..n
      <4>1. after[j].kc = k /\ after[i].kc \in Probed(doc)
        BY <1>7, <1>8, <3>1, <3>4
      <4> QED
        BY <1>14, <4>1
    <3>5. \A x \in 1..(n + 1) : x \in 1..n \/ x = n + 1
      BY <1>5
    <3> QED
      BY <3>2, <3>3, <3>4, <3>5
  <2>2. \A i \in 1..n : i \in DOMAIN after
    BY <1>5, <1>12
  <2>3. \A d \in doc.demonstrated : \E i \in DOMAIN after : after[i].kc = d /\ after[i].correct = "yes"
    BY <1>1, <1>8, <1>12, <2>2 DEF Judged
  <2>4. \A g \in doc.gap : \E i \in DOMAIN after : after[i].kc = g /\ after[i].correct = "no"
    BY <1>1, <1>8, <1>12, <2>2 DEF Judged
  <2>5. Probed(next) \cap ToSet(rest) = {}
    BY <1>1, <1>6, <1>13 DEF Judged
  <2>6. Injective(next.queued) /\ Probed(next) \cap ToSet(next.queued) = {}
    BY <1>6, <1>10, <2>5
  <2> QED
    BY <1>10, <2>1, <2>3, <2>4, <2>6 DEF Judged
<1>16. Frontier(next, skip)
  BY <1>1, <1>6, <1>10, <1>13 DEF Frontier
<1> QED
  BY <1>10, <1>11, <1>15, <1>16 DEF Sound

\* No question could be made about the head.
LEMMA SkippedSound ==
    ASSUME NEW doc, NEW skip, NEW next, Sound(doc, skip), doc.queued # <<>>,
           next = [doc EXCEPT !.queued = Tail(@)]
    PROVE  Sound(next, skip \cup {Head(doc.queued)}) /\ next.status = doc.status
<1>1. doc \in Doc /\ Judged(doc) /\ Frontier(doc, skip)
  BY DEF Sound
<1>2. PICK k, rest : k = Head(doc.queued) /\ rest = Tail(doc.queued)
  OBVIOUS
<1>3. doc.queued \in Seq(KCs) /\ Injective(doc.queued)
  BY <1>1 DEF Doc, Judged
<1>4. /\ rest \in Seq(KCs) /\ Injective(rest)
      /\ ToSet(doc.queued) = {k} \cup ToSet(rest) /\ k \notin ToSet(rest)
  BY <1>2, <1>3, Dequeued
<1>5. next = [doc EXCEPT !.queued = rest]
  BY <1>2
<1>6. /\ next.status = doc.status /\ next.queued = rest /\ next.probes = doc.probes
      /\ next.demonstrated = doc.demonstrated /\ next.gap = doc.gap
  BY <1>1, <1>5 DEF Doc
<1>7. next \in Doc
  BY <1>1, <1>4, <1>5 DEF Doc
<1>8. Probed(next) = Probed(doc)
  BY <1>6 DEF Probed
<1>9. Judged(next)
  <2>1. Injective(next.queued) /\ Probed(next) \cap ToSet(next.queued) = {}
    BY <1>1, <1>4, <1>6, <1>8 DEF Judged
  <2>2. \A i, j \in DOMAIN next.probes : next.probes[i].kc = next.probes[j].kc => i = j
    BY <1>1, <1>6 DEF Judged
  <2>3. \A d \in next.demonstrated : \E i \in DOMAIN next.probes :
            next.probes[i].kc = d /\ next.probes[i].correct = "yes"
    BY <1>1, <1>6 DEF Judged
  <2>4. \A g \in next.gap : \E i \in DOMAIN next.probes :
            next.probes[i].kc = g /\ next.probes[i].correct = "no"
    BY <1>1, <1>6 DEF Judged
  <2> QED
    BY <2>1, <2>2, <2>3, <2>4 DEF Judged
<1>10. Frontier(next, skip \cup {k})
  BY <1>1, <1>4, <1>6, <1>8 DEF Frontier
<1> QED
  BY <1>2, <1>6, <1>7, <1>9, <1>10 DEF Sound

-----------------------------------------------------------------------------
(* The invariant.                                                           *)

Busy(t) == ~Placing!At(t, "idle")

\* What could not be asked about, or was not found.
Unasked == skipped \cup missed

Shaped ==
    /\ DOMAIN thread = Threads
    /\ \A t \in Threads : thread[t] = [pc |-> thread[t].pc, doc |-> thread[t].doc,
                                       seeded |-> thread[t].seeded]
    /\ crossed \in BOOLEAN

\* A session out of a walk, and where the thread stands that walks it.
Stands(t) ==
    LET doc == thread[t].doc IN
    /\ Sound(doc, Unasked)
    /\ thread[t].pc \in {"idle", "look", "next", "complete", "seed", "save"}
    /\ Placing!At(t, "idle") <=> doc.status = "none"
    /\ Placing!At(t, "idle") => doc = Placing!NoSession
    /\ Placing!At(t, "next") \/ Placing!At(t, "complete") => doc.status = "active"
    /\ Placing!At(t, "look") => doc.status = "active" /\ Placing!Pending(doc)
    /\ Placing!At(t, "seed") => doc.status = "completed"
    /\ Placing!At(t, "complete") \/ doc.status = "completed" => Ended(doc)

Saved ==
    /\ Sound(placed, Unasked)
    /\ placed.status = "none" => placed = Placing!NoSession
    /\ placed.status = "completed" => Ended(placed)

Walks == Saved /\ \A t \in Threads : Stands(t)

\* While calls came one at a time.
InTurn ==
    ~crossed =>
        /\ \A t, u \in Threads : Busy(t) /\ Busy(u) => t = u
        /\ placed.status = "completed" =>
                Follows(mastery, placed) /\ \A t \in Threads : ~Busy(t)
        /\ \A t \in Threads :
                /\ Placing!At(t, "seed") => Follows(thread[t].seeded, thread[t].doc)
                /\ Placing!At(t, "save") /\ thread[t].doc.status = "completed" =>
                        Follows(mastery, thread[t].doc)

Mastered ==
    /\ Masteries(mastery)
    /\ \A t \in Threads : Placing!At(t, "seed") => Masteries(thread[t].seeded)

PlaceInv == Shaped /\ Walks /\ Mastered /\ InTurn

LEMMA PlaceStarts ==
    ASSUME Placing!PlacementAssumption PROVE Placing!Init => PlaceInv
<1> SUFFICES ASSUME Placing!Init PROVE PlaceInv
  OBVIOUS
<1> DEFINE none == Placing!NoSession
<1>1. /\ placed = none /\ mastery \in Profiles /\ Unasked = {} /\ crossed = FALSE
      /\ thread = [t \in Threads |-> Placing!Idle]
  BY DEF Placing!Init, Unasked
<1>2. Placing!Idle = [pc |-> "idle", doc |-> none, seeded |-> <<>>]
  BY DEF Placing!Idle
<1>3. Sound(none, {}) /\ none.status = "none"
  BY EmptyIsSound
<1> HIDE DEF none
<1>4. Shaped
  BY <1>1, <1>2 DEF Shaped
<1>5. \A t \in Threads : thread[t].pc = "idle" /\ thread[t].doc = none
  BY <1>1, <1>2
<1>6. Walks
  BY <1>1, <1>3, <1>5 DEF Walks, Saved, Stands, Placing!At, none
<1>7. Mastered
  <2>1. \A k \in DOMAIN mastery : mastery[k] \in 0..100
    BY <1>1 DEF Placing!PlacementAssumption
  <2>2. \A t \in Threads : ~Placing!At(t, "seed")
    BY <1>5 DEF Placing!At
  <2> QED
    BY <2>1, <2>2 DEF Mastered, Masteries
<1>8. InTurn
  BY <1>1, <1>3, <1>5 DEF InTurn, Busy, Placing!At
<1> QED
  BY <1>4, <1>6, <1>7, <1>8 DEF PlaceInv

\* What a thread becomes.
LEMMA ThreadBecomes ==
    ASSUME Shaped, NEW t \in Threads, NEW pc, NEW doc, Placing!Become(t, pc, doc)
    PROVE  /\ DOMAIN thread' = Threads
           /\ thread'[t] = [pc |-> pc, doc |-> doc, seeded |-> thread[t].seeded]
           /\ thread'[t].pc = pc /\ thread'[t].doc = doc
           /\ \A u \in Threads : u # t => thread'[u] = thread[u]
<1>1. PICK th : th = [thread EXCEPT ![t].pc = pc]
  OBVIOUS
<1>2. thread' = [th EXCEPT ![t].doc = doc]
  BY <1>1 DEF Placing!Become
<1>3. /\ DOMAIN th = Threads /\ \A u \in Threads : u # t => th[u] = thread[u]
      /\ th[t] = [pc |-> pc, doc |-> thread[t].doc, seeded |-> thread[t].seeded]
  BY <1>1 DEF Shaped
<1> QED
  BY <1>2, <1>3

LEMMA ShapeKept ==
    ASSUME Shaped, NEW t \in Threads, NEW pc, NEW doc, NEW seeded, DOMAIN thread' = Threads,
           thread'[t] = [pc |-> pc, doc |-> doc, seeded |-> seeded],
           \A u \in Threads : u # t => thread'[u] = thread[u], crossed' \in BOOLEAN
    PROVE  Shaped'
  BY DEF Shaped

\* The others stand where they stood.
LEMMA OthersStand ==
    ASSUME NEW t \in Threads, \A u \in Threads : u # t => thread'[u] = thread[u],
           Unasked \subseteq Unasked', \A u \in Threads : Stands(u)
    PROVE  \A u \in Threads : u # t => Stands(u)'
<1> SUFFICES ASSUME NEW u \in Threads, u # t PROVE Stands(u)'
  OBVIOUS
<1>1. Stands(u) /\ thread'[u] = thread[u]
  OBVIOUS
<1>2. Sound(thread[u].doc, Unasked')
  BY <1>1, MoreSkipped DEF Stands
<1> QED
  BY <1>1, <1>2 DEF Stands, Placing!At

LEMMA SavedKept ==
    ASSUME Saved, placed' = placed, Unasked \subseteq Unasked' PROVE Saved'
<1>1. Sound(placed, Unasked')
  BY MoreSkipped DEF Saved
<1> QED
  BY <1>1 DEF Saved

LEMMA PlaceSteps ==
    ASSUME Placing!PlacementAssumption, PlaceInv, [Placing!Next]_(Placing!vars)
    PROVE  PlaceInv'
<1>0. Shaped /\ Saved /\ (\A u \in Threads : Stands(u)) /\ Mastered /\ InTurn
  BY DEF PlaceInv, Walks
<1>1. ASSUME NEW t \in Threads, Placing!Start(t) PROVE PlaceInv'
  <2> DEFINE new == Placing!NewSession
  <2>1. /\ placed.status = "none" /\ \A u \in Threads : Placing!At(u, "idle")
        /\ Placing!Become(t, "next", new) /\ Unasked' = {}
        /\ placed' = placed /\ mastery' = mastery /\ crossed' = crossed
    BY <1>1 DEF Placing!Start, Unasked
  <2>2. /\ placed = Placing!NoSession /\ \A u \in Threads : thread[u].doc = Placing!NoSession
    BY <1>0, <2>1 DEF Saved, Stands
  <2>3. Sound(Placing!NoSession, {}) /\ Sound(new, {}) /\ new.status = "active"
        /\ Placing!NoSession.status = "none"
    BY EmptyIsSound
  <2> HIDE DEF new
  <2>4. /\ DOMAIN thread' = Threads
        /\ thread'[t] = [pc |-> "next", doc |-> new, seeded |-> thread[t].seeded]
        /\ thread'[t].pc = "next" /\ thread'[t].doc = new
        /\ \A u \in Threads : u # t => thread'[u] = thread[u]
    BY <1>0, <2>1, ThreadBecomes
  <2>5. Shaped'
    BY <1>0, <2>1, <2>4, ShapeKept DEF Shaped
  <2>6. \A u \in Threads : Stands(u)'
    <3>1. Stands(t)'
      BY <2>1, <2>3, <2>4 DEF Stands, Placing!At
    <3>2. ASSUME NEW u \in Threads, u # t PROVE Stands(u)'
      BY <1>0, <2>1, <2>2, <2>3, <2>4, <3>2 DEF Stands, Placing!At
    <3> QED
      BY <3>1, <3>2
  <2>7. Saved'
    BY <2>1, <2>2, <2>3 DEF Saved
  <2>8. Mastered'
    BY <1>0, <2>1, <2>4 DEF Mastered, Placing!At
  <2>9. InTurn'
    <3>1. \A u \in Threads : Busy(u)' => u = t
      BY <2>1, <2>4 DEF Busy, Placing!At
    <3>2. placed'.status # "completed"
      BY <2>1
    <3>3. \A u \in Threads : ~Placing!At(u, "seed")' /\ ~Placing!At(u, "save")'
      BY <2>1, <2>4 DEF Placing!At
    <3> QED
      BY <3>1, <3>2, <3>3 DEF InTurn
  <2> QED
    BY <2>5, <2>6, <2>7, <2>8, <2>9 DEF PlaceInv, Walks
<1>2. ASSUME NEW t \in Threads, Placing!Respond(t) PROVE PlaceInv'
  <2>1. /\ Placing!At(t, "idle") /\ placed.status = "active" /\ Placing!Pending(placed)
        /\ crossed' = (crossed \/ \E u \in Threads : ~Placing!At(u, "idle"))
        /\ placed' = placed /\ mastery' = mastery /\ Unasked' = Unasked
    BY <1>2 DEF Placing!Respond, Unasked
  <2>2. PICK doc, pc : /\ Placing!Become(t, pc, doc)
                       /\ \/ pc = "look" /\ doc = placed
                          \/ /\ doc = Placing!Answered(placed, "no", Prerequisites[Placing!Last(placed.probes).kc])
                             /\ pc = IF Len(doc.probes) >= QuestionBudget \/ doc.queued = <<>>
                                     THEN "complete" ELSE "next"
    BY <1>2 DEF Placing!Respond, Placing!GoOn
  <2>3. /\ Sound(doc, Unasked) /\ doc.status = "active" /\ pc \in {"look", "next", "complete"}
        /\ pc = "look" => Placing!Pending(doc)
        /\ pc = "complete" => Ended(doc)
    <3>1. Sound(placed, Unasked)
      BY <1>0 DEF Saved
    <3>2. CASE pc = "look" /\ doc = placed
      BY <2>1, <3>1, <3>2
    <3>3. CASE /\ doc = Placing!Answered(placed, "no", Prerequisites[Placing!Last(placed.probes).kc])
               /\ pc = IF Len(doc.probes) >= QuestionBudget \/ doc.queued = <<>> THEN "complete" ELSE "next"
      <4>1. PICK kc : kc = Placing!Last(placed.probes).kc
        OBVIOUS
      <4>2. kc \in KCs
        BY <2>1, <3>1, <4>1, LastProbe
      <4>3. PICK near : near = Prerequisites[kc]
        OBVIOUS
      <4>4. near \in Seq(KCs)
        BY <4>2, <4>3, DocPlaces DEF Placing!PlacementAssumption
      <4>5. ReadOff(placed, "no", near, {})
        BY <4>1, <4>3 DEF PointsTo, ReadOff
      <4>6. doc = Placing!Answered(placed, "no", near) /\ "no" \in {"yes", "no"}
        BY <3>3, <4>1, <4>3
      <4>7. Sound(doc, Unasked \cup {}) /\ doc.status = placed.status
        BY <2>1, <3>1, <4>4, <4>5, <4>6, AnsweredSound
      <4> QED
        BY <2>1, <3>3, <4>7 DEF Ended
    <3> QED
      BY <2>2, <3>2, <3>3
  <2>4. /\ DOMAIN thread' = Threads
        /\ thread'[t] = [pc |-> pc, doc |-> doc, seeded |-> thread[t].seeded]
        /\ thread'[t].pc = pc /\ thread'[t].doc = doc
        /\ \A u \in Threads : u # t => thread'[u] = thread[u]
    BY <1>0, <2>2, ThreadBecomes
  <2>5. crossed' \in BOOLEAN
    BY <1>0, <2>1 DEF Shaped
  <2>6. Shaped'
    BY <1>0, <2>4, <2>5, ShapeKept
  <2>7. \A u \in Threads : Stands(u)'
    <3>1. Stands(t)'
      BY <2>1, <2>3, <2>4 DEF Stands, Placing!At
    <3> QED
      BY <1>0, <2>1, <2>4, <3>1, OthersStand
  <2>8. Saved'
    BY <1>0, <2>1, SavedKept
  <2>9. Mastered'
    BY <1>0, <2>1, <2>3, <2>4 DEF Mastered, Placing!At
  <2>10. InTurn'
    <3> SUFFICES ASSUME ~crossed' PROVE InTurn'
      BY DEF InTurn
    <3>1. \A u \in Threads : Placing!At(u, "idle")
      BY <2>1
    <3>2. \A u \in Threads : Busy(u)' => u = t
      BY <2>4, <3>1 DEF Busy, Placing!At
    <3>3. \A u \in Threads : ~Placing!At(u, "seed")' /\ ~Placing!At(u, "save")'
      BY <2>3, <2>4, <3>1 DEF Placing!At
    <3> QED
      BY <2>1, <3>2, <3>3 DEF InTurn
  <2> QED
    BY <2>6, <2>7, <2>8, <2>9, <2>10 DEF PlaceInv, Walks
<1>11. ASSUME NEW t \in Threads, Placing!LookUp(t) PROVE PlaceInv'
  <2>1. PICK before, kc, known, near, doc, pc :
            /\ before = thread[t].doc /\ kc = Placing!Last(before.probes).kc
            /\ known = Placing!Listed(mapped) /\ near = Placing!DependentsIn(kc, known)
            /\ doc = Placing!Answered(before, "yes", near)
            /\ pc = IF Len(doc.probes) >= QuestionBudget \/ doc.queued = <<>> THEN "complete" ELSE "next"
    OBVIOUS
  <2>2. /\ Placing!At(t, "look") /\ Placing!Become(t, pc, doc)
        /\ missed' = missed \cup (Placing!After({kc}) \ known)
        /\ placed' = placed /\ mastery' = mastery /\ skipped' = skipped /\ crossed' = crossed
    BY <1>11, <2>1 DEF Placing!LookUp, Placing!GoOn
  <2>3. Unasked' = Unasked \cup (After({kc}) \ known)
    BY <2>2, DocPlaces DEF Unasked
  <2>4. Sound(before, Unasked) /\ before.status = "active" /\ Placing!Pending(before)
    BY <1>0, <2>1, <2>2 DEF Stands
  <2>5. /\ Sound(doc, Unasked') /\ doc.status = "active" /\ pc \in {"next", "complete"}
        /\ pc = "complete" => Ended(doc)
    <3>0. Corpus \in Seq(KCs)
      BY DocPlaces DEF Placing!PlacementAssumption
    <3>1. near \in Seq(KCs) /\ After({kc}) \cap known \subseteq ToSet(near)
      <4>1. near = Placing!DependentsIn(kc, known)
        BY <2>1
      <4> QED
        BY <3>0, <4>1, DependentsListed
    <3>2. PICK more : more = After({kc}) \ known
      OBVIOUS
    <3>3. ReadOff(before, "yes", near, more) /\ "yes" \in {"yes", "no"}
      BY <2>1, <3>1, <3>2 DEF PointsTo, ReadOff
    <3>4. Sound(doc, Unasked \cup more) /\ doc.status = before.status
      <4>1. doc = Placing!Answered(before, "yes", near) /\ near \in Seq(KCs)
        BY <2>1, <3>1
      <4> QED
        BY <2>4, <3>3, <4>1, AnsweredSound
    <3> QED
      BY <2>1, <2>3, <2>4, <3>2, <3>4 DEF Ended
  <2>6. /\ DOMAIN thread' = Threads
        /\ thread'[t] = [pc |-> pc, doc |-> doc, seeded |-> thread[t].seeded]
        /\ thread'[t].pc = pc /\ thread'[t].doc = doc
        /\ \A u \in Threads : u # t => thread'[u] = thread[u]
    BY <1>0, <2>2, ThreadBecomes
  <2>7. Shaped'
    BY <1>0, <2>2, <2>6, ShapeKept DEF Shaped
  <2>8. \A u \in Threads : Stands(u)'
    <3>1. Stands(t)'
      BY <2>5, <2>6 DEF Stands, Placing!At
    <3> QED
      BY <1>0, <2>3, <2>6, <3>1, OthersStand
  <2>9. Saved'
    BY <1>0, <2>2, <2>3, SavedKept
  <2>10. Mastered'
    BY <1>0, <2>2, <2>5, <2>6 DEF Mastered, Placing!At
  <2>11. InTurn'
    <3> SUFFICES ASSUME ~crossed' PROVE InTurn'
      BY DEF InTurn
    <3>1. ~crossed /\ Busy(t)
      BY <2>2 DEF Busy, Placing!At
    <3>2. \A u \in Threads : Busy(u)' => Busy(u)
      BY <2>6, <3>1 DEF Busy, Placing!At
    <3>3. \A u, v \in Threads : Busy(u)' /\ Busy(v)' => u = v
      BY <1>0, <3>1, <3>2 DEF InTurn
    <3>4. placed'.status # "completed"
      BY <1>0, <2>2, <3>1 DEF InTurn
    <3>5. \A u \in Threads : ~Placing!At(u, "seed")' /\ ~Placing!At(u, "save")'
      BY <1>0, <2>5, <2>6, <3>1 DEF InTurn, Busy, Placing!At
    <3> QED
      BY <3>3, <3>4, <3>5 DEF InTurn
  <2> QED
    BY <2>7, <2>8, <2>9, <2>10, <2>11 DEF PlaceInv, Walks
<1>3. ASSUME NEW t \in Threads, Placing!NextAsked(t) PROVE PlaceInv'
  <2>1. PICK doc, next : /\ doc = thread[t].doc
                         /\ next = [doc EXCEPT !.queued = Tail(@),
                              !.probes = Append(@, [kc |-> Head(doc.queued), correct |-> "pending"])]
    OBVIOUS
  <2>2. /\ Placing!At(t, "next") /\ doc.queued # <<>> /\ Placing!Become(t, "save", next)
        /\ placed' = placed /\ mastery' = mastery /\ Unasked' = Unasked /\ crossed' = crossed
    BY <1>3, <2>1 DEF Placing!NextAsked, Unasked
  <2>3. Sound(doc, Unasked) /\ doc.status = "active"
    BY <1>0, <2>1, <2>2 DEF Stands
  <2>4. Sound(next, Unasked) /\ next.status = "active"
    <3>1. PICK probe : probe = [kc |-> Head(doc.queued), correct |-> "pending"]
      OBVIOUS
    <3>2. Head(doc.queued) \in KCs
      BY <2>2, <2>3 DEF Sound, Doc
    <3>3. probe \in Probe /\ probe.kc = Head(doc.queued)
      BY <3>1, <3>2 DEF Probe
    <3>4. next = [doc EXCEPT !.queued = Tail(doc.queued), !.probes = Append(doc.probes, probe)]
      BY <2>1, <3>1
    <3>5. /\ doc \in Doc /\ Tail(doc.queued) \in Seq(KCs) /\ Append(doc.probes, probe) \in Seq(Probe)
      BY <2>2, <2>3, <3>3 DEF Sound, Doc
    <3>6. /\ next \in Doc /\ next.queued = Tail(doc.queued) /\ next.probes = Append(doc.probes, probe)
          /\ next.demonstrated = doc.demonstrated /\ next.gap = doc.gap /\ next.status = doc.status
      BY <3>4, <3>5 DEF Doc
    <3>7. Sound(next, Unasked)
      BY <2>2, <2>3, <3>3, <3>6, AskedSound
    <3> QED
      BY <2>3, <3>6, <3>7
  <2>5. /\ DOMAIN thread' = Threads
        /\ thread'[t] = [pc |-> "save", doc |-> next, seeded |-> thread[t].seeded]
        /\ thread'[t].pc = "save" /\ thread'[t].doc = next
        /\ \A u \in Threads : u # t => thread'[u] = thread[u]
    BY <1>0, <2>2, ThreadBecomes
  <2>6. Shaped'
    BY <1>0, <2>2, <2>5, ShapeKept DEF Shaped
  <2>7. \A u \in Threads : Stands(u)'
    <3>1. Stands(t)'
      BY <2>2, <2>4, <2>5 DEF Stands, Placing!At
    <3> QED
      BY <1>0, <2>2, <2>5, <3>1, OthersStand
  <2>8. Saved'
    BY <1>0, <2>2, SavedKept
  <2>9. Mastered'
    BY <1>0, <2>2, <2>5 DEF Mastered, Placing!At
  <2>10. InTurn'
    <3> SUFFICES ASSUME ~crossed' PROVE InTurn'
      BY DEF InTurn
    <3>1. ~crossed /\ Busy(t)
      BY <2>2 DEF Busy, Placing!At
    <3>2. \A u \in Threads : Busy(u)' => Busy(u)
      BY <2>5, <3>1 DEF Busy, Placing!At
    <3>3. \A u, v \in Threads : Busy(u)' /\ Busy(v)' => u = v
      BY <1>0, <3>1, <3>2 DEF InTurn
    <3>4. placed'.status # "completed"
      BY <1>0, <2>2, <3>1 DEF InTurn
    <3>5. \A u \in Threads : Placing!At(u, "seed")' \/ Placing!At(u, "save")' => u = t
      BY <1>0, <2>5, <3>1 DEF InTurn, Busy, Placing!At
    <3> QED
      BY <2>4, <2>5, <3>3, <3>4, <3>5 DEF InTurn, Placing!At
  <2> QED
    BY <2>6, <2>7, <2>8, <2>9, <2>10 DEF PlaceInv, Walks
<1>4. ASSUME NEW t \in Threads, Placing!NextFailed(t) PROVE PlaceInv'
  <2>1. PICK doc, next : /\ doc = thread[t].doc
                         /\ next = [doc EXCEPT !.queued = Tail(@)]
    OBVIOUS
  <2>2. /\ Placing!At(t, "next") /\ doc.queued # <<>> /\ Placing!Become(t, "next", next)
        /\ Unasked' = Unasked \cup {Head(doc.queued)}
        /\ placed' = placed /\ mastery' = mastery /\ crossed' = crossed
    BY <1>4, <2>1 DEF Placing!NextFailed, Unasked
  <2>3. Sound(doc, Unasked) /\ doc.status = "active"
    BY <1>0, <2>1, <2>2 DEF Stands
  <2>4. Sound(next, Unasked') /\ next.status = "active"
    BY <2>1, <2>2, <2>3, SkippedSound
  <2>5. /\ DOMAIN thread' = Threads
        /\ thread'[t] = [pc |-> "next", doc |-> next, seeded |-> thread[t].seeded]
        /\ thread'[t].pc = "next" /\ thread'[t].doc = next
        /\ \A u \in Threads : u # t => thread'[u] = thread[u]
    BY <1>0, <2>2, ThreadBecomes
  <2>6. Shaped'
    BY <1>0, <2>2, <2>5, ShapeKept DEF Shaped
  <2>7. \A u \in Threads : Stands(u)'
    <3>1. Stands(t)'
      BY <2>2, <2>4, <2>5 DEF Stands, Placing!At
    <3> QED
      BY <1>0, <2>2, <2>5, <3>1, OthersStand
  <2>8. Saved'
    BY <1>0, <2>2, SavedKept
  <2>9. Mastered'
    BY <1>0, <2>2, <2>5 DEF Mastered, Placing!At
  <2>10. InTurn'
    <3> SUFFICES ASSUME ~crossed' PROVE InTurn'
      BY DEF InTurn
    <3>1. ~crossed /\ Busy(t)
      BY <2>2 DEF Busy, Placing!At
    <3>2. \A u \in Threads : Busy(u)' => Busy(u)
      BY <2>5, <3>1 DEF Busy, Placing!At
    <3>3. \A u, v \in Threads : Busy(u)' /\ Busy(v)' => u = v
      BY <1>0, <3>1, <3>2 DEF InTurn
    <3>4. placed'.status # "completed"
      BY <1>0, <2>2, <3>1 DEF InTurn
    <3>5. \A u \in Threads : ~Placing!At(u, "seed")' /\ ~Placing!At(u, "save")'
      BY <1>0, <2>5, <3>1 DEF InTurn, Busy, Placing!At
    <3> QED
      BY <3>3, <3>4, <3>5 DEF InTurn
  <2> QED
    BY <2>6, <2>7, <2>8, <2>9, <2>10 DEF PlaceInv, Walks
<1>5. ASSUME NEW t \in Threads, Placing!NoneLeft(t) PROVE PlaceInv'
  <2>1. PICK doc : doc = thread[t].doc
    OBVIOUS
  <2>2. /\ Placing!At(t, "next") /\ doc.queued = <<>> /\ Placing!Become(t, "complete", doc)
        /\ placed' = placed /\ mastery' = mastery /\ Unasked' = Unasked /\ crossed' = crossed
    BY <1>5, <2>1 DEF Placing!NoneLeft, Unasked
  <2>3. Sound(doc, Unasked) /\ doc.status = "active"
    BY <1>0, <2>1, <2>2 DEF Stands
  <2>5. /\ DOMAIN thread' = Threads
        /\ thread'[t] = [pc |-> "complete", doc |-> doc, seeded |-> thread[t].seeded]
        /\ thread'[t].pc = "complete" /\ thread'[t].doc = doc
        /\ \A u \in Threads : u # t => thread'[u] = thread[u]
    BY <1>0, <2>2, ThreadBecomes
  <2>6. Shaped'
    BY <1>0, <2>2, <2>5, ShapeKept DEF Shaped
  <2>7. \A u \in Threads : Stands(u)'
    <3>1. Stands(t)'
      BY <2>2, <2>3, <2>5 DEF Stands, Placing!At, Ended
    <3> QED
      BY <1>0, <2>2, <2>5, <3>1, OthersStand
  <2>8. Saved'
    BY <1>0, <2>2, SavedKept
  <2>9. Mastered'
    BY <1>0, <2>2, <2>5 DEF Mastered, Placing!At
  <2>10. InTurn'
    <3> SUFFICES ASSUME ~crossed' PROVE InTurn'
      BY DEF InTurn
    <3>1. ~crossed /\ Busy(t)
      BY <2>2 DEF Busy, Placing!At
    <3>2. \A u \in Threads : Busy(u)' => Busy(u)
      BY <2>5, <3>1 DEF Busy, Placing!At
    <3>3. \A u, v \in Threads : Busy(u)' /\ Busy(v)' => u = v
      BY <1>0, <3>1, <3>2 DEF InTurn
    <3>4. placed'.status # "completed"
      BY <1>0, <2>2, <3>1 DEF InTurn
    <3>5. \A u \in Threads : ~Placing!At(u, "seed")' /\ ~Placing!At(u, "save")'
      BY <1>0, <2>5, <3>1 DEF InTurn, Busy, Placing!At
    <3> QED
      BY <3>3, <3>4, <3>5 DEF InTurn
  <2> QED
    BY <2>6, <2>7, <2>8, <2>9, <2>10 DEF PlaceInv, Walks
<1>6. ASSUME NEW t \in Threads, Placing!SeedRead(t) PROVE PlaceInv'
  <2>0. PICK n \in mapped..Len(Corpus) :
            thread' = [thread EXCEPT ![t].pc = "seed", ![t].doc.status = "completed",
                          ![t].seeded = Placing!Seeded(mastery, thread[t].doc, Placing!Listed(n))]
    BY <1>6 DEF Placing!SeedRead
  <2>1. PICK doc, seeded, ended : /\ doc = thread[t].doc
                                  /\ seeded = Placing!Seeded(mastery, doc, Placing!Listed(n))
                                  /\ ended = [doc EXCEPT !.status = "completed"]
    OBVIOUS
  <2>2. /\ Placing!At(t, "complete")
        /\ thread' = [thread EXCEPT ![t].pc = "seed", ![t].doc.status = "completed",
                                    ![t].seeded = seeded]
        /\ placed' = placed /\ mastery' = mastery /\ Unasked' = Unasked /\ crossed' = crossed
    BY <1>6, <2>0, <2>1 DEF Placing!SeedRead, Unasked
  <2>3. Sound(doc, Unasked) /\ Ended(doc)
    BY <1>0, <2>1, <2>2 DEF Stands
  <2>4. Masteries(seeded) /\ Follows(seeded, doc)
    BY <1>0, <2>1, <2>3, Disjoint, SeededFollows DEF Mastered, Sound
  <2>5. /\ ended.status = "completed" /\ Sound(ended, Unasked) /\ Ended(ended) /\ Follows(seeded, ended)
    <3>1. doc \in Doc
      BY <2>3 DEF Sound
    <3>2. /\ ended.status = "completed" /\ ended.queued = doc.queued /\ ended.probes = doc.probes
          /\ ended.demonstrated = doc.demonstrated /\ ended.gap = doc.gap /\ ended \in Doc
      BY <2>1, <3>1 DEF Doc
    <3>3. Probed(ended) = Probed(doc)
      BY <3>2 DEF Probed
    <3>4. Judged(ended)
      <4>1. /\ Injective(ended.queued) /\ Probed(ended) \cap ToSet(ended.queued) = {}
        BY <2>3, <3>2, <3>3 DEF Sound, Judged
      <4>2. \A i, j \in DOMAIN ended.probes : ended.probes[i].kc = ended.probes[j].kc => i = j
        BY <2>3, <3>2 DEF Sound, Judged
      <4>3. \A d \in ended.demonstrated : \E i \in DOMAIN ended.probes :
                ended.probes[i].kc = d /\ ended.probes[i].correct = "yes"
        BY <2>3, <3>2 DEF Sound, Judged
      <4>4. \A g \in ended.gap : \E i \in DOMAIN ended.probes :
                ended.probes[i].kc = g /\ ended.probes[i].correct = "no"
        BY <2>3, <3>2 DEF Sound, Judged
      <4> QED
        BY <4>1, <4>2, <4>3, <4>4 DEF Judged
    <3>5. Frontier(ended, Unasked)
      BY <2>3, <3>2, <3>3 DEF Sound, Frontier
    <3> QED
      BY <2>3, <2>4, <3>2, <3>4, <3>5 DEF Sound, Ended, Follows
  <2>6. /\ DOMAIN thread' = Threads
        /\ thread'[t] = [pc |-> "seed", doc |-> ended, seeded |-> seeded]
        /\ thread'[t].pc = "seed" /\ thread'[t].doc = ended /\ thread'[t].seeded = seeded
        /\ \A u \in Threads : u # t => thread'[u] = thread[u]
    <3>1. PICK at : at = [thread EXCEPT ![t].pc = "seed"]
      OBVIOUS
    <3>2. PICK over : over = [at EXCEPT ![t].doc.status = "completed"]
      OBVIOUS
    <3>3. thread' = [over EXCEPT ![t].seeded = seeded]
      BY <2>2, <3>1, <3>2
    <3>4. /\ DOMAIN at = Threads /\ \A u \in Threads : u # t => at[u] = thread[u]
          /\ at[t] = [pc |-> "seed", doc |-> doc, seeded |-> thread[t].seeded]
      BY <1>0, <2>1, <3>1 DEF Shaped
    <3>5. /\ DOMAIN over = Threads /\ \A u \in Threads : u # t => over[u] = thread[u]
          /\ over[t] = [pc |-> "seed", doc |-> ended, seeded |-> thread[t].seeded]
      BY <2>1, <3>2, <3>4
    <3> QED
      BY <3>3, <3>5
  <2>7. Shaped'
    BY <1>0, <2>2, <2>6, ShapeKept DEF Shaped
  <2>8. \A u \in Threads : Stands(u)'
    <3>1. Stands(t)'
      BY <2>2, <2>5, <2>6 DEF Stands, Placing!At
    <3> QED
      BY <1>0, <2>2, <2>6, <3>1, OthersStand
  <2>9. Saved'
    BY <1>0, <2>2, SavedKept
  <2>10. Mastered'
    BY <1>0, <2>2, <2>4, <2>6 DEF Mastered, Placing!At
  <2>11. InTurn'
    <3> SUFFICES ASSUME ~crossed' PROVE InTurn'
      BY DEF InTurn
    <3>1. ~crossed /\ Busy(t)
      BY <2>2 DEF Busy, Placing!At
    <3>2. \A u \in Threads : Busy(u)' => Busy(u)
      BY <2>6, <3>1 DEF Busy, Placing!At
    <3>3. \A u, v \in Threads : Busy(u)' /\ Busy(v)' => u = v
      BY <1>0, <3>1, <3>2 DEF InTurn
    <3>4. placed'.status # "completed"
      BY <1>0, <2>2, <3>1 DEF InTurn
    <3>5. \A u \in Threads : Placing!At(u, "seed")' => u = t
      BY <1>0, <2>6, <3>1 DEF InTurn, Busy, Placing!At
    <3>6. \A u \in Threads : ~Placing!At(u, "save")'
      BY <1>0, <2>6, <3>1 DEF InTurn, Busy, Placing!At
    <3> QED
      BY <2>5, <2>6, <3>3, <3>4, <3>5, <3>6 DEF InTurn
  <2> QED
    BY <2>7, <2>8, <2>9, <2>10, <2>11 DEF PlaceInv, Walks
<1>7. ASSUME NEW t \in Threads, Placing!SeedWrite(t) PROVE PlaceInv'
  <2>1. PICK doc, seeded : doc = thread[t].doc /\ seeded = thread[t].seeded
    OBVIOUS
  <2>2. /\ Placing!At(t, "seed") /\ mastery' = seeded
        /\ thread' = [thread EXCEPT ![t].pc = "save", ![t].seeded = <<>>]
        /\ placed' = placed /\ Unasked' = Unasked /\ crossed' = crossed
    BY <1>7, <2>1 DEF Placing!SeedWrite, Unasked
  <2>3. Sound(doc, Unasked) /\ Ended(doc) /\ doc.status = "completed" /\ Masteries(seeded)
    BY <1>0, <2>1, <2>2 DEF Stands, Mastered
  <2>4. /\ DOMAIN thread' = Threads
        /\ thread'[t] = [pc |-> "save", doc |-> doc, seeded |-> <<>>]
        /\ thread'[t].pc = "save" /\ thread'[t].doc = doc
        /\ \A u \in Threads : u # t => thread'[u] = thread[u]
    <3>1. PICK at : at = [thread EXCEPT ![t].pc = "save"]
      OBVIOUS
    <3>2. thread' = [at EXCEPT ![t].seeded = <<>>]
      BY <2>2, <3>1
    <3>3. /\ DOMAIN at = Threads /\ \A u \in Threads : u # t => at[u] = thread[u]
          /\ at[t] = [pc |-> "save", doc |-> doc, seeded |-> thread[t].seeded]
      BY <1>0, <2>1, <3>1 DEF Shaped
    <3> QED
      BY <3>2, <3>3
  <2>5. Shaped'
    BY <1>0, <2>2, <2>4, ShapeKept DEF Shaped
  <2>6. \A u \in Threads : Stands(u)'
    <3>1. Stands(t)'
      BY <2>2, <2>3, <2>4 DEF Stands, Placing!At
    <3> QED
      BY <1>0, <2>2, <2>4, <3>1, OthersStand
  <2>7. Saved'
    BY <1>0, <2>2, SavedKept
  <2>8. Mastered'
    BY <1>0, <2>2, <2>3, <2>4 DEF Mastered, Placing!At
  <2>9. InTurn'
    <3> SUFFICES ASSUME ~crossed' PROVE InTurn'
      BY DEF InTurn
    <3>1. ~crossed /\ Busy(t)
      BY <2>2 DEF Busy, Placing!At
    <3>2. \A u \in Threads : Busy(u)' => Busy(u)
      BY <2>4, <3>1 DEF Busy, Placing!At
    <3>3. \A u, v \in Threads : Busy(u)' /\ Busy(v)' => u = v
      BY <1>0, <3>1, <3>2 DEF InTurn
    <3>4. placed'.status # "completed"
      BY <1>0, <2>2, <3>1 DEF InTurn
    <3>5. Follows(mastery', doc)
      BY <1>0, <2>1, <2>2, <3>1 DEF InTurn
    <3>6. \A u \in Threads : Placing!At(u, "save")' => u = t
      BY <1>0, <2>4, <3>1 DEF InTurn, Busy, Placing!At
    <3>7. \A u \in Threads : ~Placing!At(u, "seed")'
      BY <1>0, <2>4, <3>1 DEF InTurn, Busy, Placing!At
    <3> QED
      BY <2>4, <3>3, <3>4, <3>5, <3>6, <3>7 DEF InTurn
  <2> QED
    BY <2>5, <2>6, <2>7, <2>8, <2>9 DEF PlaceInv, Walks
<1>8. ASSUME NEW t \in Threads, Placing!Save(t) PROVE PlaceInv'
  <2>1. PICK doc : doc = thread[t].doc
    OBVIOUS
  <2> DEFINE none == Placing!NoSession
  <2>2. /\ Placing!At(t, "save") /\ placed' = doc /\ Placing!Become(t, "idle", none)
        /\ mastery' = mastery /\ Unasked' = Unasked /\ crossed' = crossed
    BY <1>8, <2>1 DEF Placing!Save, Unasked
  <2>3. Sound(doc, Unasked) /\ doc.status # "none" /\ (doc.status = "completed" => Ended(doc))
    BY <1>0, <2>1, <2>2 DEF Stands, Placing!At
  <2>4. Sound(none, Unasked) /\ none.status = "none"
    BY EmptyIsSound
  <2> HIDE DEF none
  <2>5. /\ DOMAIN thread' = Threads
        /\ thread'[t] = [pc |-> "idle", doc |-> none, seeded |-> thread[t].seeded]
        /\ thread'[t].pc = "idle" /\ thread'[t].doc = none
        /\ \A u \in Threads : u # t => thread'[u] = thread[u]
    BY <1>0, <2>2, ThreadBecomes
  <2>6. Shaped'
    BY <1>0, <2>2, <2>5, ShapeKept DEF Shaped
  <2>7. \A u \in Threads : Stands(u)'
    <3>1. Stands(t)'
      BY <2>2, <2>4, <2>5 DEF Stands, Placing!At, none
    <3> QED
      BY <1>0, <2>2, <2>5, <3>1, OthersStand
  <2>8. Saved'
    BY <2>2, <2>3 DEF Saved
  <2>9. Mastered'
    BY <1>0, <2>2, <2>5 DEF Mastered, Placing!At
  <2>10. InTurn'
    <3> SUFFICES ASSUME ~crossed' PROVE InTurn'
      BY DEF InTurn
    <3>1. ~crossed /\ Busy(t)
      BY <2>2 DEF Busy, Placing!At
    <3>2. \A u \in Threads : ~Busy(u)'
      BY <1>0, <2>5, <3>1 DEF InTurn, Busy, Placing!At
    <3>3. doc.status = "completed" => Follows(mastery', doc)
      BY <1>0, <2>1, <2>2, <3>1 DEF InTurn
    <3>4. \A u \in Threads : ~Placing!At(u, "seed")' /\ ~Placing!At(u, "save")'
      BY <3>2 DEF Busy, Placing!At
    <3> QED
      BY <2>2, <3>2, <3>3, <3>4 DEF InTurn
  <2> QED
    BY <2>6, <2>7, <2>8, <2>9, <2>10 DEF PlaceInv, Walks
<1>9. ASSUME NEW t \in Threads, Placing!Crash(t) PROVE PlaceInv'
  <2> DEFINE none == Placing!NoSession
  <2>1. /\ Busy(t) /\ thread' = [thread EXCEPT ![t] = Placing!Idle]
        /\ placed' = placed /\ mastery' = mastery /\ Unasked' = Unasked /\ crossed' = crossed
    BY <1>9 DEF Placing!Crash, Busy, Unasked
  <2>2. Placing!Idle = [pc |-> "idle", doc |-> none, seeded |-> <<>>]
    BY DEF Placing!Idle
  <2>3. Sound(none, Unasked) /\ none.status = "none"
    BY EmptyIsSound
  <2> HIDE DEF none
  <2>4. /\ DOMAIN thread' = Threads
        /\ thread'[t] = [pc |-> "idle", doc |-> none, seeded |-> <<>>]
        /\ thread'[t].pc = "idle" /\ thread'[t].doc = none
        /\ \A u \in Threads : u # t => thread'[u] = thread[u]
    BY <1>0, <2>1, <2>2 DEF Shaped
  <2>5. Shaped'
    BY <1>0, <2>1, <2>4, ShapeKept DEF Shaped
  <2>6. \A u \in Threads : Stands(u)'
    <3>1. Stands(t)'
      BY <2>1, <2>3, <2>4 DEF Stands, Placing!At, none
    <3> QED
      BY <1>0, <2>1, <2>4, <3>1, OthersStand
  <2>7. Saved'
    BY <1>0, <2>1, SavedKept
  <2>8. Mastered'
    BY <1>0, <2>1, <2>4 DEF Mastered, Placing!At
  <2>9. InTurn'
    <3> SUFFICES ASSUME ~crossed' PROVE InTurn'
      BY DEF InTurn
    <3>1. ~crossed
      BY <2>1
    <3>2. \A u \in Threads : ~Busy(u)'
      BY <1>0, <2>1, <2>4, <3>1 DEF InTurn, Busy, Placing!At
    <3>3. placed'.status # "completed"
      BY <1>0, <2>1, <3>1 DEF InTurn
    <3>4. \A u \in Threads : ~Placing!At(u, "seed")' /\ ~Placing!At(u, "save")'
      BY <3>2 DEF Busy, Placing!At
    <3> QED
      BY <3>2, <3>3, <3>4 DEF InTurn
  <2> QED
    BY <2>5, <2>6, <2>7, <2>8, <2>9 DEF PlaceInv, Walks
<1>12. ASSUME Placing!Restart PROVE PlaceInv'
  <2> DEFINE none == Placing!NoSession
  <2>1. /\ thread' = [t \in Threads |-> Placing!Idle]
        /\ placed' = placed /\ mastery' = mastery /\ Unasked' = Unasked /\ crossed' = crossed
    BY <1>12 DEF Placing!Restart, Unasked
  <2>2. Placing!Idle = [pc |-> "idle", doc |-> none, seeded |-> <<>>]
    BY DEF Placing!Idle
  <2>3. Sound(none, Unasked) /\ none.status = "none"
    BY EmptyIsSound
  <2> HIDE DEF none
  <2>4. /\ DOMAIN thread' = Threads
        /\ \A u \in Threads : thread'[u] = [pc |-> "idle", doc |-> none, seeded |-> <<>>]
    BY <2>1, <2>2
  <2>5. Shaped'
    BY <1>0, <2>1, <2>4 DEF Shaped
  <2>6. \A u \in Threads : Stands(u)'
    BY <2>1, <2>3, <2>4 DEF Stands, Placing!At, none
  <2>7. Saved'
    BY <1>0, <2>1, SavedKept
  <2>8. Mastered'
    BY <1>0, <2>1, <2>4 DEF Mastered, Placing!At
  <2>9. InTurn'
    BY <1>0, <2>1, <2>4 DEF InTurn, Busy, Placing!At
  <2> QED
    BY <2>5, <2>6, <2>7, <2>8, <2>9 DEF PlaceInv, Walks
<1>10. ASSUME Placing!Fill \/ UNCHANGED Placing!vars PROVE PlaceInv'
  <2>1. /\ placed' = placed /\ mastery' = mastery /\ Unasked' = Unasked /\ crossed' = crossed
        /\ thread' = thread
    BY <1>10 DEF Placing!Fill, Placing!vars, Unasked
  <2> QED
    BY <2>1 DEF PlaceInv, Shaped, Walks, Saved, Stands, Mastered, InTurn, Busy, Placing!At
<1> QED
  BY <1>1, <1>2, <1>3, <1>4, <1>5, <1>6, <1>7, <1>8, <1>9, <1>10, <1>11, <1>12
  DEF Placing!Next

LEMMA PlaceAlways ==
    ASSUME Placing!PlacementAssumption PROVE Placing!Spec => []PlaceInv
<1>1. Placing!Init => PlaceInv
  BY PlaceStarts
<1>2. PlaceInv /\ [Placing!Next]_(Placing!vars) => PlaceInv'
  BY PlaceSteps
<1> QED
  BY <1>1, <1>2, PTL DEF Placing!Spec

\* Short of the budget, a placement that is over has asked about all that its answers point to,
\* or could not, or did not find it in the map when it looked (placement.py, _advance_to_next_item and _record_response).
THEOREM FrontiersReached ==
    ASSUME Placing!PlacementAssumption PROVE Placing!Spec => []FrontierReached
<1>1. PlaceInv => FrontierReached
  <2> SUFFICES ASSUME PlaceInv, placed.status = "completed", Len(placed.probes) < QuestionBudget
               PROVE  After(placed.demonstrated) \cup Before(placed.gap) \subseteq Probed(placed) \cup Unasked
    BY DEF FrontierReached, Converged, Neighbours, Unasked
  <2>1. Sound(placed, Unasked) /\ Ended(placed)
    BY DEF PlaceInv, Walks, Saved
  <2>2. Len(placed.probes) \in Nat /\ QuestionBudget \in Nat
    BY <2>1 DEF Sound, Doc, Placing!PlacementAssumption
  <2>3. placed.queued = <<>>
    BY <2>1, <2>2 DEF Ended
  <2>4. ToSet(placed.queued) = {}
    BY <2>3 DEF ToSet
  <2> QED
    BY <2>1, <2>4 DEF Sound, Frontier
<1> QED
  BY <1>1, PlaceAlways, PTL

\* While calls came one at a time, the profile says after placement what the report says.
THEOREM SeedsFollow ==
    ASSUME Placing!PlacementAssumption PROVE Placing!Spec => []SeedsFollowReport
<1>1. PlaceInv => SeedsFollowReport
  BY DEF PlaceInv, InTurn, Follows, SeedsFollowReport
<1> QED
  BY <1>1, PlaceAlways, PTL

-----------------------------------------------------------------------------
(* Planning.                                                                *)

-----------------------------------------------------------------------------
(* Tables of rows.                                                          *)

DatedBy(rows, n) == \A r \in rows : r.stamp \in Nat /\ r.stamp <= n
Keyed(rows) == \A r, o \in rows : r.id = o.id => r = o
StampNames(rows) == \A r, o \in rows : r.stamp = o.stamp => r.id = o.id
Leads(rows, row) == \A o \in rows : o.id # row.id => o.stamp < row.stamp

LEMMA NewestIs ==
    ASSUME NEW rows, NEW n \in Nat, NEW top, rows # {}, DatedBy(rows, n), top = Plan!Newest(rows)
    PROVE  top \in rows /\ \A o \in rows : o.stamp <= top.stamp
<1> DEFINE T == {n - r.stamp : r \in rows}
<1>1. T \subseteq Nat /\ T # {}
  BY DEF DatedBy
<1>2. PICK x \in T : \A y \in T : x <= y
  <2> HIDE DEF T
  <2> QED
    BY <1>1, LeastExists
<1>3. PICK r \in rows : x = n - r.stamp
  BY <1>2
<1>4. \A o \in rows : o.stamp <= r.stamp
  <2> SUFFICES ASSUME NEW o \in rows PROVE o.stamp <= r.stamp
    OBVIOUS
  <2>1. n - o.stamp \in T /\ o.stamp \in Nat /\ r.stamp \in Nat
    BY DEF DatedBy
  <2>2. n - r.stamp <= n - o.stamp
    BY <1>2, <1>3, <2>1
  <2> QED
    BY <2>1, <2>2
<1>5. top = CHOOSE z \in rows : \A o \in rows : o.stamp <= z.stamp
  BY DEF Plan!Newest
<1> QED
  BY <1>4, <1>5

LEMMA NewestOfNone == Plan!Newest({}) = None
  BY DEF Plan!Newest

LEMMA NewestLeads ==
    ASSUME NEW rows, NEW n \in Nat, NEW top, rows # {}, DatedBy(rows, n), StampNames(rows),
           top = Plan!Newest(rows)
    PROVE  top \in rows /\ Leads(rows, top)
<1>1. top \in rows /\ \A o \in rows : o.stamp <= top.stamp
  BY NewestIs
<1> QED
  BY <1>1 DEF Leads, StampNames, DatedBy

LEMMA UpsertIs ==
    ASSUME NEW rows, NEW row, NEW after, after = Plan!Upsert(rows, row)
    PROVE  /\ row \in after /\ after # {}
           /\ \A o \in after : o = row \/ (o \in rows /\ o.id # row.id)
           /\ \A o \in rows : o.id # row.id => o \in after
           /\ Keyed(rows) => Keyed(after)
<1>1. after = {r \in rows : r.id # row.id} \cup {row}
  BY DEF Plan!Upsert
<1>2. Keyed(rows) => Keyed(after)
  BY <1>1 DEF Keyed
<1> QED
  BY <1>1, <1>2

LEMMA LeaderIsNewest ==
    ASSUME NEW rows, NEW row, NEW n \in Nat, NEW after, DatedBy(rows, n), row.stamp \in Nat,
           Leads(rows, row), after = Plan!Upsert(rows, row)
    PROVE  Plan!Newest(after) = row
<1>1. row \in after /\ \A o \in after : o = row \/ (o \in rows /\ o.id # row.id)
  BY UpsertIs
<1>2. \A o \in after : o.stamp <= row.stamp
  BY <1>1 DEF Leads, DatedBy
<1>3. \A o \in after : o # row => ~(row.stamp <= o.stamp)
  BY <1>1 DEF Leads, DatedBy
<1>4. Plan!Newest(after) = CHOOSE z \in after : \A o \in after : o.stamp <= z.stamp
  BY <1>1 DEF Plan!Newest
<1> QED
  BY <1>1, <1>2, <1>3, <1>4

LEMMA RowIs ==
    ASSUME NEW rows, NEW row, row \in rows, Keyed(rows)
    PROVE  Plan!ById(rows, row.id) = row
<1>1. \A r \in rows : r.id = row.id => r = row
  BY DEF Keyed
<1>2. Plan!ById(rows, row.id) = CHOOSE r \in rows : r.id = row.id
  BY DEF Plan!ById
<1> QED
  BY <1>1, <1>2

LEMMA RowFound ==
    ASSUME NEW rows, NEW id, NEW row, row = Plan!ById(rows, id), row # None
    PROVE  row \in rows /\ row.id = id
  BY DEF Plan!ById

LEMMA RowMissing ==
    ASSUME NEW rows, NEW id, None \notin rows, Plan!ById(rows, id) = None
    PROVE  \A r \in rows : r.id # id
  BY DEF Plan!ById

\* A step that makes at most one row anew.
LEMMA TableKept ==
    ASSUME NEW Type, NEW about, NEW later, NEW row, NEW n \in Nat, NEW next \in {n, n + 1},
           about \subseteq Type, later \subseteq about \cup {row}, \A x \in Type : x.stamp \in Nat,
           DatedBy(about, n), StampNames(about),
           row \in about \/ row \notin later \/ (row \in Type /\ row.stamp = n + 1 /\ next = n + 1)
    PROVE  later \subseteq Type /\ DatedBy(later, next) /\ StampNames(later)
<1>1. CASE row \in about \/ row \notin later
  <2>1. \A x \in later : x \in about /\ x.stamp \in Nat /\ x.stamp <= n
    BY <1>1 DEF DatedBy
  <2> QED
    BY <2>1 DEF DatedBy, StampNames
<1>2. CASE row \in Type /\ row.stamp = n + 1 /\ next = n + 1
  <2>1. \A x \in later : x = row \/ (x \in about /\ x.stamp <= n /\ x.stamp \in Nat)
    BY DEF DatedBy
  <2> QED
    BY <1>2, <2>1 DEF DatedBy, StampNames
<1> QED
  BY <1>1, <1>2

-----------------------------------------------------------------------------
(* Rows and requests.                                                       *)

Optional(S) == S \cup {None}
Goals == Plan!Goal
Trajectories == Plan!Trajectory
Controls == Plan!Session
Asks == Optional(Nat \cup Sessions)
Places == {"planning", "comparing", "storing", "noting", "binding", "keeping", "generating", "saving"}

\* A request at work.
Requests == [kind : {"load", "overview", "generate", "set"}, target : Plan!Names, asked : Asks,
             alone : BOOLEAN, pc : Places, first : BOOLEAN, outcomes : Seq(Plan!Names),
             goal : Optional(Goals), created : BOOLEAN, trajectory : Optional(Trajectories),
             revised : BOOLEAN, session : Optional(Controls)]

LEMMA AfterPlanningIs ==
    ASSUME NEW r \in Requests, NEW q, q = Plan!AfterPlanning(r)
    PROVE  /\ q \in Requests
           /\ q.kind = r.kind /\ q.target = r.target /\ q.asked = r.asked /\ (q.alone <=> r.alone)
           /\ q.session = r.session /\ q.outcomes = r.outcomes /\ ~q.first
           /\ r.first => q.pc = "planning" /\ q.goal = None /\ q.trajectory = None /\ ~q.revised
           /\ ~r.first => /\ q.pc = "binding" /\ q.goal = r.goal /\ q.trajectory = r.trajectory
                          /\ (q.revised <=> r.revised)
<1>1. CASE r.first
  BY <1>1 DEF Requests, Plan!AfterPlanning, Optional, Places
<1>2. CASE ~r.first
  BY <1>2 DEF Requests, Plan!AfterPlanning, Optional, Places
<1> QED
  BY <1>1, <1>2
LEMMA BoundIs ==
    ASSUME NEW r \in Requests, NEW q, q = Plan!Bound(r)
    PROVE  /\ q \in Requests
           /\ q.kind = r.kind /\ q.target = r.target /\ q.asked = r.asked /\ q.alone = r.alone
           /\ q.first = r.first
           /\ q.goal = None /\ q.trajectory = None /\ q.revised = FALSE /\ q.session = None
  BY DEF Requests, Plan!Bound, Optional

-----------------------------------------------------------------------------
(* The invariant.                                                           *)

Gone == [pc |-> "idle"]
Working == Plan!Busy

\* The rows of a table and those a request still holds.
GoalsAbout == goals \cup ({thread[t].goal : t \in Working} \ {None})
TrajectoriesAbout == trajectories \cup ({thread[t].trajectory : t \in Working} \ {None})
SessionsAbout == sessions \cup ({thread[t].session : t \in Working} \ {None})

Table(Type, rows, about, n) ==
    about \subseteq Type /\ DatedBy(about, n) /\ StampNames(about) /\ Keyed(rows)

Typed ==
    /\ now \in Nat
    /\ moved \in [progress : 1..Len(Progressions), adaptation : 1..Len(Adaptations)]
    /\ progress = Progressions[moved.progress] /\ adaptation = Adaptations[moved.adaptation]
    /\ DOMAIN thread = Threads
    /\ \A t \in Threads : thread[t] = Gone \/ thread[t] \in Requests

Tables ==
    /\ Table(Goals, goals, GoalsAbout, now)
    /\ Table(Trajectories, trajectories, TrajectoriesAbout, now)
    /\ Table(Controls, sessions, SessionsAbout, now)

\* No session is for a goal when none is stored.
Rooted(session) == session.goal # None \/ session.trajectory # None => goals # {}

\* What a request holds at each place.
Holds(r) ==
    /\ r.pc \in {"planning", "generating"} => r.goal = None /\ r.trajectory = None /\ ~r.revised
    /\ r.pc \in {"planning", "binding", "keeping"} => ~r.first
    /\ r.pc = "comparing" => r.goal # None
    /\ r.pc \in {"storing", "noting"} => r.goal # None /\ r.trajectory # None
    /\ r.pc = "binding" =>
            IF r.goal = None THEN r.trajectory = None /\ ~r.revised
            ELSE r.trajectory # None /\ goals # {}
    /\ r.pc \in {"keeping", "saving"} => r.session # None /\ Rooted(r.session)

Held == (\A t \in Working : Holds(thread[t])) /\ \A s \in sessions : Rooted(s)

\* A request that meets nothing is the only one.
Single == \A t, u \in Working : thread[t].alone => u = t

\* What it has found and has brought about at each place, if it shows the plan.
IsPlannedFor(goal, row) ==
    /\ row.adapted = Plan!Adapted(adaptation, row)
    /\ row.plan = Plan!PlanFor(goal, progress, row.adapted)
Current ==
    Plan!ShownGoal # None =>
        Plan!ShownTrajectory # None /\ IsPlannedFor(Plan!ShownGoal, Plan!ShownTrajectory)
Fits(session) ==
    /\ session.goal # None => Plan!ShownGoal # None /\ session.goal = Plan!ShownGoal.id
    /\ session.trajectory # None =>
            Plan!ShownTrajectory # None /\ session.trajectory = Plan!ShownTrajectory.id

TrajectoryOf(rows, goal) ==
    IF goal.trajectory # None THEN Plan!ById(rows, goal.trajectory)
    ELSE Plan!Newest({p \in rows : p.plan # <<>>})
Planned(rows, r) ==
    /\ TrajectoryOf(rows, r.goal) = r.trajectory
    /\ IsPlannedFor(r.goal, r.trajectory)

\* The session it goes on with is the newest one.
Continues(r) == r.asked # None => sessions # {} /\ Plan!Newest(sessions).id = r.asked

OnCourse(r) ==
    /\ r.pc \in {"planning", "comparing", "storing", "noting", "binding"} => Continues(r)
    /\ r.pc = "comparing" => Leads(goals, r.goal) /\ r.outcomes = progress
    /\ r.pc = "storing" => Leads(goals, r.goal) /\ Planned(Plan!Upsert(trajectories, r.trajectory), r)
    /\ r.pc = "noting" => Leads(goals, r.goal) /\ Planned(trajectories, r)
    /\ r.pc = "binding" =>
            IF r.goal = None THEN goals = {} ELSE Plan!ShownGoal = r.goal /\ Planned(trajectories, r)
    /\ r.pc \in {"keeping", "generating", "saving"} => Current
    /\ r.pc = "keeping" => /\ Leads(sessions, r.session) /\ Fits(r.session)
                           /\ r.asked # None => r.session.id = r.asked
    /\ r.pc = "generating" => r.asked # None /\ Continues(r) /\ Fits(Plan!Newest(sessions))
    /\ r.pc = "saving" => Leads(sessions, r.session) /\ Fits(r.session)

Shows(r) == r.alone /\ r.kind \in Plan!Views

Good == Current /\ (sessions = {} \/ Fits(Plan!Newest(sessions)))

PlanInv ==
    /\ Typed /\ Tables /\ Held /\ Single
    /\ \A t \in Working : Shows(thread[t]) => OnCourse(thread[t])
    /\ settled => Good

\* A request that met another is the same otherwise.
Alike(q, r) == q = r \/ (r \in Requests /\ q = [r EXCEPT !.alone = FALSE])

LEMMA AlikeIs ==
    ASSUME NEW q, NEW r, Alike(q, r), r = Gone \/ r \in Requests
    PROVE  /\ q = Gone \/ q \in Requests
           /\ q.pc = r.pc
           /\ r.pc # "idle" => /\ r \in Requests /\ q \in Requests
                               /\ q.goal = r.goal /\ q.trajectory = r.trajectory
                               /\ q.session = r.session /\ q.revised = r.revised /\ q.first = r.first
                               /\ q.kind = r.kind /\ (q.alone => q = r)
<1>1. CASE q = r
  BY <1>1 DEF Gone, Requests
<1>2. CASE r \in Requests /\ q = [r EXCEPT !.alone = FALSE]
  BY <1>2 DEF Gone, Requests
<1> QED
  BY <1>1, <1>2 DEF Alike

LEMMA WorkingIs ==
    ASSUME Typed
    PROVE  /\ \A t \in Working : t \in Threads /\ thread[t] \in Requests /\ thread[t].pc \in Places
           /\ \A t \in Threads : t \notin Working => thread[t] = Gone /\ thread[t].pc = "idle"
           /\ \A t \in Threads : t \in Working <=> thread[t].pc # "idle"
<1>1. \A t \in Threads : t \in Working <=> thread[t].pc # "idle"
  BY DEF Working, Plan!Busy, Plan!At
<1>2. Working \subseteq Threads
  BY DEF Working, Plan!Busy
<1>3. Gone.pc = "idle"
  BY DEF Gone
<1>4. \A r \in Requests : r.pc \in Places /\ r.pc # "idle"
  BY DEF Requests, Places
<1> QED
  BY <1>1, <1>2, <1>3, <1>4 DEF Typed

\* A row that a request comes to hold: one there was or a new one.
Bears(row, about, Type) ==
    row = None \/ row \in about \/ (row \in Type /\ row.stamp = now + 1 /\ now' = now + 1)

\* A step of one request.
LEMMA StepKeeps ==
    ASSUME Plan!PlanningAssumption, PlanInv, NEW t \in Threads, NEW r,
           DOMAIN thread' = Threads, thread'[t] = r,
           \A u \in Threads : u # t => Alike(thread'[u], thread[u]),
           r = Gone \/ r \in Requests,
           now' \in {now, now + 1}, moved' = moved, progress' = progress, adaptation' = adaptation,
           goals' \subseteq GoalsAbout, Keyed(goals'), goals # {} => goals' # {},
           trajectories' \subseteq TrajectoriesAbout, Keyed(trajectories'),
           sessions' \subseteq SessionsAbout, Keyed(sessions'),
           \A s \in sessions' : s \in sessions \/ Rooted(s)',
           r \in Requests => /\ Bears(r.goal, GoalsAbout, Goals)
                             /\ Bears(r.trajectory, TrajectoriesAbout, Trajectories)
                             /\ Bears(r.session, SessionsAbout, Controls)
                             /\ Holds(r)'
                             /\ r.alone => \A u \in Working : u = t
                             /\ Shows(r) => OnCourse(r)',
           \A u \in Working : u # t => ~thread'[u].alone,
           settled' => Good'
    PROVE  PlanInv'
<1>0. Typed /\ Tables /\ Held /\ Single
  BY DEF PlanInv
<1>1. Typed'
  <2>1. \A u \in Threads : thread'[u] = Gone \/ thread'[u] \in Requests
    <3> SUFFICES ASSUME NEW u \in Threads PROVE thread'[u] = Gone \/ thread'[u] \in Requests
      OBVIOUS
    <3>1. CASE u = t
      BY <3>1
    <3>2. CASE u # t
      BY <1>0, <3>2, AlikeIs DEF Typed
    <3> QED
      BY <3>1, <3>2
  <2>2. now' \in Nat
    BY <1>0 DEF Typed
  <2> QED
    BY <1>0, <2>1, <2>2 DEF Typed
<1>2. \A u \in Threads : u # t =>
        /\ (u \in Working)' <=> u \in Working
        /\ u \in Working => /\ thread[u] \in Requests /\ thread'[u] \in Requests
                            /\ thread'[u].goal = thread[u].goal
                            /\ thread'[u].trajectory = thread[u].trajectory
                            /\ thread'[u].session = thread[u].session
                            /\ thread'[u].revised = thread[u].revised /\ thread'[u].pc = thread[u].pc
                            /\ thread'[u].first = thread[u].first
  <2> SUFFICES ASSUME NEW u \in Threads, u # t
               PROVE  /\ (u \in Working)' <=> u \in Working
                      /\ u \in Working => /\ thread[u] \in Requests /\ thread'[u] \in Requests
                            /\ thread'[u].goal = thread[u].goal
                            /\ thread'[u].trajectory = thread[u].trajectory
                            /\ thread'[u].session = thread[u].session
                            /\ thread'[u].revised = thread[u].revised /\ thread'[u].pc = thread[u].pc
                            /\ thread'[u].first = thread[u].first
    OBVIOUS
  <2>1. u \in Working <=> thread[u].pc # "idle"
    BY <1>0, WorkingIs
  <2>2. (u \in Working)' <=> thread'[u].pc # "idle"
    BY <1>1 DEF Working, Plan!Busy, Plan!At
  <2>3. Alike(thread'[u], thread[u]) /\ (thread[u] = Gone \/ thread[u] \in Requests)
    BY <1>0 DEF Typed
  <2>4. /\ thread'[u].pc = thread[u].pc
        /\ thread[u].pc # "idle" =>
             /\ thread[u] \in Requests /\ thread'[u] \in Requests
             /\ thread'[u].goal = thread[u].goal
             /\ thread'[u].trajectory = thread[u].trajectory
             /\ thread'[u].session = thread[u].session
             /\ thread'[u].revised = thread[u].revised
             /\ thread'[u].first = thread[u].first
    BY <2>3, AlikeIs
  <2> QED
    BY <2>1, <2>2, <2>4
<1>3. /\ (t \in Working)' <=> r \in Requests
      /\ Working' \subseteq Threads
  <2>1. Gone.pc = "idle" /\ \A q \in Requests : q.pc # "idle"
    BY DEF Gone, Requests, Places
  <2>2. (t \in Working)' <=> thread'[t].pc # "idle"
    BY DEF Working, Plan!Busy, Plan!At
  <2>3. Working' \subseteq Threads
    BY DEF Working, Plan!Busy
  <2> QED
    BY <2>1, <2>2, <2>3
<1>4. Tables'
  <2>1. now \in Nat /\ now' \in {now, now + 1}
    BY <1>0 DEF Typed
  <2>2. None \notin Goals /\ None \notin Trajectories /\ None \notin Controls
    BY DEF Plan!PlanningAssumption, Goals, Trajectories, Controls
  <2>3. /\ \A x \in Goals : x.stamp \in Nat
        /\ \A x \in Trajectories : x.stamp \in Nat
        /\ \A x \in Controls : x.stamp \in Nat
    BY DEF Goals, Trajectories, Controls, Plan!Goal, Plan!Trajectory, Plan!Session
  <2>4. Table(Goals, goals', GoalsAbout', now')
    <3> DEFINE row == IF r \in Requests THEN r.goal ELSE None
    <3>1. GoalsAbout \subseteq Goals /\ DatedBy(GoalsAbout, now) /\ StampNames(GoalsAbout)
      BY <1>0 DEF Tables, Table
    <3>2. GoalsAbout' \subseteq GoalsAbout \cup {row}
      <4> SUFFICES ASSUME NEW x \in GoalsAbout' PROVE x \in GoalsAbout \/ x = row
        OBVIOUS
      <4>1. CASE x \in goals'
        BY <4>1
      <4>2. CASE x # None /\ \E u \in Working' : x = thread'[u].goal
        <5>1. PICK u \in Working' : x = thread'[u].goal
          BY <4>2
        <5>2. CASE u = t
          BY <1>3, <5>1, <5>2
        <5>3. CASE u # t
          <6>1. u \in Working /\ x = thread[u].goal
            BY <1>2, <1>3, <5>1, <5>3
          <6> QED
            BY <4>2, <6>1 DEF GoalsAbout
        <5> QED
          BY <5>2, <5>3
      <4> QED
        BY <4>1, <4>2 DEF GoalsAbout
    <3>3. None \notin GoalsAbout'
      <4>1. None \notin goals'
        BY <2>2, <3>1
      <4> QED
        BY <4>1 DEF GoalsAbout
    <3>4. row \in GoalsAbout \/ row \notin GoalsAbout'
            \/ (row \in Goals /\ row.stamp = now + 1 /\ now' = now + 1)
      BY <3>3 DEF Bears
    <3> HIDE DEF row
    <3>5. GoalsAbout' \subseteq Goals /\ DatedBy(GoalsAbout', now') /\ StampNames(GoalsAbout')
      BY <2>1, <2>3, <3>1, <3>2, <3>4, TableKept
    <3> QED
      BY <3>5 DEF Table
  <2>5. Table(Trajectories, trajectories', TrajectoriesAbout', now')
    <3> DEFINE row == IF r \in Requests THEN r.trajectory ELSE None
    <3>1. TrajectoriesAbout \subseteq Trajectories /\ DatedBy(TrajectoriesAbout, now)
          /\ StampNames(TrajectoriesAbout)
      BY <1>0 DEF Tables, Table
    <3>2. TrajectoriesAbout' \subseteq TrajectoriesAbout \cup {row}
      <4> SUFFICES ASSUME NEW x \in TrajectoriesAbout' PROVE x \in TrajectoriesAbout \/ x = row
        OBVIOUS
      <4>1. CASE x \in trajectories'
        BY <4>1
      <4>2. CASE x # None /\ \E u \in Working' : x = thread'[u].trajectory
        <5>1. PICK u \in Working' : x = thread'[u].trajectory
          BY <4>2
        <5>2. CASE u = t
          BY <1>3, <5>1, <5>2
        <5>3. CASE u # t
          <6>1. u \in Working /\ x = thread[u].trajectory
            BY <1>2, <1>3, <5>1, <5>3
          <6> QED
            BY <4>2, <6>1 DEF TrajectoriesAbout
        <5> QED
          BY <5>2, <5>3
      <4> QED
        BY <4>1, <4>2 DEF TrajectoriesAbout
    <3>3. None \notin TrajectoriesAbout'
      <4>1. None \notin trajectories'
        BY <2>2, <3>1
      <4> QED
        BY <4>1 DEF TrajectoriesAbout
    <3>4. row \in TrajectoriesAbout \/ row \notin TrajectoriesAbout'
            \/ (row \in Trajectories /\ row.stamp = now + 1 /\ now' = now + 1)
      BY <3>3 DEF Bears
    <3> HIDE DEF row
    <3>5. /\ TrajectoriesAbout' \subseteq Trajectories /\ DatedBy(TrajectoriesAbout', now')
          /\ StampNames(TrajectoriesAbout')
      BY <2>1, <2>3, <3>1, <3>2, <3>4, TableKept
    <3> QED
      BY <3>5 DEF Table
  <2>6. Table(Controls, sessions', SessionsAbout', now')
    <3> DEFINE row == IF r \in Requests THEN r.session ELSE None
    <3>1. SessionsAbout \subseteq Controls /\ DatedBy(SessionsAbout, now)
          /\ StampNames(SessionsAbout)
      BY <1>0 DEF Tables, Table
    <3>2. SessionsAbout' \subseteq SessionsAbout \cup {row}
      <4> SUFFICES ASSUME NEW x \in SessionsAbout' PROVE x \in SessionsAbout \/ x = row
        OBVIOUS
      <4>1. CASE x \in sessions'
        BY <4>1
      <4>2. CASE x # None /\ \E u \in Working' : x = thread'[u].session
        <5>1. PICK u \in Working' : x = thread'[u].session
          BY <4>2
        <5>2. CASE u = t
          BY <1>3, <5>1, <5>2
        <5>3. CASE u # t
          <6>1. u \in Working /\ x = thread[u].session
            BY <1>2, <1>3, <5>1, <5>3
          <6> QED
            BY <4>2, <6>1 DEF SessionsAbout
        <5> QED
          BY <5>2, <5>3
      <4> QED
        BY <4>1, <4>2 DEF SessionsAbout
    <3>3. None \notin SessionsAbout'
      <4>1. None \notin sessions'
        BY <2>2, <3>1
      <4> QED
        BY <4>1 DEF SessionsAbout
    <3>4. row \in SessionsAbout \/ row \notin SessionsAbout'
            \/ (row \in Controls /\ row.stamp = now + 1 /\ now' = now + 1)
      BY <3>3 DEF Bears
    <3> HIDE DEF row
    <3>5. /\ SessionsAbout' \subseteq Controls /\ DatedBy(SessionsAbout', now')
          /\ StampNames(SessionsAbout')
      BY <2>1, <2>3, <3>1, <3>2, <3>4, TableKept
    <3> QED
      BY <3>5 DEF Table
  <2> QED
    BY <2>4, <2>5, <2>6 DEF Tables
<1>5. Held'
  <2>1. ASSUME NEW s, Rooted(s) PROVE Rooted(s)'
    BY <2>1 DEF Rooted
  <2>2. \A s \in sessions' : Rooted(s)'
    BY <1>0, <2>1 DEF Held
  <2>3. ASSUME NEW u \in Working' PROVE Holds(thread[u])'
    <3>1. CASE u = t
      BY <1>3, <2>3, <3>1
    <3>2. CASE u # t
      <4>1. u \in Working /\ Holds(thread[u])
        BY <1>0, <1>2, <1>3, <2>3, <3>2 DEF Held
      <4> QED
        BY <1>2, <1>3, <2>3, <3>2, <4>1 DEF Holds, Rooted
    <3> QED
      BY <3>1, <3>2
  <2> QED
    BY <2>2, <2>3 DEF Held
<1>6. Single'
  <2> SUFFICES ASSUME NEW u \in Working', NEW v \in Working', thread'[u].alone PROVE v = u
    BY DEF Single
  <2>1. u = t
    BY <1>2, <1>3
  <2>2. CASE v # t
    BY <1>2, <1>3, <2>1, <2>2
  <2> QED
    BY <2>1, <2>2
<1>7. ASSUME NEW u \in Working', Shows(thread[u])' PROVE OnCourse(thread[u])'
  <2>1. thread'[u].alone
    BY <1>7 DEF Shows
  <2>2. u = t
    BY <1>2, <1>3, <1>7, <2>1
  <2>3. r \in Requests /\ thread'[u] = r
    BY <1>3, <1>7, <2>2
  <2> QED
    BY <1>7, <2>3 DEF Shows, Plan!Views
<1> QED
  BY <1>1, <1>4, <1>5, <1>6, <1>7 DEF PlanInv

-----------------------------------------------------------------------------
(* The first state, and what happens outside requests.                      *)

LEMMA PlanStarts ==
    ASSUME Plan!PlanningAssumption PROVE Plan!Init => PlanInv
<1> SUFFICES ASSUME Plan!Init PROVE PlanInv
  OBVIOUS
<1>1. /\ moved = [progress |-> 1, adaptation |-> 1]
      /\ progress = Head(Progressions) /\ adaptation = Head(Adaptations)
      /\ goals = {} /\ trajectories = {} /\ sessions = {}
      /\ thread = [t \in Threads |-> Gone] /\ now = 0 /\ settled = FALSE
  BY DEF Plan!Init, Gone
<1>2. Working = {}
  BY <1>1 DEF Working, Plan!Busy, Plan!At, Gone
<1>3. Typed
  <2>1. /\ Head(Progressions) = Progressions[1] /\ 1 \in 1..Len(Progressions)
        /\ Head(Adaptations) = Adaptations[1] /\ 1 \in 1..Len(Adaptations)
    BY DEF Plan!PlanningAssumption
  <2> QED
    BY <1>1, <2>1 DEF Typed
<1>4. GoalsAbout = {} /\ TrajectoriesAbout = {} /\ SessionsAbout = {}
  BY <1>1, <1>2 DEF GoalsAbout, TrajectoriesAbout, SessionsAbout
<1>5. Tables
  BY <1>1, <1>4 DEF Tables, Table, DatedBy, StampNames, Keyed
<1> QED
  BY <1>1, <1>2, <1>3, <1>5 DEF PlanInv, Held, Single

LEMMA MetIs ==
    ASSUME Typed, NEW met, met = Plan!Met
    PROVE  /\ DOMAIN met = Threads
           /\ \A u \in Threads : /\ Alike(met[u], thread[u])
                                 /\ u \in Working => ~met[u].alone
<1>1. met = [u \in Threads |-> IF u \in Working THEN [thread[u] EXCEPT !.alone = FALSE] ELSE thread[u]]
  BY DEF Plan!Met, Working
<1>2. ASSUME NEW u \in Threads PROVE Alike(met[u], thread[u]) /\ (u \in Working => ~met[u].alone)
  <2>1. CASE u \in Working
    <3>1. thread[u] \in Requests
      BY <2>1, WorkingIs
    <3>2. met[u] = [thread[u] EXCEPT !.alone = FALSE]
      BY <1>1, <2>1
    <3> QED
      BY <3>1, <3>2 DEF Alike, Requests
  <2>2. CASE u \notin Working
    BY <1>1, <2>2 DEF Alike
  <2> QED
    BY <2>1, <2>2
<1> QED
  BY <1>1, <1>2

LEMMA MoveKeeps ==
    ASSUME Plan!PlanningAssumption, PlanInv, Plan!Move PROVE PlanInv'
<1>0. Typed /\ Tables /\ Held
  BY DEF PlanInv
<1>1. /\ thread' = Plan!Met /\ settled' = FALSE /\ now' = now
      /\ goals' = goals /\ trajectories' = trajectories /\ sessions' = sessions
  BY DEF Plan!Move, Plan!stores
<1>2. /\ DOMAIN thread' = Threads
      /\ \A u \in Threads : Alike(thread'[u], thread[u]) /\ (u \in Working => ~thread'[u].alone)
  BY <1>0, <1>1, MetIs
<1>3. \A u \in Threads :
        /\ thread'[u] = Gone \/ thread'[u] \in Requests
        /\ thread'[u].pc = thread[u].pc
        /\ thread[u].pc # "idle" =>
             /\ thread'[u].goal = thread[u].goal
             /\ thread'[u].trajectory = thread[u].trajectory
             /\ thread'[u].session = thread[u].session
             /\ thread'[u].revised = thread[u].revised
             /\ thread'[u].first = thread[u].first
  BY <1>0, <1>2, AlikeIs DEF Typed
<1>4. Working' = Working
  BY <1>3 DEF Working, Plan!Busy, Plan!At
<1>5. \A u \in Working : /\ u \in Threads /\ thread'[u].pc = thread[u].pc
                         /\ thread'[u].goal = thread[u].goal
                         /\ thread'[u].trajectory = thread[u].trajectory
                         /\ thread'[u].session = thread[u].session
                         /\ thread'[u].revised = thread[u].revised
                         /\ thread'[u].first = thread[u].first
                         /\ ~thread'[u].alone
  BY <1>0, <1>2, <1>3, WorkingIs
<1>6. Typed'
  <2>1. moved \in [progress : 1..Len(Progressions), adaptation : 1..Len(Adaptations)]
        /\ Len(Progressions) \in Nat /\ Len(Adaptations) \in Nat
    BY <1>0 DEF Typed, Plan!PlanningAssumption
  <2>2. /\ moved' \in [progress : 1..Len(Progressions), adaptation : 1..Len(Adaptations)]
        /\ progress' = Progressions[moved'.progress] /\ adaptation' = Adaptations[moved'.adaptation]
    <3>1. CASE /\ moved.progress < Len(Progressions)
               /\ moved' = [moved EXCEPT !.progress = @ + 1]
               /\ progress' = Progressions[moved'.progress] /\ adaptation' = adaptation
      BY <1>0, <2>1, <3>1 DEF Typed
    <3>2. CASE /\ moved.adaptation < Len(Adaptations)
               /\ moved' = [moved EXCEPT !.adaptation = @ + 1]
               /\ adaptation' = Adaptations[moved'.adaptation] /\ progress' = progress
      BY <1>0, <2>1, <3>2 DEF Typed
    <3> QED
      BY <3>1, <3>2 DEF Plan!Move
  <2> QED
    BY <1>0, <1>1, <1>2, <1>3, <2>2 DEF Typed
<1>7. Tables'
  <2>1. GoalsAbout' = GoalsAbout /\ TrajectoriesAbout' = TrajectoriesAbout /\ SessionsAbout' = SessionsAbout
    BY <1>1, <1>4, <1>5 DEF GoalsAbout, TrajectoriesAbout, SessionsAbout
  <2> QED
    BY <1>0, <1>1, <2>1 DEF Tables
<1>8. Held'
  BY <1>0, <1>1, <1>4, <1>5 DEF Held, Holds, Rooted
<1>9. Single' /\ \A u \in Working' : ~Shows(thread[u])'
  BY <1>4, <1>5 DEF Single, Shows
<1> QED
  BY <1>1, <1>6, <1>7, <1>8, <1>9 DEF PlanInv

\* A request that comes to an end, or goes on, alone among the threads.
LEMMA BecomeIs ==
    ASSUME PlanInv, NEW t \in Working, NEW r, thread' = [thread EXCEPT ![t] = r]
    PROVE  /\ t \in Threads /\ DOMAIN thread' = Threads /\ thread'[t] = r
           /\ \A u \in Threads : u # t => Alike(thread'[u], thread[u])
           /\ \A u \in Working : u # t => ~thread'[u].alone
           /\ thread[t].alone => \A u \in Working : u = t
<1>0. Typed /\ Single
  BY DEF PlanInv
<1>1. t \in Threads /\ DOMAIN thread = Threads
  BY <1>0 DEF Working, Plan!Busy, Typed
<1>2. \A u \in Threads : u # t => thread'[u] = thread[u]
  BY <1>1
<1>3. \A u \in Working : u # t => u \in Threads /\ ~thread[u].alone
  BY <1>0 DEF Single, Working, Plan!Busy
<1> QED
  BY <1>0, <1>1, <1>2, <1>3 DEF Alike, Single

\* The rows that are stored, and a request that goes on with what it has.
LEMMA StoresStand ==
    ASSUME PlanInv
    PROVE  /\ now \in Nat
           /\ goals \subseteq GoalsAbout /\ trajectories \subseteq TrajectoriesAbout
           /\ sessions \subseteq SessionsAbout
           /\ GoalsAbout \subseteq Goals /\ TrajectoriesAbout \subseteq Trajectories
           /\ SessionsAbout \subseteq Controls
           /\ Keyed(goals) /\ Keyed(trajectories) /\ Keyed(sessions)
           /\ DatedBy(GoalsAbout, now) /\ DatedBy(TrajectoriesAbout, now) /\ DatedBy(SessionsAbout, now)
           /\ DatedBy(goals, now) /\ DatedBy(trajectories, now) /\ DatedBy(sessions, now)
           /\ StampNames(goals) /\ StampNames(trajectories) /\ StampNames(sessions)
           /\ \A s \in sessions : Rooted(s)
<1>1. Typed /\ Tables /\ Held
  BY DEF PlanInv
<1>2. goals \subseteq GoalsAbout /\ trajectories \subseteq TrajectoriesAbout /\ sessions \subseteq SessionsAbout
  BY DEF GoalsAbout, TrajectoriesAbout, SessionsAbout
<1>3. /\ GoalsAbout \subseteq Goals /\ TrajectoriesAbout \subseteq Trajectories
      /\ SessionsAbout \subseteq Controls
      /\ Keyed(goals) /\ Keyed(trajectories) /\ Keyed(sessions)
      /\ DatedBy(GoalsAbout, now) /\ DatedBy(TrajectoriesAbout, now) /\ DatedBy(SessionsAbout, now)
      /\ StampNames(GoalsAbout) /\ StampNames(TrajectoriesAbout) /\ StampNames(SessionsAbout)
  BY <1>1 DEF Tables, Table
<1>4. /\ DatedBy(goals, now) /\ DatedBy(trajectories, now) /\ DatedBy(sessions, now)
  BY <1>2, <1>3 DEF DatedBy
<1>5. StampNames(goals) /\ StampNames(trajectories) /\ StampNames(sessions)
  BY <1>2, <1>3 DEF StampNames
<1> QED
  BY <1>1, <1>2, <1>3, <1>4, <1>5 DEF Typed, Held

LEMMA HeldAbout ==
    ASSUME PlanInv, NEW t \in Working
    PROVE  /\ thread[t] \in Requests /\ Holds(thread[t])
           /\ thread[t].goal # None => thread[t].goal \in GoalsAbout
           /\ thread[t].trajectory # None => thread[t].trajectory \in TrajectoriesAbout
           /\ thread[t].session # None => thread[t].session \in SessionsAbout
           /\ Shows(thread[t]) => OnCourse(thread[t])
<1>1. thread[t] \in Requests
  BY WorkingIs DEF PlanInv
<1> QED
  BY <1>1 DEF PlanInv, Held, GoalsAbout, TrajectoriesAbout, SessionsAbout

LEMMA DieKeeps ==
    ASSUME Plan!PlanningAssumption, PlanInv, NEW t \in Threads, Plan!Die(t) PROVE PlanInv'
<1>1. /\ t \in Working /\ thread' = [thread EXCEPT ![t] = Gone] /\ settled' = FALSE
      /\ now' = now /\ goals' = goals /\ trajectories' = trajectories /\ sessions' = sessions
      /\ moved' = moved /\ progress' = progress /\ adaptation' = adaptation
  BY DEF Plan!Die, Plan!Become, Working, Gone, Plan!stores, Plan!learner
<1>2. /\ DOMAIN thread' = Threads /\ thread'[t] = Gone
      /\ \A u \in Threads : u # t => Alike(thread'[u], thread[u])
      /\ \A u \in Working : u # t => ~thread'[u].alone
  BY <1>1, BecomeIs
<1>3. Gone \notin Requests
  BY DEF Gone, Requests
<1> QED
  BY <1>1, <1>2, <1>3, StoresStand, StepKeeps

-----------------------------------------------------------------------------
(* Reading the goal, with which every request but a goal's begins.          *)

LEMMA Names ==
    ASSUME Plan!PlanningAssumption, PlanInv
    PROVE  /\ progress \in Seq(Plan!Names) /\ None \in Plan!Names
           /\ adaptation \in [risk : Plan!Risks, pace : Plan!Paces]
           /\ None \notin Nat /\ None \notin Sessions
           /\ None \notin Goals /\ None \notin Trajectories /\ None \notin Controls
<1>1. moved.progress \in 1..Len(Progressions) /\ moved.adaptation \in 1..Len(Adaptations)
  BY DEF PlanInv, Typed
<1>2. progress \in Seq(Plan!Names)
  BY <1>1 DEF Plan!PlanningAssumption, PlanInv, Typed
<1>3. adaptation \in [risk : Plan!Risks, pace : Plan!Paces]
  <2>1. PICK A : A = [risk : Plan!Risks, pace : Plan!Paces]
    OBVIOUS
  <2>2. Adaptations \in Seq(A) /\ adaptation = Adaptations[moved.adaptation]
    BY <2>1 DEF Plan!PlanningAssumption, PlanInv, Typed
  <2>3. adaptation \in A
    BY <1>1, <2>2
  <2> QED
    BY <2>1, <2>3
<1> QED
  BY <1>2, <1>3 DEF Plan!PlanningAssumption, Plan!Names, Goals, Trajectories, Controls

LEMMA GoalForIs ==
    ASSUME Plan!PlanningAssumption, PlanInv, NEW outcome \in Plan!Names, NEW target \in Plan!Names,
           NEW goal, goal = Plan!GoalFor(outcome, target, progress)
    PROVE  goal \in Goals /\ goal.stamp = now + 1 /\ goal.trajectory = None
<1>1. PICK aim : aim = IF target # None THEN target ELSE IF outcome # None THEN outcome
                ELSE IF progress # <<>> THEN Head(progress) ELSE None
  OBVIOUS
<1>2. progress # <<>> => Head(progress) \in Plan!Names
  BY Names
<1>3. aim \in Plan!Names
  BY <1>1, <1>2, Names
<1>4. goal = [id |-> now + 1, outcome |-> outcome, trajectory |-> None, stamp |-> now + 1, target |-> aim]
  BY <1>1 DEF Plan!GoalFor
<1>5. now \in Nat
  BY StoresStand
<1> QED
  BY <1>3, <1>4, <1>5 DEF Goals, Plan!Goal, Plan!Made

\* What the goal that is read is.
GoalIsRead(r, q) ==
    /\ q \in Requests
    /\ q.kind = r.kind /\ q.target = r.target /\ q.asked = r.asked /\ q.alone = r.alone
    /\ q.session = r.session /\ q.trajectory = None /\ ~q.revised
    /\ \/ /\ q.pc = IF r.first THEN "planning" ELSE "binding"
          /\ q.goal = None /\ ~q.first /\ goals = {}
       \/ /\ q.pc = "comparing" /\ q.goal \in Goals /\ q.outcomes = progress
          /\ q.goal \in goals \/ q.goal.stamp = now + 1
          /\ Leads(goals, q.goal)

LEMMA GoalReadIs ==
    ASSUME Plan!PlanningAssumption, PlanInv, NEW r \in Requests, NEW q,
           r.goal = None, r.trajectory = None, ~r.revised, q = Plan!GoalRead(r)
    PROVE  GoalIsRead(r, q)
<1>1. PICK active, goal :
        /\ active = Plan!ShownGoal
        /\ goal = IF active = None THEN Plan!GoalFor(None, r.target, progress)
                  ELSE IF r.target = None THEN active
                  ELSE [active EXCEPT !.target = r.target, !.stamp = now + 1]
  OBVIOUS
<1>2. q = IF active = None /\ goal.target = None THEN Plan!AfterPlanning(r)
          ELSE [r EXCEPT !.pc = "comparing", !.outcomes = progress, !.goal = goal,
                         !.created = (active = None)]
  BY <1>1 DEF Plan!GoalRead
<1>3. /\ goals \subseteq Goals /\ DatedBy(goals, now) /\ StampNames(goals) /\ now \in Nat
      /\ progress \in Seq(Plan!Names) /\ None \notin Goals /\ None \in Plan!Names
      /\ r.target \in Plan!Names
  BY StoresStand, Names DEF Requests
<1>4. IF active = None THEN goals = {} ELSE active \in goals /\ Leads(goals, active)
  <2>1. active = Plan!Newest(goals)
    BY <1>1 DEF Plan!ShownGoal
  <2>2. CASE goals = {}
    BY <2>1, <2>2, NewestOfNone
  <2>3. CASE goals # {}
    BY <1>3, <2>1, <2>3, NewestLeads
  <2> QED
    BY <2>2, <2>3
<1>5. /\ goal \in Goals /\ (goal \in goals \/ goal.stamp = now + 1) /\ Leads(goals, goal)
  <2>1. CASE active = None
    <3>1. goal \in Goals /\ goal.stamp = now + 1
      BY <1>1, <1>3, <2>1, GoalForIs
    <3> QED
      BY <1>4, <2>1, <3>1 DEF Leads
  <2>2. CASE active # None /\ r.target = None
    BY <1>1, <1>3, <1>4, <2>2
  <2>3. CASE active # None /\ r.target # None
    <3>1. active \in Goals /\ goal = [active EXCEPT !.target = r.target, !.stamp = now + 1]
      BY <1>1, <1>3, <1>4, <2>3
    <3>2. goal \in Goals /\ goal.stamp = now + 1
      <4>1. PICK n \in Nat, aim \in Plan!Names : n = now + 1 /\ aim = r.target
        BY <1>3
      <4>2. goal = [active EXCEPT !.target = aim, !.stamp = n]
        BY <3>1, <4>1
      <4>3. goal \in Goals /\ goal.stamp = n
        BY <3>1, <4>2 DEF Goals, Plan!Goal
      <4> QED
        BY <4>1, <4>3
    <3> QED
      BY <1>3, <3>2 DEF Leads, DatedBy
  <2> QED
    BY <2>1, <2>2, <2>3
<1>6. CASE active = None /\ goal.target = None
  <2>1. q = Plan!AfterPlanning(r)
    BY <1>2, <1>6
  <2>2. /\ q \in Requests
        /\ q.kind = r.kind /\ q.target = r.target /\ q.asked = r.asked /\ q.alone = r.alone
        /\ q.session = r.session /\ q.first = FALSE
        /\ q.pc = (IF r.first THEN "planning" ELSE "binding")
        /\ q.goal = None /\ q.trajectory = None /\ q.revised = FALSE
    BY <2>1, AfterPlanningIs DEF Requests
  <2> QED
    BY <1>4, <1>6, <2>2 DEF GoalIsRead
<1>7. CASE ~(active = None /\ goal.target = None)
  <2>0. PICK fresh \in BOOLEAN : fresh = (active = None)
    <3>1. (active = None) \in BOOLEAN
      OBVIOUS
    <3> QED
      BY <3>1
  <2>1. q = [r EXCEPT !.pc = "comparing", !.outcomes = progress, !.goal = goal, !.created = fresh]
    BY <1>2, <1>7, <2>0
  <2>2. PICK pc, outcomes, g : pc = "comparing" /\ outcomes = progress /\ g = goal
    OBVIOUS
  <2>3. pc \in Places /\ outcomes \in Seq(Plan!Names) /\ g \in Optional(Goals)
    BY <1>3, <1>5, <2>2 DEF Places, Optional
  <2>4. PICK mid : mid = [r EXCEPT !.pc = pc, !.outcomes = outcomes]
    OBVIOUS
  <2>5. /\ mid \in Requests
        /\ mid.kind = r.kind /\ mid.target = r.target /\ mid.asked = r.asked /\ mid.alone = r.alone
        /\ mid.session = r.session /\ mid.trajectory = r.trajectory /\ mid.revised = r.revised
        /\ mid.pc = pc /\ mid.outcomes = outcomes
    BY <2>3, <2>4 DEF Requests
  <2>6. q = [mid EXCEPT !.goal = g, !.created = fresh]
    BY <2>1, <2>2, <2>4
  <2>7. /\ q \in Requests
        /\ q.kind = r.kind /\ q.target = r.target /\ q.asked = r.asked /\ q.alone = r.alone
        /\ q.session = r.session /\ q.trajectory = r.trajectory /\ q.revised = r.revised
        /\ q.pc = pc /\ q.goal = g /\ q.outcomes = outcomes
    BY <2>3, <2>5, <2>6 DEF Requests
  <2> QED
    BY <1>5, <2>2, <2>7 DEF GoalIsRead
<1> QED
  BY <1>6, <1>7

\* The clock moves with a goal made or changed.
LEMMA TimeOfIs ==
    ASSUME PlanInv, NEW q, q.goal # None => q.goal \in goals \/ q.goal.stamp = now + 1,
           now' = Plan!TimeOf(q)
    PROVE  /\ now' \in {now, now + 1}
           /\ q.goal # None /\ q.goal \notin goals => now' = now + 1
<1>1. now \in Nat /\ DatedBy(goals, now)
  BY StoresStand
<1> QED
  BY <1>1 DEF Plan!TimeOf, DatedBy

\* In the state that follows, with the same rows, it holds what it should.
LEMMA ReadHolds ==
    ASSUME Plan!PlanningAssumption, PlanInv, NEW r \in Requests, NEW q, GoalIsRead(r, q),
           now' = Plan!TimeOf(q), r.session = None \/ r.session \in SessionsAbout,
           goals' = goals, trajectories' = trajectories, sessions' = sessions, progress' = progress,
           Shows(r) => Continues(r)
    PROVE  /\ q \in Requests /\ now' \in {now, now + 1}
           /\ Bears(q.goal, GoalsAbout, Goals)
           /\ Bears(q.trajectory, TrajectoriesAbout, Trajectories)
           /\ Bears(q.session, SessionsAbout, Controls)
           /\ Holds(q)' /\ q.alone = r.alone /\ (Shows(q) => OnCourse(q)')
<1>1. /\ q \in Requests /\ q.alone = r.alone /\ q.kind = r.kind /\ q.asked = r.asked
      /\ q.session = r.session /\ q.trajectory = None /\ ~q.revised
  BY DEF GoalIsRead
<1>2. None \notin Goals /\ goals \subseteq GoalsAbout
  BY Names, StoresStand
<1>3. q.goal # None => q.goal \in goals \/ q.goal.stamp = now + 1
  BY DEF GoalIsRead
<1>4. now' \in {now, now + 1} /\ (q.goal # None /\ q.goal \notin goals => now' = now + 1)
  BY <1>3, TimeOfIs
<1>5. Bears(q.goal, GoalsAbout, Goals)
  <2>1. q.goal = None \/ q.goal \in Goals
    BY DEF GoalIsRead
  <2> QED
    BY <1>2, <1>3, <1>4, <2>1 DEF Bears
<1>6. Bears(q.trajectory, TrajectoriesAbout, Trajectories) /\ Bears(q.session, SessionsAbout, Controls)
  BY <1>1 DEF Bears
<1>7. Holds(q)'
  <2>1. \/ q.pc \in {"planning", "binding"} /\ q.goal = None /\ ~q.first
        \/ q.pc = "comparing" /\ q.goal # None
    BY <1>2 DEF GoalIsRead
  <2> QED
    BY <1>1, <2>1 DEF Holds
<1>8. ASSUME Shows(q) PROVE OnCourse(q)'
  <2>1. Continues(r)
    BY <1>1, <1>8 DEF Shows
  <2>2. Continues(q)'
    BY <1>1, <2>1 DEF Continues
  <2>3. CASE q.pc \in {"planning", "binding"} /\ q.goal = None /\ goals = {}
    BY <2>2, <2>3 DEF OnCourse
  <2>4. CASE q.pc = "comparing" /\ q.outcomes = progress /\ Leads(goals, q.goal)
    BY <2>2, <2>4 DEF OnCourse
  <2> QED
    BY <2>3, <2>4 DEF GoalIsRead
<1> QED
  BY <1>1, <1>4, <1>5, <1>6, <1>7, <1>8

LEMMA ReadGoalKeeps ==
    ASSUME Plan!PlanningAssumption, PlanInv, NEW t \in Threads, Plan!ReadGoal(t) PROVE PlanInv'
<1>1. PICK r, q : r = thread[t] /\ q = Plan!GoalRead(r)
  OBVIOUS
<1>2. /\ r.pc = "planning" /\ now' = Plan!TimeOf(q)
      /\ thread' = [thread EXCEPT ![t] = q] /\ settled' = FALSE
      /\ goals' = goals /\ trajectories' = trajectories /\ sessions' = sessions
      /\ moved' = moved /\ progress' = progress /\ adaptation' = adaptation
  BY <1>1 DEF Plan!ReadGoal, Plan!Become, Plan!At, Plan!stores, Plan!learner
<1>3. t \in Working
  BY <1>1, <1>2 DEF Working, Plan!Busy, Plan!At
<1>4. r \in Requests /\ Holds(r) /\ (r.session = None \/ r.session \in SessionsAbout)
      /\ (Shows(r) => OnCourse(r))
  BY <1>1, <1>3, HeldAbout
<1>5. r.goal = None /\ r.trajectory = None /\ ~r.revised /\ (Shows(r) => Continues(r))
  BY <1>2, <1>4 DEF Holds, OnCourse
<1>6. GoalIsRead(r, q)
  BY <1>1, <1>4, <1>5, GoalReadIs
<1>7. /\ q \in Requests /\ now' \in {now, now + 1}
      /\ Bears(q.goal, GoalsAbout, Goals)
      /\ Bears(q.trajectory, TrajectoriesAbout, Trajectories)
      /\ Bears(q.session, SessionsAbout, Controls)
      /\ Holds(q)' /\ q.alone = r.alone /\ (Shows(q) => OnCourse(q)')
  BY <1>2, <1>4, <1>5, <1>6, ReadHolds
<1>8. /\ DOMAIN thread' = Threads /\ thread'[t] = q
      /\ \A u \in Threads : u # t => Alike(thread'[u], thread[u])
      /\ \A u \in Working : u # t => ~thread'[u].alone
      /\ q.alone => \A u \in Working : u = t
  BY <1>1, <1>2, <1>3, <1>7, BecomeIs
<1> QED
  BY <1>2, <1>7, <1>8, StoresStand, StepKeeps

-----------------------------------------------------------------------------
(* A request begins.                                                        *)

LEMMA BeginKeeps ==
    ASSUME Plan!PlanningAssumption, PlanInv, NEW t \in Threads, NEW r, Plan!Begin(t, r),
           r \in Requests, r.alone => Working = {},
           now' \in {now, now + 1}, Bears(r.goal, GoalsAbout, Goals),
           Bears(r.trajectory, TrajectoriesAbout, Trajectories),
           Bears(r.session, SessionsAbout, Controls), Holds(r)', Shows(r) => OnCourse(r)'
    PROVE  PlanInv'
<1>1. PICK met : met = Plan!Met
  OBVIOUS
<1>2. /\ Plan!At(t, "idle") /\ thread' = [met EXCEPT ![t] = r] /\ settled' = FALSE
      /\ goals' = goals /\ trajectories' = trajectories /\ sessions' = sessions
      /\ moved' = moved /\ progress' = progress /\ adaptation' = adaptation
  BY <1>1 DEF Plan!Begin, Plan!stores, Plan!learner
<1>3. /\ DOMAIN met = Threads
      /\ \A u \in Threads : Alike(met[u], thread[u]) /\ (u \in Working => ~met[u].alone)
  BY <1>1, MetIs DEF PlanInv
<1>4. Working \subseteq Threads
  BY DEF Working, Plan!Busy
<1>5. /\ DOMAIN thread' = Threads /\ thread'[t] = r
      /\ \A u \in Threads : u # t => Alike(thread'[u], thread[u])
      /\ \A u \in Working : u # t => ~thread'[u].alone
  BY <1>2, <1>3, <1>4
<1> QED
  BY <1>2, <1>5, StoresStand, StepKeeps

LEMMA RequestIs ==
    ASSUME Plan!PlanningAssumption, NEW kind \in {"load", "overview", "generate", "set"},
           NEW target \in Plan!Names, NEW asked \in Asks, NEW r, r = Plan!Request(kind, target, asked)
    PROVE  /\ r \in Requests /\ r.kind = kind /\ r.target = target /\ r.asked = asked
           /\ r.alone = (Working = {}) /\ r.first = (kind \in Plan!Views)
           /\ r.goal = None /\ r.trajectory = None /\ ~r.revised /\ r.session = None
<1>0. (Working = {}) \in BOOLEAN /\ (kind \in Plan!Views) \in BOOLEAN
  OBVIOUS
<1>1. PICK alone \in BOOLEAN, first \in BOOLEAN : alone = (Working = {}) /\ first = (kind \in Plan!Views)
  BY <1>0, Zenon
<1>2. r = [kind |-> kind, target |-> target, asked |-> asked, alone |-> alone,
           pc |-> "planning", first |-> first, outcomes |-> <<>>, goal |-> None,
           created |-> FALSE, trajectory |-> None, revised |-> FALSE, session |-> None]
  BY <1>1 DEF Plan!Request, Working
<1>3. <<>> \in Seq(Plan!Names)
  OBVIOUS
<1>4. r \in Requests
  BY <1>2, <1>3 DEF Requests, Places, Optional
<1> QED
  BY <1>1, <1>2, <1>4

\* A request that reads the goal first.
LEMMA ReadingBegins ==
    ASSUME Plan!PlanningAssumption, PlanInv, NEW t \in Threads,
           NEW kind \in {"load", "overview", "generate"},
           NEW target \in Plan!Names, NEW asked \in Asks,
           kind \in Plan!Views => asked = None,
           Plan!Begin(t, Plan!GoalRead(Plan!Request(kind, target, asked)))
    PROVE  PlanInv'
<1>1. PICK r, q : r = Plan!Request(kind, target, asked) /\ q = Plan!GoalRead(r)
  OBVIOUS
<1>2. Plan!Begin(t, q)
  BY <1>1
<1>3. /\ now' = Plan!TimeOf(q)
      /\ goals' = goals /\ trajectories' = trajectories /\ sessions' = sessions /\ progress' = progress
  BY <1>2 DEF Plan!Begin, Plan!stores, Plan!learner
<1>4. /\ r \in Requests /\ r.kind = kind /\ r.asked = asked
      /\ r.alone = (Working = {}) /\ r.goal = None /\ r.trajectory = None /\ ~r.revised
      /\ r.session = None
  BY <1>1, RequestIs
<1>5. Shows(r) => Continues(r)
  BY <1>4 DEF Shows, Continues
<1>6. GoalIsRead(r, q)
  BY <1>1, <1>4, GoalReadIs
<1>7. /\ q \in Requests /\ now' \in {now, now + 1}
      /\ Bears(q.goal, GoalsAbout, Goals)
      /\ Bears(q.trajectory, TrajectoriesAbout, Trajectories)
      /\ Bears(q.session, SessionsAbout, Controls)
      /\ Holds(q)' /\ q.alone = r.alone /\ (Shows(q) => OnCourse(q)')
  BY <1>3, <1>4, <1>5, <1>6, ReadHolds
<1>8. q.alone => Working = {}
  BY <1>4, <1>7
<1> QED
  BY <1>2, <1>7, <1>8, BeginKeeps

\* A plan is a list of nodes, and depends on what the goal is for only.
LEMMA PlanForIs ==
    ASSUME NEW goal, goal \in Goals, NEW outcomes \in Seq(Plan!Names),
           NEW adapted \in [risk : Plan!Risks, pace : Plan!Paces],
           NEW plan, plan = Plan!PlanFor(goal, outcomes, adapted)
    PROVE  plan \in Seq(Plan!PlanNode)
<1> DEFINE N == Plan!PlanNode
<1>1. PICK open : open = [i \in DOMAIN outcomes |-> Plan!Node(outcomes[i], outcomes[i], adapted)]
  OBVIOUS
<1>2. goal.outcome \in Plan!Names /\ goal.target \in Plan!Names /\ None \in Plan!Names
  BY DEF Goals, Plan!Goal, Plan!Names
<1>3. \A o, a \in Plan!Names : Plan!Node(o, a, adapted) \in N
  BY DEF Plan!Node, Plan!PlanNode
<1>4. PICK n \in Nat : n = Len(outcomes)
  OBVIOUS
<1>5. DOMAIN outcomes = 1..n /\ \A i \in 1..n : outcomes[i] \in Plan!Names
  BY <1>4
<1> HIDE DEF N
<1>6. open \in [1..n -> N]
  BY <1>1, <1>3, <1>5
<1>7. open \in Seq(N)
  BY <1>6, <1>4, SeqDef
<1>8. PICK own, aim : own = Plan!Node(goal.outcome, goal.target, adapted) /\ aim = Plan!Node(None, goal.target, adapted)
  OBVIOUS
<1>9. own \in N /\ aim \in N
  BY <1>2, <1>3, <1>8
<1>10. <<own>> \o open \in Seq(N) /\ <<aim>> \in Seq(N)
  BY <1>7, <1>9
<1>11. plan \in {<<own>> \o open, <<aim>>, open}
  BY <1>1, <1>8 DEF Plan!PlanFor
<1> QED
  BY <1>7, <1>10, <1>11 DEF N

LEMMA PlanForSame ==
    ASSUME NEW goal, NEW other, goal.outcome = other.outcome, goal.target = other.target,
           NEW outcomes, NEW adapted
    PROVE  Plan!PlanFor(goal, outcomes, adapted) = Plan!PlanFor(other, outcomes, adapted)
  BY DEF Plan!PlanFor

\* What a trajectory is adapted to is of its type, and adapting it once more to
\* the same outcomes changes nothing.
LEMMA AdaptedIs ==
    ASSUME Plan!PlanningAssumption, PlanInv, NEW old, old = None \/ old \in Trajectories,
           NEW adapted, adapted = Plan!Adapted(adaptation, old)
    PROVE  /\ adapted \in [risk : Plan!Risks, pace : Plan!Paces]
           /\ \A row : row # None /\ row.adapted = adapted => Plan!Adapted(adaptation, row) = adapted
<1>1. PICK kept : kept = IF old = None THEN [risk |-> "low", pace |-> "standard"] ELSE old.adapted
  OBVIOUS
<1>2. kept \in [risk : Plan!Risks, pace : Plan!Paces]
  BY <1>1 DEF Plan!Risks, Plan!Paces, Trajectories, Plan!Trajectory
<1>3. adapted = [risk |-> IF adaptation.risk = None THEN kept.risk ELSE adaptation.risk,
                 pace |-> IF adaptation.pace = None THEN kept.pace ELSE adaptation.pace]
  BY <1>1 DEF Plan!Adapted
<1>4. adapted \in [risk : Plan!Risks, pace : Plan!Paces]
  BY <1>2, <1>3, Names
<1>5. ASSUME NEW row, row # None, row.adapted = adapted PROVE Plan!Adapted(adaptation, row) = adapted
  <2>1. /\ adaptation.risk # None => adapted.risk = adaptation.risk
        /\ adaptation.pace # None => adapted.pace = adaptation.pace
    BY <1>3
  <2>2. Plan!Adapted(adaptation, row) = [risk |-> adapted.risk, pace |-> adapted.pace]
    BY <1>5, <2>1 DEF Plan!Adapted
  <2> QED
    BY <1>4, <2>2
<1> QED
  BY <1>4, <1>5

LEMMA TrajectoryForIs ==
    ASSUME Plan!PlanningAssumption, PlanInv, NEW old, old = None \/ old \in Trajectories,
           NEW goal \in Goals, NEW outcomes \in Seq(Plan!Names),
           NEW row, row = Plan!TrajectoryFor(old, goal, outcomes)
    PROVE  /\ row \in Trajectories /\ row.stamp = now + 1
           /\ row.id = (IF old = None THEN now + 1 ELSE old.id)
           /\ row.plan = Plan!PlanFor(goal, outcomes, row.adapted)
           /\ row.adapted = Plan!Adapted(adaptation, old)
<1>1. PICK adapted, plan, id : /\ adapted = Plan!Adapted(adaptation, old)
                               /\ plan = Plan!PlanFor(goal, outcomes, adapted)
                               /\ id = IF old = None THEN now + 1 ELSE old.id
  OBVIOUS
<1>2. adapted \in [risk : Plan!Risks, pace : Plan!Paces]
  BY <1>1, AdaptedIs
<1>3. plan \in Seq(Plan!PlanNode)
  BY <1>1, <1>2, PlanForIs
<1>4. row = [id |-> id, goal |-> goal.id, plan |-> plan, adapted |-> adapted,
             nodes |-> now + 1, stamp |-> now + 1]
  BY <1>1 DEF Plan!TrajectoryFor
<1>5. now + 1 \in Nat /\ goal.id \in Nat
  BY StoresStand DEF Goals, Plan!Goal
<1>6. id \in Nat
  BY <1>1, <1>5 DEF Trajectories, Plan!Trajectory
<1> QED
  BY <1>1, <1>2, <1>3, <1>4, <1>5, <1>6 DEF Trajectories, Plan!Trajectory

LEMMA SetGoalKeeps ==
    ASSUME Plan!PlanningAssumption, PlanInv, NEW t \in Threads, Plan!SetGoal(t) PROVE PlanInv'
<1>1. PICK wanted \in Wanted \cup {None} : \E target \in Targets \cup {None} :
            Plan!Begin(t, Plan!GoalMade(Plan!Request("set", target, None), wanted))
  BY DEF Plan!SetGoal
<1>2. PICK target \in Targets \cup {None} :
            Plan!Begin(t, Plan!GoalMade(Plan!Request("set", target, None), wanted))
  BY <1>1
<1>3. PICK r, q : r = Plan!Request("set", target, None) /\ q = Plan!GoalMade(r, wanted)
  OBVIOUS
<1>4. Plan!Begin(t, q)
  BY <1>2, <1>3
<1>5. target \in Plan!Names /\ wanted \in Plan!Names /\ None \in Asks
  BY DEF Plan!Names, Asks, Optional
<1>6. /\ r \in Requests /\ r.kind = "set" /\ r.target = target
      /\ r.alone = (Working = {}) /\ r.trajectory = None /\ ~r.revised /\ r.session = None
  BY <1>3, <1>5, RequestIs
<1>7. PICK goal : goal = Plan!GoalFor(wanted, r.target, progress)
  OBVIOUS
<1>8. goal \in Goals /\ goal.stamp = now + 1
  BY <1>5, <1>6, <1>7, GoalForIs
<1>9. now \in Nat /\ now + 1 \in Nat /\ progress \in Seq(Plan!Names)
  BY StoresStand, Names
<1>10. PICK row : row = Plan!TrajectoryFor(None, goal, progress)
  OBVIOUS
<1>11. row \in Trajectories /\ row.stamp = now + 1
  BY <1>8, <1>9, <1>10, TrajectoryForIs
<1>12. PICK own : own = [goal EXCEPT !.trajectory = now + 1]
  OBVIOUS
<1>13. own \in Goals /\ own.stamp = now + 1
  BY <1>8, <1>9, <1>12 DEF Goals, Plan!Goal, Plan!Made
<1>14. q = [r EXCEPT !.pc = "storing", !.goal = own, !.trajectory = row]
  BY <1>3, <1>7, <1>10, <1>12 DEF Plan!GoalMade
<1>15. /\ q \in Requests /\ q.kind = "set" /\ q.alone = r.alone /\ q.pc = "storing"
       /\ q.goal = own /\ q.trajectory = row /\ q.session = None
  BY <1>6, <1>11, <1>13, <1>14 DEF Requests, Optional, Places
<1>16. own # None /\ row # None
  BY <1>11, <1>13, Names
<1>17. now' = now + 1
  BY <1>4, <1>9, <1>13, <1>15, <1>16 DEF Plan!Begin, Plan!TimeOf
<1>18. /\ Bears(q.goal, GoalsAbout, Goals) /\ Bears(q.trajectory, TrajectoriesAbout, Trajectories)
       /\ Bears(q.session, SessionsAbout, Controls)
  BY <1>11, <1>13, <1>15, <1>17 DEF Bears
<1>19. Holds(q)' /\ ~Shows(q)
  BY <1>15, <1>16 DEF Holds, Shows, Plan!Views
<1> QED
  BY <1>4, <1>6, <1>15, <1>17, <1>18, <1>19, BeginKeeps

LEMMA ArriveKeeps ==
    ASSUME Plan!PlanningAssumption, PlanInv, NEW t \in Threads, Plan!Arrive(t) PROVE PlanInv'
<1>1. None \in Plan!Names /\ None \in Asks /\ Plan!Views = {"load", "overview"}
  BY DEF Plan!Names, Asks, Optional, Plan!Views
<1>2. CASE Plan!OpenWorkspace(t)
  <2>1. Plan!Begin(t, Plan!GoalRead(Plan!Request("load", None, None)))
    BY <1>2 DEF Plan!OpenWorkspace
  <2> QED
    BY <1>1, <2>1, ReadingBegins
<1>3. CASE Plan!MakeOverview(t)
  <2>1. Plan!Begin(t, Plan!GoalRead(Plan!Request("overview", None, None)))
    BY <1>3 DEF Plan!MakeOverview
  <2> QED
    BY <1>1, <2>1, ReadingBegins
<1>4. CASE Plan!AskForContent(t)
  <2>1. PICK target \in Targets \cup {None} : \E asked \in Sessions \cup {s.id : s \in sessions} \cup {None} :
            Plan!Begin(t, Plan!GoalRead(Plan!Request("generate", target, asked)))
    BY <1>4 DEF Plan!AskForContent
  <2>2. PICK asked \in Sessions \cup {s.id : s \in sessions} \cup {None} :
            Plan!Begin(t, Plan!GoalRead(Plan!Request("generate", target, asked)))
    BY <2>1
  <2>3. target \in Plan!Names
    BY DEF Plan!Names
  <2>4. \A s \in sessions : s.id \in Nat \cup Sessions
    BY StoresStand DEF Controls, Plan!Session
  <2>5. asked \in Asks
    BY <2>4 DEF Asks, Optional
  <2>6. "generate" \notin Plan!Views
    BY <1>1
  <2> QED
    BY <2>2, <2>3, <2>5, <2>6, ReadingBegins
<1>5. CASE Plan!SetGoal(t)
  BY <1>5, SetGoalKeeps
<1> QED
  BY <1>2, <1>3, <1>4, <1>5 DEF Plan!Arrive

-----------------------------------------------------------------------------
(* Comparing with what would be planned now, and storing it.                *)

\* A row that is stored with a plan is the newest with one.
LEMMA NewestPlanned ==
    ASSUME NEW rows, NEW row, NEW n \in Nat, DatedBy(rows, n), row.stamp = n + 1, row.plan # <<>>
    PROVE  Plan!Newest({p \in Plan!Upsert(rows, row) : p.plan # <<>>}) = row
<1>1. PICK few, all : few = {p \in rows : p.plan # <<>>} /\ all = Plan!Upsert(few, row)
  OBVIOUS
<1>2. {p \in Plan!Upsert(rows, row) : p.plan # <<>>} = all
  BY <1>1 DEF Plan!Upsert
<1>3. DatedBy(few, n) /\ Leads(few, row) /\ row.stamp \in Nat
  BY <1>1 DEF DatedBy, Leads
<1> QED
  BY <1>1, <1>2, <1>3, LeaderIsNewest

LEMMA CompareKeeps ==
    ASSUME Plan!PlanningAssumption, PlanInv, NEW t \in Threads, Plan!Compare(t) PROVE PlanInv'
<1>1. PICK r, old : /\ r = thread[t]
                    /\ old = IF r.goal.trajectory # None THEN Plan!ById(trajectories, r.goal.trajectory)
                             ELSE Plan!NewestTrajectory
  OBVIOUS
<1>2. PICK id : id = IF old = None THEN now + 1 ELSE old.id
  OBVIOUS
<1>3. PICK new, dated : /\ new = Plan!TrajectoryFor(old, r.goal, r.outcomes)
                        /\ dated = [r.goal EXCEPT !.stamp = now + 1]
  OBVIOUS
<1>4. PICK revised : revised = (old # None /\ Plan!Changed(old.plan, new.plan))
  OBVIOUS
<1>5. PICK written : written = (old = None \/ revised \/ old.adapted # new.adapted)
  OBVIOUS
<1>6a. PICK goal, row, pc :
        /\ goal = IF old = None \/ revised THEN [dated EXCEPT !.trajectory = new.id]
                  ELSE IF r.created THEN dated ELSE r.goal
        /\ row = IF written THEN new ELSE old
        /\ pc = IF written THEN "storing" ELSE "noting"
  OBVIOUS
<1>6b. PICK q : q = [r EXCEPT !.pc = pc, !.goal = goal, !.outcomes = <<>>, !.trajectory = row,
                              !.revised = revised]
  OBVIOUS
<1>6. /\ goal = IF old = None \/ revised THEN [dated EXCEPT !.trajectory = new.id]
                 ELSE IF r.created THEN dated ELSE r.goal
      /\ row = IF written THEN new ELSE old
      /\ pc = IF written THEN "storing" ELSE "noting"
      /\ q = [r EXCEPT !.pc = pc, !.goal = goal, !.outcomes = <<>>, !.trajectory = row, !.revised = revised]
  BY <1>6a, <1>6b
<1>7. /\ r.pc = "comparing" /\ now' = (IF written \/ r.created THEN now + 1 ELSE now)
      /\ thread' = [thread EXCEPT ![t] = q] /\ settled' = FALSE
      /\ goals' = goals /\ trajectories' = trajectories /\ sessions' = sessions
      /\ moved' = moved /\ progress' = progress /\ adaptation' = adaptation
  BY <1>1, <1>2, <1>3, <1>4, <1>5, <1>6
     DEF Plan!Compare, Plan!Become, Plan!At, Plan!stores, Plan!learner
<1>8. t \in Working
  BY <1>1, <1>7 DEF Working, Plan!Busy, Plan!At
<1>9. r \in Requests /\ Holds(r) /\ (r.goal # None => r.goal \in GoalsAbout)
      /\ (r.session # None => r.session \in SessionsAbout) /\ (Shows(r) => OnCourse(r))
  BY <1>1, <1>8, HeldAbout
<1>10. /\ now \in Nat /\ GoalsAbout \subseteq Goals /\ trajectories \subseteq TrajectoriesAbout
       /\ TrajectoriesAbout \subseteq Trajectories /\ Keyed(trajectories)
       /\ DatedBy(goals, now) /\ DatedBy(trajectories, now)
       /\ None \notin Nat /\ None \notin Goals /\ None \notin Trajectories
  BY StoresStand, Names
<1>11. r.goal # None /\ r.goal \in GoalsAbout /\ r.goal \in Goals /\ r.outcomes \in Seq(Plan!Names)
  BY <1>7, <1>9, <1>10 DEF Holds, Requests
<1>12. /\ old # None => old \in trajectories
       /\ old # None /\ r.goal.trajectory # None => old.id = r.goal.trajectory
       /\ old # None /\ r.goal.trajectory = None =>
                old.plan # <<>> /\ old = Plan!Newest({p \in trajectories : p.plan # <<>>})
  <2>1. CASE r.goal.trajectory # None
    BY <1>1, <2>1, RowFound
  <2>2. CASE r.goal.trajectory = None
    <3> DEFINE few == {p \in trajectories : p.plan # <<>>}
    <3>1. old = Plan!Newest(few)
      BY <1>1, <2>2 DEF Plan!NewestTrajectory
    <3>2. DatedBy(few, now)
      BY <1>10 DEF DatedBy
    <3>3. few # {} => old \in few
      <4> HIDE DEF few
      <4> QED
        BY <1>10, <3>1, <3>2, NewestIs
    <3>4. few = {} => old = None
      BY <3>1, NewestOfNone
    <3> QED
      BY <2>2, <3>1, <3>3, <3>4
  <2> QED
    BY <2>1, <2>2
<1>13. id \in Nat
  BY <1>2, <1>10, <1>12 DEF Trajectories, Plan!Trajectory
<1>14. /\ new \in Trajectories /\ new.stamp = now + 1 /\ new.id = id
       /\ new.plan = Plan!PlanFor(r.goal, r.outcomes, new.adapted)
       /\ new.adapted = Plan!Adapted(adaptation, old)
  BY <1>2, <1>3, <1>10, <1>11, <1>12, TrajectoryForIs
<1>15. revised \in BOOLEAN /\ written \in BOOLEAN
  BY <1>4, <1>5
<1>16. /\ goal \in Goals /\ goal.id = r.goal.id /\ goal.outcome = r.goal.outcome /\ goal.target = r.goal.target
       /\ IF old = None \/ revised THEN goal.trajectory = id ELSE goal.trajectory = r.goal.trajectory
       /\ goal = r.goal \/ (goal.stamp = now + 1 /\ now' = now + 1)
  <2>1. PICK n \in Nat : n = now + 1
    BY <1>10
  <2>2. /\ dated \in Goals /\ dated.id = r.goal.id /\ dated.outcome = r.goal.outcome /\ dated.stamp = now + 1
        /\ dated.target = r.goal.target /\ dated.trajectory = r.goal.trajectory
    <3>1. dated = [r.goal EXCEPT !.stamp = n]
      BY <1>3, <2>1
    <3> QED
      BY <1>11, <2>1, <3>1 DEF Goals, Plan!Goal
  <2>3. PICK planned : planned = [dated EXCEPT !.trajectory = id]
    OBVIOUS
  <2>4. /\ planned \in Goals /\ planned.id = r.goal.id /\ planned.outcome = r.goal.outcome
        /\ planned.stamp = now + 1 /\ planned.target = r.goal.target /\ planned.trajectory = id
    BY <1>13, <2>2, <2>3 DEF Goals, Plan!Goal, Plan!Made
  <2>5. CASE old = None \/ revised
    BY <1>5, <1>6, <1>7, <1>14, <2>3, <2>4, <2>5
  <2>6. CASE ~(old = None \/ revised) /\ r.created
    BY <1>6, <1>7, <2>2, <2>6
  <2>7. CASE ~(old = None \/ revised) /\ ~r.created
    BY <1>6, <1>11, <2>7
  <2> QED
    BY <2>5, <2>6, <2>7
<1>17. /\ row \in Trajectories /\ (row \in trajectories \/ (row = new /\ now' = now + 1))
  BY <1>5, <1>6, <1>7, <1>10, <1>12, <1>14
<1>18. pc \in {"storing", "noting"} /\ now' \in {now, now + 1} /\ (pc = "storing" <=> written)
  BY <1>6, <1>7, <1>15
<1>19. /\ q \in Requests /\ q.pc = pc /\ q.goal = goal /\ q.trajectory = row /\ q.session = r.session
       /\ q.kind = r.kind /\ q.alone = r.alone /\ q.asked = r.asked
  <2>0. <<>> \in Seq(Plan!Names)
    OBVIOUS
  <2>1. PICK empty \in Seq(Plan!Names) : empty = <<>>
    BY <2>0
  <2>2. pc \in Places
    BY <1>18 DEF Places
  <2>3. PICK mid : mid = [r EXCEPT !.pc = pc, !.goal = goal, !.outcomes = empty]
    OBVIOUS
  <2>4. /\ mid \in Requests /\ mid.pc = pc /\ mid.goal = goal /\ mid.session = r.session
        /\ mid.kind = r.kind /\ mid.alone = r.alone /\ mid.asked = r.asked
    BY <1>9, <1>16, <2>2, <2>3 DEF Requests, Optional
  <2>5. q = [mid EXCEPT !.trajectory = row, !.revised = revised]
    BY <1>6, <1>9, <2>1, <2>3 DEF Requests
  <2> QED
    BY <1>15, <1>17, <2>4, <2>5 DEF Requests, Optional
<1>20. /\ Bears(q.goal, GoalsAbout, Goals) /\ Bears(q.trajectory, TrajectoriesAbout, Trajectories)
       /\ Bears(q.session, SessionsAbout, Controls)
  BY <1>9, <1>10, <1>11, <1>14, <1>16, <1>17, <1>19 DEF Bears
<1>21. Holds(q)'
  BY <1>10, <1>16, <1>17, <1>18, <1>19 DEF Holds
<1>22. ASSUME Shows(q) PROVE OnCourse(q)'
  <2>1. Continues(r) /\ Leads(goals, r.goal) /\ r.outcomes = progress
    BY <1>7, <1>9, <1>19, <1>22 DEF Shows, OnCourse
  <2>2. Continues(q)'
    BY <1>7, <1>19, <2>1 DEF Continues
  <2>3. Leads(goals', q.goal)
    BY <1>7, <1>10, <1>16, <1>19, <2>1 DEF Leads, DatedBy
  <2>4. \A like : /\ like # None /\ like.adapted = new.adapted /\ like.plan = new.plan
                 => IsPlannedFor(goal, like)
    <3>1. new.plan = Plan!PlanFor(goal, progress, new.adapted)
      BY <1>14, <1>16, <2>1, PlanForSame
    <3>2. \A like : like # None /\ like.adapted = new.adapted => Plan!Adapted(adaptation, like) = new.adapted
      BY <1>10, <1>12, <1>14, AdaptedIs
    <3> QED
      BY <3>1, <3>2 DEF IsPlannedFor
  <2>5. ASSUME written PROVE Planned(Plan!Upsert(trajectories, row), q)
    <3>1. row = new
      BY <1>6, <2>5
    <3>2. PICK after : after = Plan!Upsert(trajectories, new)
      OBVIOUS
    <3>3. new \in after /\ Keyed(after)
      BY <1>10, <3>2, UpsertIs
    <3>4. TrajectoryOf(after, goal) = new
      <4>1. CASE goal.trajectory # None
        <5>1. goal.trajectory = new.id
          <6>1. CASE old = None \/ revised
            BY <1>14, <1>16, <6>1
          <6>2. CASE ~(old = None \/ revised)
            BY <1>2, <1>12, <1>14, <1>16, <4>1, <6>2
          <6> QED
            BY <6>1, <6>2
        <5> QED
          BY <3>3, <4>1, <5>1, RowIs DEF TrajectoryOf
      <4>2. CASE goal.trajectory = None
        <5>1. ~(old = None \/ revised) /\ r.goal.trajectory = None
          BY <1>10, <1>13, <1>16, <4>2
        <5>2. old.plan # <<>> /\ old.plan = new.plan
          BY <1>4, <1>12, <5>1 DEF Plan!Changed
        <5>3. Plan!Newest({p \in Plan!Upsert(trajectories, new) : p.plan # <<>>}) = new
          BY <1>10, <1>14, <5>2, NewestPlanned
        <5> QED
          BY <3>2, <4>2, <5>3 DEF TrajectoryOf
      <4> QED
        BY <4>1, <4>2
    <3> QED
      BY <1>10, <1>14, <1>19, <2>4, <3>1, <3>2, <3>4 DEF Planned
  <2>6. ASSUME ~written PROVE Planned(trajectories, q)
    <3>1. old # None /\ ~revised /\ old.adapted = new.adapted /\ row = old
      BY <1>5, <1>6, <2>6
    <3>2. old.plan = new.plan
      BY <1>4, <3>1 DEF Plan!Changed
    <3>3. goal.trajectory = r.goal.trajectory
      BY <1>16, <3>1
    <3>4. TrajectoryOf(trajectories, goal) = old
      BY <1>1, <3>3 DEF TrajectoryOf, Plan!NewestTrajectory
    <3> QED
      BY <1>14, <1>19, <2>4, <3>1, <3>2, <3>4 DEF Planned
  <2>7. /\ written => Planned(Plan!Upsert(trajectories, q.trajectory), q)'
        /\ ~written => Planned(trajectories, q)'
    BY <1>7, <1>19, <2>5, <2>6 DEF Planned, IsPlannedFor, TrajectoryOf
  <2> QED
    BY <1>18, <1>19, <2>2, <2>3, <2>7 DEF OnCourse
<1>23. /\ DOMAIN thread' = Threads /\ thread'[t] = q
       /\ \A u \in Threads : u # t => Alike(thread'[u], thread[u])
       /\ \A u \in Working : u # t => ~thread'[u].alone
       /\ q.alone => \A u \in Working : u = t
  BY <1>1, <1>7, <1>8, <1>19, BecomeIs
<1> QED
  BY <1>7, <1>18, <1>19, <1>20, <1>21, <1>22, <1>23, StoresStand, StepKeeps

LEMMA StoreTrajectoryKeeps ==
    ASSUME Plan!PlanningAssumption, PlanInv, NEW t \in Threads, Plan!StoreTrajectory(t) PROVE PlanInv'
<1>1. PICK r, q : r = thread[t] /\ q = [r EXCEPT !.pc = "noting"]
  OBVIOUS
<1>2. /\ r.pc = "storing" /\ trajectories' = Plan!Upsert(trajectories, r.trajectory)
      /\ thread' = [thread EXCEPT ![t] = q] /\ settled' = FALSE
      /\ goals' = goals /\ sessions' = sessions /\ now' = now
      /\ moved' = moved /\ progress' = progress /\ adaptation' = adaptation
  BY <1>1 DEF Plan!StoreTrajectory, Plan!Become, Plan!At, Plan!learner
<1>3. t \in Working
  BY <1>1, <1>2 DEF Working, Plan!Busy, Plan!At
<1>4. r \in Requests /\ Holds(r) /\ (r.goal # None => r.goal \in GoalsAbout)
      /\ (r.trajectory # None => r.trajectory \in TrajectoriesAbout)
      /\ (r.session # None => r.session \in SessionsAbout) /\ (Shows(r) => OnCourse(r))
  BY <1>1, <1>3, HeldAbout
<1>5. r.goal # None /\ r.trajectory # None
  BY <1>2, <1>4 DEF Holds
<1>6. /\ q \in Requests /\ q.pc = "noting" /\ q.goal = r.goal /\ q.trajectory = r.trajectory
      /\ q.session = r.session /\ q.kind = r.kind /\ q.alone = r.alone /\ q.asked = r.asked
  BY <1>1, <1>4 DEF Requests, Places
<1>7. /\ Bears(q.goal, GoalsAbout, Goals) /\ Bears(q.trajectory, TrajectoriesAbout, Trajectories)
      /\ Bears(q.session, SessionsAbout, Controls)
  BY <1>4, <1>6 DEF Bears
<1>8. Holds(q)'
  BY <1>5, <1>6 DEF Holds
<1>9. ASSUME Shows(q) PROVE OnCourse(q)'
  <2>1. Continues(r) /\ Leads(goals, r.goal) /\ Planned(Plan!Upsert(trajectories, r.trajectory), r)
    BY <1>2, <1>4, <1>6, <1>9 DEF Shows, OnCourse
  <2>2. Planned(trajectories', q)
    BY <1>2, <1>6, <2>1 DEF Planned
  <2>3. Planned(trajectories, q)'
    BY <1>2, <2>2 DEF Planned, IsPlannedFor, TrajectoryOf
  <2>4. Continues(q)' /\ Leads(goals', q.goal)
    BY <1>2, <1>6, <2>1 DEF Continues
  <2> QED
    BY <1>6, <2>3, <2>4 DEF OnCourse
<1>10. /\ DOMAIN thread' = Threads /\ thread'[t] = q
       /\ \A u \in Threads : u # t => Alike(thread'[u], thread[u])
       /\ \A u \in Working : u # t => ~thread'[u].alone
       /\ q.alone => \A u \in Working : u = t
  BY <1>1, <1>2, <1>3, <1>6, BecomeIs
<1>11. /\ trajectories' \subseteq TrajectoriesAbout /\ Keyed(trajectories')
  BY <1>2, <1>4, <1>5, StoresStand, UpsertIs
<1> QED
  BY <1>2, <1>6, <1>7, <1>8, <1>9, <1>10, <1>11, StoresStand, StepKeeps

\* What is shown stays what it was when nothing it is read from changes.
LEMMA ShownSame ==
    ASSUME goals' = goals, trajectories' = trajectories, progress' = progress, adaptation' = adaptation
    PROVE  /\ Plan!ShownGoal' = Plan!ShownGoal /\ Plan!ShownTrajectory' = Plan!ShownTrajectory
           /\ Current' <=> Current
           /\ \A s : Fits(s)' <=> Fits(s)
<1>1. Plan!ShownGoal' = Plan!ShownGoal
  BY DEF Plan!ShownGoal
<1>2. Plan!NewestTrajectory' = Plan!NewestTrajectory
  BY DEF Plan!NewestTrajectory
<1>3. Plan!ShownTrajectory' = Plan!ShownTrajectory
  BY <1>1, <1>2 DEF Plan!ShownTrajectory
<1>4. Current' <=> Current
  BY <1>1, <1>3 DEF Current, IsPlannedFor
<1> QED
  BY <1>1, <1>3, <1>4 DEF Fits

LEMMA StoreGoalKeeps ==
    ASSUME Plan!PlanningAssumption, PlanInv, NEW t \in Threads, Plan!StoreGoal(t) PROVE PlanInv'
<1>1. PICK r, q : r = thread[t] /\ q = Plan!AfterPlanning(r)
  OBVIOUS
<1>2. /\ r.pc = "noting" /\ goals' = Plan!Upsert(goals, r.goal)
      /\ trajectories' = trajectories /\ sessions' = sessions /\ now' = now
      /\ moved' = moved /\ progress' = progress /\ adaptation' = adaptation
      /\ \/ /\ r.kind = "set" /\ thread' = [thread EXCEPT ![t] = Gone]
            /\ settled' = (r.alone /\ r.kind \in Plan!Views)
         \/ r.kind # "set" /\ thread' = [thread EXCEPT ![t] = q] /\ settled' = FALSE
  BY <1>1 DEF Plan!StoreGoal, Plan!Become, Plan!End, Plan!At, Plan!learner, Gone
<1>3. t \in Working
  BY <1>1, <1>2 DEF Working, Plan!Busy, Plan!At
<1>4. r \in Requests /\ Holds(r) /\ (r.goal # None => r.goal \in GoalsAbout)
      /\ (r.trajectory # None => r.trajectory \in TrajectoriesAbout)
      /\ (r.session # None => r.session \in SessionsAbout) /\ (Shows(r) => OnCourse(r))
  BY <1>1, <1>3, HeldAbout
<1>5. r.goal # None /\ r.trajectory # None
  BY <1>2, <1>4 DEF Holds
<1>6. /\ goals' \subseteq GoalsAbout /\ Keyed(goals') /\ goals' # {}
  BY <1>2, <1>4, <1>5, StoresStand, UpsertIs
<1>7. CASE r.kind = "set"
  <2>1. thread' = [thread EXCEPT ![t] = Gone] /\ ~settled'
    BY <1>2, <1>7 DEF Plan!Views
  <2>2. /\ DOMAIN thread' = Threads /\ thread'[t] = Gone
        /\ \A u \in Threads : u # t => Alike(thread'[u], thread[u])
        /\ \A u \in Working : u # t => ~thread'[u].alone
    BY <1>3, <2>1, BecomeIs
  <2>3. Gone \notin Requests
    BY DEF Gone, Requests
  <2> QED
    BY <1>2, <1>6, <2>1, <2>2, <2>3, StoresStand, StepKeeps
<1>8. CASE r.kind # "set"
  <2>1. /\ q \in Requests
        /\ q.kind = r.kind /\ q.asked = r.asked /\ q.alone = r.alone /\ q.session = r.session /\ ~q.first
        /\ IF r.first THEN q.pc = "planning" /\ q.goal = None /\ q.trajectory = None /\ ~q.revised
           ELSE q.pc = "binding" /\ q.goal = r.goal /\ q.trajectory = r.trajectory
    BY <1>1, <1>4, AfterPlanningIs DEF Requests
  <2>2. /\ Bears(q.goal, GoalsAbout, Goals) /\ Bears(q.trajectory, TrajectoriesAbout, Trajectories)
        /\ Bears(q.session, SessionsAbout, Controls)
    BY <1>4, <2>1 DEF Bears
  <2>3. Holds(q)'
    BY <1>5, <1>6, <2>1 DEF Holds
  <2>4. ASSUME Shows(q) PROVE OnCourse(q)'
    <3>1. Continues(r) /\ Leads(goals, r.goal) /\ Planned(trajectories, r)
      BY <1>2, <1>4, <2>1, <2>4 DEF Shows, OnCourse
    <3>2. Continues(q)'
      BY <1>2, <2>1, <3>1 DEF Continues
    <3>3. CASE r.first
      BY <2>1, <3>2, <3>3 DEF OnCourse
    <3>4. CASE ~r.first
      <4>1. /\ now \in Nat /\ DatedBy(goals, now) /\ GoalsAbout \subseteq Goals
        BY StoresStand
      <4>2. r.goal.stamp \in Nat
        BY <1>4, <1>5, <4>1 DEF Goals, Plan!Goal
      <4>3. Plan!Newest(goals') = r.goal
        BY <1>2, <3>1, <4>1, <4>2, LeaderIsNewest
      <4>4. Plan!ShownGoal' = r.goal
        BY <4>3 DEF Plan!ShownGoal
      <4>5. Planned(trajectories, q)'
        BY <1>2, <2>1, <3>1, <3>4 DEF Planned, IsPlannedFor, TrajectoryOf
      <4> QED
        BY <1>5, <2>1, <3>2, <3>4, <4>4, <4>5 DEF OnCourse
    <3> QED
      BY <3>3, <3>4
  <2>5. /\ DOMAIN thread' = Threads /\ thread'[t] = q
        /\ \A u \in Threads : u # t => Alike(thread'[u], thread[u])
        /\ \A u \in Working : u # t => ~thread'[u].alone
        /\ q.alone => \A u \in Working : u = t
    BY <1>1, <1>2, <1>3, <1>8, <2>1, BecomeIs
  <2> QED
    BY <1>2, <1>6, <1>8, <2>1, <2>2, <2>3, <2>4, <2>5, StoresStand, StepKeeps
<1> QED
  BY <1>7, <1>8

-----------------------------------------------------------------------------
(* The session of a request.                                                *)

\* What a request that shows the plan meets when it looks for its session.
LEMMA BindingMeets ==
    ASSUME Plan!PlanningAssumption, PlanInv, NEW t \in Working, NEW r, r = thread[t],
           r.pc = "binding", Shows(r), NEW old,
           old = IF r.asked # None THEN Plan!ById(sessions, r.asked) ELSE Plan!Newest(sessions)
    PROVE  /\ Current
           /\ IF r.goal = None THEN Plan!ShownGoal = None /\ goals = {} /\ r.trajectory = None
              ELSE /\ Plan!ShownGoal = r.goal
                   /\ r.trajectory # None /\ Plan!ShownTrajectory = r.trajectory
           /\ old = Plan!Newest(sessions)
           /\ IF sessions = {} THEN old = None /\ r.asked = None ELSE old \in sessions /\ old # None
           /\ r.asked # None => old.id = r.asked
<1>1. r \in Requests /\ Holds(r) /\ OnCourse(r)
  BY HeldAbout
<1>2. /\ now \in Nat /\ sessions \subseteq SessionsAbout /\ SessionsAbout \subseteq Controls
      /\ Keyed(sessions) /\ DatedBy(sessions, now) /\ None \notin Controls
  BY StoresStand, Names
<1>3. Continues(r) /\ IF r.goal = None THEN goals = {} ELSE Plan!ShownGoal = r.goal /\ Planned(trajectories, r)
  BY <1>1 DEF OnCourse
<1>4. IF r.goal = None THEN r.trajectory = None ELSE r.trajectory # None
  BY <1>1 DEF Holds
<1>5. r.goal = None => Plan!ShownGoal = None
  BY <1>3, NewestOfNone DEF Plan!ShownGoal
<1>6. r.goal # None => /\ Plan!ShownTrajectory = r.trajectory
                       /\ IsPlannedFor(r.goal, r.trajectory)
  BY <1>3 DEF Planned, TrajectoryOf, Plan!ShownTrajectory, Plan!NewestTrajectory
<1>7. Current
  BY <1>3, <1>4, <1>5, <1>6 DEF Current
<1>8. CASE sessions = {}
  BY <1>3, <1>4, <1>5, <1>6, <1>7, <1>8, NewestOfNone DEF Continues
<1>9. CASE sessions # {}
  <2>1. PICK top : top = Plan!Newest(sessions)
    OBVIOUS
  <2>2. top \in sessions /\ top # None
    BY <1>2, <1>9, <2>1, NewestIs
  <2>3. r.asked # None => top.id = r.asked
    BY <1>3, <2>1 DEF Continues
  <2>4. Plan!ById(sessions, top.id) = top
    BY <1>2, <2>2, RowIs
  <2> QED
    BY <1>3, <1>4, <1>5, <1>6, <1>7, <1>9, <2>1, <2>2, <2>3, <2>4
<1> QED
  BY <1>8, <1>9

\* A session is kept for it.
LEMMA KeepKeeps ==
    ASSUME Plan!PlanningAssumption, PlanInv, NEW t \in Working, NEW r, r = thread[t], NEW s, NEW q,
           q = [Plan!Bound(r) EXCEPT !.pc = "keeping", !.session = s],
           thread' = [thread EXCEPT ![t] = q], settled' = FALSE, now' = now + 1,
           goals' = goals, trajectories' = trajectories, sessions' = sessions,
           moved' = moved, progress' = progress, adaptation' = adaptation,
           ~r.first, s \in Controls, s.stamp = now + 1, Rooted(s),
           Shows(r) => Current /\ Fits(s), r.asked # None => s.id = r.asked
    PROVE  PlanInv'
<1>1. r \in Requests
  BY HeldAbout
<1>2. PICK b : b = Plan!Bound(r)
  OBVIOUS
<1>3. /\ b \in Requests /\ b.kind = r.kind /\ b.asked = r.asked /\ b.alone = r.alone /\ b.first = r.first
      /\ b.goal = None /\ b.trajectory = None /\ b.revised = FALSE
  BY <1>1, <1>2, BoundIs
<1>4. q = [b EXCEPT !.pc = "keeping", !.session = s]
  BY <1>2
<1>5. /\ q \in Requests /\ q.kind = r.kind /\ q.asked = r.asked /\ q.alone = r.alone /\ ~q.first
      /\ q.goal = None /\ q.trajectory = None /\ ~q.revised /\ q.pc = "keeping" /\ q.session = s
  BY <1>3, <1>4 DEF Requests, Optional, Places
<1>6. s # None /\ now \in Nat /\ DatedBy(sessions, now)
  BY StoresStand, Names
<1>7. /\ Bears(q.goal, GoalsAbout, Goals) /\ Bears(q.trajectory, TrajectoriesAbout, Trajectories)
      /\ Bears(q.session, SessionsAbout, Controls)
  BY <1>5 DEF Bears
<1>8. Holds(q)'
  BY <1>5, <1>6 DEF Holds, Rooted
<1>9. ASSUME Shows(q) PROVE OnCourse(q)'
  <2>1. Current /\ Fits(s)
    BY <1>5, <1>9 DEF Shows
  <2>2. Current' /\ Fits(q.session)'
    BY <1>5, <2>1, ShownSame
  <2>3. Leads(sessions, s)
    BY <1>6 DEF Leads, DatedBy
  <2> QED
    BY <1>5, <2>2, <2>3 DEF OnCourse
<1>10. /\ t \in Threads /\ DOMAIN thread' = Threads /\ thread'[t] = q
       /\ \A u \in Threads : u # t => Alike(thread'[u], thread[u])
       /\ \A u \in Working : u # t => ~thread'[u].alone
       /\ q.alone => \A u \in Working : u = t
  BY <1>5, BecomeIs
<1> QED
  BY <1>5, <1>7, <1>8, <1>9, <1>10, StoresStand, StepKeeps

\* It goes on: to its end, to a request for content or to content itself.
LEMMA GoOnIs ==
    ASSUME Plan!PlanningAssumption, PlanInv, NEW t \in Working, NEW r, r = thread[t], NEW session,
           session = None \/ session \in Controls, Plan!GoOn(t, session)
    PROVE  \/ thread' = [thread EXCEPT ![t] = Gone] /\ (settled' <=> Shows(r))
           \/ /\ ~settled'
              /\ \E q \in Requests :
                    /\ thread' = [thread EXCEPT ![t] = q]
                    /\ q.kind = r.kind /\ (q.alone <=> r.alone) /\ (q.first <=> r.first)
                    /\ q.goal = None /\ q.trajectory = None /\ ~q.revised /\ q.session = None
                    /\ r.kind # "overview" /\ q.pc \in {"planning", "generating"}
                    /\ q.pc = "planning" => r.asked = None /\ session # None /\ q.asked = session.id
                    /\ q.pc = "generating" /\ r.kind = "load" => r.asked # None /\ q.asked = r.asked
<1>1. r \in Requests
  BY HeldAbout
<1>2. PICK opening \in BOOLEAN : opening = (r.kind = "load" /\ r.asked = None)
  <2>1. (r.kind = "load" /\ r.asked = None) \in BOOLEAN
    OBVIOUS
  <2> QED
    BY <2>1
<1>3. PICK b : b = Plan!Bound(r)
  OBVIOUS
<1>4. /\ b \in Requests /\ b.kind = r.kind /\ b.asked = r.asked /\ b.alone = r.alone /\ b.first = r.first
      /\ b.target = r.target
      /\ b.goal = None /\ b.trajectory = None /\ b.revised = FALSE /\ b.session = None
  BY <1>1, <1>3, BoundIs
<1>5. CASE r.kind = "overview" \/ (opening /\ (session = None \/ session.begun))
  <2>1. Plan!End(t)
    BY <1>2, <1>5 DEF Plan!GoOn
  <2> QED
    BY <2>1 DEF Plan!End, Gone, Shows
<1>6. CASE ~(r.kind = "overview" \/ (opening /\ (session = None \/ session.begun)))
  <2>1. PICK pc, asked, target :
            /\ pc = IF opening THEN "planning" ELSE "generating"
            /\ asked = IF r.asked = None /\ session # None THEN session.id ELSE r.asked
            /\ target = IF r.target = None /\ session # None THEN session.target ELSE r.target
    OBVIOUS
  <2>2. PICK q : q = [b EXCEPT !.pc = pc, !.asked = asked, !.target = target]
    OBVIOUS
  <2>3. Plan!Become(t, [b EXCEPT !.pc = IF opening THEN "planning" ELSE "generating",
                !.asked = IF @ = None /\ session # None THEN session.id ELSE @,
                !.target = IF @ = None /\ session # None THEN session.target ELSE @])
    BY <1>2, <1>3, <1>6 DEF Plan!GoOn
  <2>4. Plan!Become(t, q)
    BY <1>4, <2>1, <2>2, <2>3
  <2>5. pc \in Places /\ pc \in {"planning", "generating"}
    BY <2>1 DEF Places
  <2>6. asked \in Asks /\ target \in Plan!Names
    BY <1>1, <2>1 DEF Requests, Asks, Optional, Controls, Plan!Session
  <2>7. /\ q \in Requests /\ q.kind = r.kind /\ (q.alone <=> r.alone) /\ (q.first <=> r.first)
        /\ q.goal = None /\ q.trajectory = None /\ ~q.revised /\ q.session = None
        /\ q.pc = pc /\ q.asked = asked
    BY <1>4, <2>2, <2>5, <2>6 DEF Requests
  <2>8. thread' = [thread EXCEPT ![t] = q] /\ settled' = FALSE
    BY <2>4 DEF Plan!Become
  <2> QED
    BY <1>2, <1>6, <2>1, <2>5, <2>7, <2>8
<1> QED
  BY <1>5, <1>6

LEMMA GoOnKeeps ==
    ASSUME Plan!PlanningAssumption, PlanInv, NEW t \in Working, NEW r, r = thread[t], NEW session,
           session = None \/ session \in Controls, Plan!GoOn(t, session), ~r.first,
           now' = now, goals' = goals, trajectories' = trajectories,
           moved' = moved, progress' = progress, adaptation' = adaptation,
           sessions' \subseteq SessionsAbout, Keyed(sessions'), \A s \in sessions' : s \in sessions \/ Rooted(s)',
           Shows(r) => /\ Current
                       /\ IF session = None THEN sessions' = {} /\ r.asked = None
                          ELSE /\ sessions' # {} /\ Plan!Newest(sessions') = session /\ Fits(session)
                               /\ r.asked # None => session.id = r.asked
    PROVE  PlanInv'
<1>1. t \in Threads
  BY DEF Working, Plan!Busy
<1>2. r \in Requests
  BY HeldAbout
<1>3. CASE thread' = [thread EXCEPT ![t] = Gone] /\ (settled' <=> Shows(r))
  <2>1. /\ DOMAIN thread' = Threads /\ thread'[t] = Gone
        /\ \A u \in Threads : u # t => Alike(thread'[u], thread[u])
        /\ \A u \in Working : u # t => ~thread'[u].alone
    BY <1>3, BecomeIs
  <2>2. Gone \notin Requests
    BY DEF Gone, Requests
  <2>3. ASSUME settled' PROVE Good'
    <3>1. Current /\ (sessions' = {} \/ Fits(Plan!Newest(sessions')))
      BY <1>3, <2>3
    <3>2. Current'
      BY <3>1, ShownSame
    <3>3. PICK top : top = Plan!Newest(sessions')
      OBVIOUS
    <3>4. sessions' = {} \/ Fits(top)'
      BY <3>1, <3>3, ShownSame
    <3> QED
      BY <3>2, <3>3, <3>4 DEF Good, Fits
  <2> QED
    BY <1>1, <2>1, <2>2, <2>3, StoresStand, StepKeeps
<1>4. ASSUME ~settled', NEW q \in Requests,
             thread' = [thread EXCEPT ![t] = q],
             q.kind = r.kind, q.alone <=> r.alone, q.first <=> r.first,
             q.goal = None, q.trajectory = None, ~q.revised, q.session = None,
             r.kind # "overview", q.pc \in {"planning", "generating"},
             q.pc = "planning" => r.asked = None /\ session # None /\ q.asked = session.id,
             q.pc = "generating" /\ r.kind = "load" => r.asked # None /\ q.asked = r.asked
      PROVE  PlanInv'
  <2>1. /\ DOMAIN thread' = Threads /\ thread'[t] = q
        /\ \A u \in Threads : u # t => Alike(thread'[u], thread[u])
        /\ \A u \in Working : u # t => ~thread'[u].alone
        /\ q.alone => \A u \in Working : u = t
    BY <1>4, BecomeIs
  <2>2. /\ Bears(q.goal, GoalsAbout, Goals) /\ Bears(q.trajectory, TrajectoriesAbout, Trajectories)
        /\ Bears(q.session, SessionsAbout, Controls)
    BY <1>4 DEF Bears
  <2>3. Holds(q)'
    BY <1>4 DEF Holds
  <2>4. ASSUME Shows(q) PROVE OnCourse(q)'
    <3>1. Shows(r) /\ r.kind = "load"
      BY <1>4, <2>4 DEF Shows, Plan!Views
    <3>2. /\ q.asked # None => /\ sessions' # {} /\ Plan!Newest(sessions').id = q.asked
                               /\ Fits(Plan!Newest(sessions'))
          /\ q.pc = "generating" => q.asked # None
      BY <1>4, <3>1
    <3>3. Continues(q)'
      BY <3>2 DEF Continues
    <3>4. Current'
      BY <3>1, ShownSame
    <3>5. q.pc = "generating" => Fits(Plan!Newest(sessions))'
      <4>1. PICK top : top = Plan!Newest(sessions')
        OBVIOUS
      <4>2. q.pc = "generating" => Fits(top)'
        BY <3>2, <4>1, ShownSame
      <4> QED
        BY <4>1, <4>2 DEF Fits
    <3> QED
      BY <1>4, <3>2, <3>3, <3>4, <3>5 DEF OnCourse
  <2> QED
    BY <1>1, <1>4, <2>1, <2>2, <2>3, <2>4, StoresStand, StepKeeps
<1>5. \/ thread' = [thread EXCEPT ![t] = Gone] /\ (settled' <=> Shows(r))
      \/ /\ ~settled'
         /\ \E q \in Requests :
                /\ thread' = [thread EXCEPT ![t] = q]
                /\ q.kind = r.kind /\ (q.alone <=> r.alone) /\ (q.first <=> r.first)
                /\ q.goal = None /\ q.trajectory = None /\ ~q.revised /\ q.session = None
                /\ r.kind # "overview" /\ q.pc \in {"planning", "generating"}
                /\ q.pc = "planning" => r.asked = None /\ session # None /\ q.asked = session.id
                /\ q.pc = "generating" /\ r.kind = "load" => r.asked # None /\ q.asked = r.asked
  BY GoOnIs
<1> QED
  BY <1>3, <1>4, <1>5

\* A session made from the plan names the goal and the trajectory the request has.
LEMMA FromPlanIs ==
    ASSUME Plan!PlanningAssumption, PlanInv, NEW t \in Working, NEW r, r = thread[t], r.pc = "binding",
           NEW id \in Nat \cup Sessions, NEW target \in Plan!Names, NEW s, s = Plan!FromPlan(r, id, target)
    PROVE  /\ s \in Controls /\ s.id = id /\ s.stamp = now + 1 /\ Rooted(s)
           /\ IF r.goal = None THEN s.goal = None /\ s.trajectory = None
              ELSE s.goal = r.goal.id /\ s.trajectory = r.trajectory.id
<1>1. r \in Requests /\ Holds(r)
  BY HeldAbout
<1>2. /\ now \in Nat /\ None \in Plan!Names /\ None \in Plan!Made
      /\ None \notin Goals /\ None \notin Trajectories
  BY StoresStand, Names DEF Plan!Made
<1>3. IF r.goal = None THEN r.trajectory = None ELSE r.trajectory # None /\ goals # {}
  BY <1>1 DEF Holds
<1>4. /\ r.goal # None => r.goal.id \in Nat /\ r.goal.target \in Plan!Names
      /\ r.trajectory # None => /\ r.trajectory.id \in Nat /\ r.trajectory.nodes \in Nat
                                /\ r.trajectory.plan # <<>> => Head(r.trajectory.plan).target \in Plan!Names
  <2>1. r.goal # None => r.goal \in Goals
    BY <1>1 DEF Requests, Optional
  <2>2. r.trajectory # None => r.trajectory \in Trajectories
    BY <1>1 DEF Requests, Optional
  <2>3. PICK N : N = Plan!PlanNode
    OBVIOUS
  <2>4. r.trajectory # None => /\ r.trajectory.id \in Nat /\ r.trajectory.nodes \in Nat
                               /\ r.trajectory.plan \in Seq(N)
    BY <2>2, <2>3 DEF Trajectories, Plan!Trajectory
  <2>5. r.trajectory # None /\ r.trajectory.plan # <<>> => Head(r.trajectory.plan) \in N
    BY <2>4
  <2> QED
    BY <2>1, <2>3, <2>4, <2>5 DEF Goals, Plan!Goal, Plan!PlanNode
<1>5. PICK goal, trajectory, nodes, aim :
        /\ goal = IF r.goal # None THEN r.goal.id ELSE None
        /\ trajectory = IF r.trajectory # None THEN r.trajectory.id ELSE None
        /\ nodes = IF r.trajectory # None /\ r.trajectory.plan # <<>> THEN r.trajectory.nodes ELSE None
        /\ aim = IF target # None THEN target
                 ELSE IF r.trajectory # None /\ r.trajectory.plan # <<>>
                 THEN Head(r.trajectory.plan).target
                 ELSE IF r.goal # None THEN r.goal.target ELSE None
  OBVIOUS
<1>6. s = [id |-> id, stamp |-> now + 1, begun |-> FALSE, goal |-> goal, trajectory |-> trajectory,
           nodes |-> nodes, target |-> aim]
  BY <1>5 DEF Plan!FromPlan
<1>7. goal \in Plan!Made /\ trajectory \in Plan!Made /\ nodes \in Plan!Made /\ aim \in Plan!Names
  BY <1>2, <1>4, <1>5 DEF Plan!Made
<1>8. s \in Controls /\ s.id = id /\ s.stamp = now + 1
  BY <1>2, <1>6, <1>7 DEF Controls, Plan!Session
<1> QED
  BY <1>3, <1>5, <1>6, <1>8 DEF Rooted

LEMMA BindKeeps ==
    ASSUME Plan!PlanningAssumption, PlanInv, NEW t \in Threads, Plan!Bind(t) PROVE PlanInv'
<1>1. PICK r, old : /\ r = thread[t]
                    /\ old = IF r.asked # None THEN Plan!ById(sessions, r.asked) ELSE Plan!Newest(sessions)
  OBVIOUS
<1>2. /\ r.pc = "binding"
      /\ goals' = goals /\ trajectories' = trajectories /\ sessions' = sessions
      /\ moved' = moved /\ progress' = progress /\ adaptation' = adaptation
  BY <1>1 DEF Plan!Bind, Plan!At, Plan!stores, Plan!learner
<1>3. t \in Working
  BY <1>1, <1>2 DEF Working, Plan!Busy, Plan!At
<1>4. r \in Requests /\ Holds(r) /\ ~r.first
  BY <1>1, <1>2, <1>3, HeldAbout DEF Holds
<1>5. Shows(r) =>
           /\ Current
           /\ IF r.goal = None THEN Plan!ShownGoal = None /\ goals = {} /\ r.trajectory = None
              ELSE /\ Plan!ShownGoal = r.goal
                   /\ r.trajectory # None /\ Plan!ShownTrajectory = r.trajectory
           /\ old = Plan!Newest(sessions)
           /\ IF sessions = {} THEN old = None /\ r.asked = None ELSE old \in sessions /\ old # None
           /\ r.asked # None => old.id = r.asked
  BY <1>1, <1>2, <1>3, BindingMeets
<1>6. /\ now \in Nat /\ sessions \subseteq SessionsAbout /\ SessionsAbout \subseteq Controls /\ Keyed(sessions)
      /\ None \notin Goals /\ None \notin Controls /\ None \notin Nat \cup Sessions
      /\ None \in Plan!Names /\ DatedBy(sessions, now) /\ \A s \in sessions : Rooted(s)
  BY StoresStand, Names
<1>7. old # None => /\ old \in sessions /\ old \in Controls /\ Rooted(old)
                    /\ r.asked # None => old.id = r.asked
  <2>1. CASE r.asked # None
    BY <1>1, <1>6, <2>1, RowFound
  <2>2. CASE r.asked = None
    BY <1>1, <1>6, <2>2, NewestIs, NewestOfNone
  <2> QED
    BY <2>1, <2>2
<1>8. r.asked = None \/ r.asked \in Nat \cup Sessions
  BY <1>4 DEF Requests, Asks, Optional
<1>9. r.target \in Plan!Names
  BY <1>4 DEF Requests
<1>10. ASSUME NEW s, NEW id \in Nat \cup Sessions, NEW target \in Plan!Names,
              s = Plan!FromPlan(r, id, target), r.asked # None => id = r.asked,
              now' = now + 1, Plan!Become(t, [Plan!Bound(r) EXCEPT !.pc = "keeping", !.session = s])
       PROVE  PlanInv'
  <2>1. /\ s \in Controls /\ s.id = id /\ s.stamp = now + 1 /\ Rooted(s)
        /\ IF r.goal = None THEN s.goal = None /\ s.trajectory = None
           ELSE s.goal = r.goal.id /\ s.trajectory = r.trajectory.id
    BY <1>1, <1>2, <1>3, <1>10, FromPlanIs
  <2>2. r.goal # None => r.goal \in Goals
    BY <1>4 DEF Requests, Optional
  <2>3. Shows(r) => Current /\ Fits(s)
    BY <1>5, <2>1, <2>2 DEF Fits
  <2>4. PICK q : q = [Plan!Bound(r) EXCEPT !.pc = "keeping", !.session = s]
    OBVIOUS
  <2>5. thread' = [thread EXCEPT ![t] = q] /\ settled' = FALSE
    BY <1>10, <2>4 DEF Plan!Become
  <2> QED
    BY <1>1, <1>2, <1>3, <1>4, <1>10, <2>1, <2>3, <2>4, <2>5, KeepKeeps
<1>11. CASE old = None /\ r.goal = None /\ r.target = None
  <2>1. Plan!GoOn(t, None) /\ now' = now
    BY <1>1, <1>11 DEF Plan!Bind
  <2>2. Shows(r) => Current /\ sessions = {} /\ r.asked = None
    BY <1>5, <1>11
  <2> QED
    BY <1>1, <1>2, <1>3, <1>4, <1>6, <2>1, <2>2, GoOnKeeps
<1>12. CASE old = None /\ ~(r.goal = None /\ r.target = None)
  <2>1. PICK id : id = IF r.asked # None THEN r.asked ELSE now + 1
    OBVIOUS
  <2>2. /\ now' = now + 1
        /\ Plan!Become(t, [Plan!Bound(r) EXCEPT !.pc = "keeping", !.session = Plan!FromPlan(r, id, r.target)])
    BY <1>1, <1>12, <2>1 DEF Plan!Bind
  <2>3. id \in Nat \cup Sessions /\ (r.asked # None => id = r.asked)
    BY <1>6, <1>8, <2>1
  <2> QED
    BY <1>9, <1>10, <2>2, <2>3
<1>13. CASE old # None /\ Plan!Stale(r, old)
  <2>1. PICK target : target = IF r.target # None THEN r.target ELSE old.target
    OBVIOUS
  <2>2. /\ now' = now + 1
        /\ Plan!Become(t, [Plan!Bound(r) EXCEPT !.pc = "keeping", !.session = Plan!FromPlan(r, old.id, target)])
    BY <1>1, <1>13, <2>1 DEF Plan!Bind
  <2>3. old.id \in Nat \cup Sessions /\ target \in Plan!Names /\ (r.asked # None => old.id = r.asked)
    BY <1>7, <1>9, <1>13, <2>1 DEF Controls, Plan!Session
  <2> QED
    BY <1>10, <2>2, <2>3
<1>14. ASSUME old # None, ~Plan!Stale(r, old), Shows(r) PROVE Current /\ Fits(old)
  <2>1. CASE r.goal = None
    <3>1. goals = {} /\ Rooted(old)
      BY <1>5, <1>7, <1>14, <2>1
    <3> QED
      BY <1>5, <1>14, <3>1 DEF Fits, Rooted
  <2>2. CASE r.goal # None
    <3>1. Plan!ShownGoal = r.goal /\ r.trajectory # None /\ Plan!ShownTrajectory = r.trajectory /\ Current
      BY <1>5, <1>14, <2>2
    <3>2. old.goal \in {None, r.goal.id} /\ old.trajectory \in {None, r.trajectory.id}
      BY <1>14, <2>2, <3>1 DEF Plan!Stale
    <3> QED
      BY <2>2, <3>1, <3>2 DEF Fits
  <2> QED
    BY <2>1, <2>2
<1>15. CASE old # None /\ ~Plan!Stale(r, old) /\ r.target # None
  <2>1. PICK n \in Nat, aim \in Plan!Names : n = now + 1 /\ aim = r.target
    BY <1>6, <1>9
  <2>2. PICK s : s = [old EXCEPT !.target = aim, !.stamp = n]
    OBVIOUS
  <2>3. /\ s \in Controls /\ s.id = old.id /\ s.stamp = now + 1
        /\ s.goal = old.goal /\ s.trajectory = old.trajectory
    BY <1>7, <1>15, <2>1, <2>2 DEF Controls, Plan!Session
  <2>4. PICK q : q = [Plan!Bound(r) EXCEPT !.pc = "keeping", !.session = s]
    OBVIOUS
  <2>5. now' = now + 1 /\ thread' = [thread EXCEPT ![t] = q] /\ settled' = FALSE
    BY <1>1, <1>15, <2>1, <2>2, <2>4 DEF Plan!Bind, Plan!Become
  <2>6. Rooted(s) /\ (Shows(r) => Current /\ Fits(s)) /\ (r.asked # None => s.id = r.asked)
    BY <1>7, <1>14, <1>15, <2>3 DEF Rooted, Fits
  <2> QED
    BY <1>1, <1>2, <1>3, <1>4, <2>3, <2>4, <2>5, <2>6, KeepKeeps
<1>16. CASE old # None /\ ~Plan!Stale(r, old) /\ r.target = None
  <2>1. Plan!GoOn(t, old) /\ now' = now
    BY <1>1, <1>16 DEF Plan!Bind
  <2>2. Shows(r) => /\ Current
                    /\ sessions # {} /\ Plan!Newest(sessions) = old /\ Fits(old)
                    /\ r.asked # None => old.id = r.asked
    BY <1>5, <1>14, <1>16
  <2> QED
    BY <1>1, <1>2, <1>3, <1>4, <1>6, <1>7, <1>16, <2>1, <2>2, GoOnKeeps
<1> QED
  BY <1>11, <1>12, <1>13, <1>15, <1>16

\* The session a request keeps is the newest once it is stored.
LEMMA SessionStored ==
    ASSUME Plan!PlanningAssumption, PlanInv, NEW t \in Working, NEW r, r = thread[t],
           r.pc \in {"keeping", "saving"}, sessions' = Plan!Upsert(sessions, r.session), goals' = goals
    PROVE  /\ r.session \in Controls /\ r.session # None
           /\ sessions' # {} /\ sessions' \subseteq SessionsAbout /\ Keyed(sessions')
           /\ \A s \in sessions' : s \in sessions \/ Rooted(s)'
           /\ Leads(sessions, r.session) => Plan!Newest(sessions') = r.session
<1>1. Holds(r) /\ (r.session # None => r.session \in SessionsAbout)
  BY HeldAbout
<1>2. r.session # None /\ Rooted(r.session)
  BY <1>1 DEF Holds
<1>3. /\ now \in Nat /\ sessions \subseteq SessionsAbout /\ SessionsAbout \subseteq Controls
      /\ Keyed(sessions) /\ DatedBy(sessions, now)
  BY StoresStand
<1>4. /\ r.session \in sessions' /\ Keyed(sessions')
      /\ \A s \in sessions' : s = r.session \/ s \in sessions
  BY <1>3, UpsertIs
<1>5. r.session \in Controls /\ r.session.stamp \in Nat
  BY <1>1, <1>2, <1>3 DEF Controls, Plan!Session
<1>6. Leads(sessions, r.session) => Plan!Newest(sessions') = r.session
  BY <1>3, <1>5, LeaderIsNewest
<1>7. \A s \in sessions' : s \in sessions \/ Rooted(s)'
  BY <1>2, <1>4 DEF Rooted
<1> QED
  BY <1>1, <1>2, <1>3, <1>4, <1>5, <1>6, <1>7

LEMMA StoreSessionKeeps ==
    ASSUME Plan!PlanningAssumption, PlanInv, NEW t \in Threads, Plan!StoreSession(t) PROVE PlanInv'
<1>1. PICK r : r = thread[t]
  OBVIOUS
<1>2. /\ r.pc = "keeping" /\ sessions' = Plan!Upsert(sessions, r.session) /\ Plan!GoOn(t, r.session)
      /\ goals' = goals /\ trajectories' = trajectories /\ now' = now
      /\ moved' = moved /\ progress' = progress /\ adaptation' = adaptation
  BY <1>1 DEF Plan!StoreSession, Plan!At, Plan!learner
<1>3. t \in Working
  BY <1>1, <1>2 DEF Working, Plan!Busy, Plan!At
<1>4. Holds(r) /\ (Shows(r) => OnCourse(r)) /\ ~r.first
  BY <1>1, <1>2, <1>3, HeldAbout DEF Holds
<1>5. /\ r.session \in Controls /\ r.session # None
      /\ sessions' # {} /\ sessions' \subseteq SessionsAbout /\ Keyed(sessions')
      /\ \A s \in sessions' : s \in sessions \/ Rooted(s)'
      /\ Leads(sessions, r.session) => Plan!Newest(sessions') = r.session
  BY <1>1, <1>2, <1>3, SessionStored
<1>6. Shows(r) => /\ Current /\ Plan!Newest(sessions') = r.session /\ Fits(r.session)
                  /\ r.asked # None => r.session.id = r.asked
  BY <1>2, <1>4, <1>5 DEF OnCourse
<1>7. PICK session : session = r.session
  OBVIOUS
<1> QED
  BY <1>1, <1>2, <1>3, <1>4, <1>5, <1>6, <1>7, GoOnKeeps

LEMMA GeneratedKeeps ==
    ASSUME Plan!PlanningAssumption, PlanInv, NEW t \in Threads, Plan!Generated(t) PROVE PlanInv'
<1>1. PICK r, old : r = thread[t] /\ old = IF r.asked = None THEN None ELSE Plan!ById(sessions, r.asked)
  OBVIOUS
<1>2. PICK id : id = IF r.asked # None THEN r.asked ELSE now + 1
  OBVIOUS
<1>3. PICK base : base = IF old # None THEN old
                ELSE [id |-> id, stamp |-> now + 1, begun |-> TRUE, goal |-> None, trajectory |-> None,
                      nodes |-> None, target |-> r.target]
  OBVIOUS
<1>4. PICK s : s = [base EXCEPT !.target = r.target, !.begun = TRUE, !.stamp = now + 1]
  OBVIOUS
<1>5. PICK q : q = [r EXCEPT !.pc = "saving", !.session = s]
  OBVIOUS
<1>6. /\ r.pc = "generating" /\ now' = now + 1 /\ thread' = [thread EXCEPT ![t] = q] /\ settled' = FALSE
      /\ goals' = goals /\ trajectories' = trajectories /\ sessions' = sessions
      /\ moved' = moved /\ progress' = progress /\ adaptation' = adaptation
  BY <1>1, <1>2, <1>3, <1>4, <1>5 DEF Plan!Generated, Plan!Become, Plan!At, Plan!stores, Plan!learner
<1>7. t \in Working
  BY <1>1, <1>6 DEF Working, Plan!Busy, Plan!At
<1>8. /\ r \in Requests /\ Holds(r) /\ (r.goal # None => r.goal \in GoalsAbout)
      /\ (r.trajectory # None => r.trajectory \in TrajectoriesAbout)
      /\ (Shows(r) => OnCourse(r))
  BY <1>1, <1>7, HeldAbout
<1>9. /\ now \in Nat /\ sessions \subseteq SessionsAbout /\ SessionsAbout \subseteq Controls
      /\ Keyed(sessions) /\ DatedBy(sessions, now) /\ None \notin Controls
      /\ \A x \in sessions : Rooted(x)
  BY StoresStand, Names
<1>10. old # None => old \in sessions /\ old \in Controls /\ Rooted(old)
  BY <1>1, <1>9, RowFound
<1>11. r.asked \in Asks /\ r.target \in Plan!Names
  BY <1>8 DEF Requests
<1>12. id \in Nat \cup Sessions
  BY <1>2, <1>9, <1>11 DEF Asks, Optional
<1>13. base \in Controls /\ Rooted(base)
  BY <1>3, <1>9, <1>10, <1>11, <1>12 DEF Controls, Plan!Session, Plan!Made, Rooted
<1>14. /\ s \in Controls /\ s.stamp = now + 1 /\ s.goal = base.goal /\ s.trajectory = base.trajectory
       /\ s.id = base.id
  <2>1. PICK n \in Nat, aim \in Plan!Names : n = now + 1 /\ aim = r.target
    BY <1>9, <1>11
  <2>2. s = [base EXCEPT !.target = aim, !.begun = TRUE, !.stamp = n]
    BY <1>4, <2>1
  <2> QED
    BY <1>13, <2>1, <2>2 DEF Controls, Plan!Session
<1>15. s # None /\ Rooted(s)
  BY <1>9, <1>13, <1>14 DEF Rooted
<1>16. /\ q \in Requests /\ q.kind = r.kind /\ q.alone = r.alone /\ q.goal = r.goal
       /\ q.trajectory = r.trajectory /\ q.pc = "saving" /\ q.session = s
  BY <1>5, <1>8, <1>14 DEF Requests, Optional, Places
<1>17. /\ Bears(q.goal, GoalsAbout, Goals) /\ Bears(q.trajectory, TrajectoriesAbout, Trajectories)
       /\ Bears(q.session, SessionsAbout, Controls)
  BY <1>6, <1>8, <1>14, <1>16 DEF Bears
<1>18. Holds(q)'
  BY <1>6, <1>15, <1>16 DEF Holds, Rooted
<1>19. ASSUME Shows(q) PROVE OnCourse(q)'
  <2>1. Shows(r)
    BY <1>16, <1>19 DEF Shows
  <2>2. Current /\ r.asked # None /\ Continues(r) /\ Fits(Plan!Newest(sessions))
    BY <1>6, <1>8, <2>1 DEF OnCourse
  <2>3. PICK top : top = Plan!Newest(sessions)
    OBVIOUS
  <2>4. sessions # {} /\ top.id = r.asked
    BY <2>2, <2>3 DEF Continues
  <2>5. top \in sessions
    BY <1>9, <2>3, <2>4, NewestIs
  <2>6. Plan!ById(sessions, top.id) = top
    BY <1>9, <2>5, RowIs
  <2>7. base = top
    BY <1>1, <1>3, <1>9, <2>2, <2>4, <2>5, <2>6
  <2>8. Fits(s)
    BY <1>14, <2>2, <2>3, <2>7 DEF Fits
  <2>9. Current' /\ Fits(q.session)'
    BY <1>6, <1>16, <2>2, <2>8, ShownSame
  <2>10. Leads(sessions', q.session)
    BY <1>6, <1>9, <1>14, <1>16 DEF Leads, DatedBy
  <2> QED
    BY <1>16, <2>9, <2>10 DEF OnCourse
<1>20. /\ DOMAIN thread' = Threads /\ thread'[t] = q
       /\ \A u \in Threads : u # t => Alike(thread'[u], thread[u])
       /\ \A u \in Working : u # t => ~thread'[u].alone
       /\ q.alone => \A u \in Working : u = t
  BY <1>1, <1>6, <1>7, <1>16, BecomeIs
<1> QED
  BY <1>6, <1>16, <1>17, <1>18, <1>19, <1>20, StoresStand, StepKeeps

\* A request that is done has shown the plan, if it shows it.
LEMMA EndKeeps ==
    ASSUME Plan!PlanningAssumption, PlanInv, NEW t \in Working, Plan!End(t),
           now' = now, goals' = goals, trajectories' = trajectories,
           moved' = moved, progress' = progress, adaptation' = adaptation,
           sessions' \subseteq SessionsAbout, Keyed(sessions'), \A s \in sessions' : s \in sessions \/ Rooted(s)',
           Shows(thread[t]) => Current /\ (sessions' = {} \/ Fits(Plan!Newest(sessions')))
    PROVE  PlanInv'
<1>1. thread' = [thread EXCEPT ![t] = Gone] /\ (settled' <=> Shows(thread[t]))
  BY DEF Plan!End, Gone, Shows
<1>2. /\ t \in Threads /\ DOMAIN thread' = Threads /\ thread'[t] = Gone
      /\ \A u \in Threads : u # t => Alike(thread'[u], thread[u])
      /\ \A u \in Working : u # t => ~thread'[u].alone
  BY <1>1, BecomeIs
<1>3. Gone \notin Requests
  BY DEF Gone, Requests
<1>4. ASSUME settled' PROVE Good'
  <2>1. Current'
    BY <1>1, <1>4, ShownSame
  <2>2. PICK top : top = Plan!Newest(sessions')
    OBVIOUS
  <2>3. sessions' = {} \/ Fits(top)'
    BY <1>1, <1>4, <2>2, ShownSame
  <2> QED
    BY <2>1, <2>2, <2>3 DEF Good, Fits
<1> QED
  BY <1>2, <1>3, <1>4, StoresStand, StepKeeps

LEMMA SaveAnswerKeeps ==
    ASSUME Plan!PlanningAssumption, PlanInv, NEW t \in Threads, Plan!SaveAnswer(t) PROVE PlanInv'
<1>1. PICK r : r = thread[t]
  OBVIOUS
<1>2. /\ r.pc = "saving" /\ sessions' = Plan!Upsert(sessions, r.session) /\ Plan!End(t)
      /\ goals' = goals /\ trajectories' = trajectories /\ now' = now
      /\ moved' = moved /\ progress' = progress /\ adaptation' = adaptation
  BY <1>1 DEF Plan!SaveAnswer, Plan!At, Plan!learner
<1>3. t \in Working
  BY <1>1, <1>2 DEF Working, Plan!Busy, Plan!At
<1>4. Shows(r) => OnCourse(r)
  BY <1>1, <1>3, HeldAbout
<1>5. /\ sessions' # {} /\ sessions' \subseteq SessionsAbout /\ Keyed(sessions')
      /\ \A s \in sessions' : s \in sessions \/ Rooted(s)'
      /\ Leads(sessions, r.session) => Plan!Newest(sessions') = r.session
  BY <1>1, <1>2, <1>3, SessionStored
<1>6. Shows(r) => Current /\ Fits(Plan!Newest(sessions'))
  BY <1>2, <1>4, <1>5 DEF OnCourse
<1> QED
  BY <1>1, <1>2, <1>3, <1>5, <1>6, EndKeeps

LEMMA GenerationFailsKeeps ==
    ASSUME Plan!PlanningAssumption, PlanInv, NEW t \in Threads, Plan!GenerationFails(t) PROVE PlanInv'
<1>1. PICK r : r = thread[t]
  OBVIOUS
<1>2. /\ r.pc = "generating" /\ Plan!End(t) /\ sessions' = sessions
      /\ goals' = goals /\ trajectories' = trajectories /\ now' = now
      /\ moved' = moved /\ progress' = progress /\ adaptation' = adaptation
  BY <1>1 DEF Plan!GenerationFails, Plan!At, Plan!learner, Plan!stores
<1>3. t \in Working
  BY <1>1, <1>2 DEF Working, Plan!Busy, Plan!At
<1>4. Shows(r) => OnCourse(r)
  BY <1>1, <1>3, HeldAbout
<1>5. Shows(r) => Current /\ Fits(Plan!Newest(sessions'))
  BY <1>2, <1>4 DEF OnCourse
<1> QED
  BY <1>1, <1>2, <1>3, <1>5, StoresStand, EndKeeps

-----------------------------------------------------------------------------
(* What is promised.                                                        *)

LEMMA PlanStutters ==
    ASSUME PlanInv, UNCHANGED Plan!vars PROVE PlanInv'
<1>1. /\ goals' = goals /\ trajectories' = trajectories /\ sessions' = sessions /\ now' = now
      /\ thread' = thread /\ settled' = settled
      /\ moved' = moved /\ progress' = progress /\ adaptation' = adaptation
  BY DEF Plan!vars, Plan!learner, Plan!stores, Plan!bounds
<1>2. Working' = Working
  BY <1>1 DEF Working, Plan!Busy, Plan!At
<1>3. Typed' /\ Held' /\ Single'
  BY <1>1, <1>2 DEF PlanInv, Typed, Held, Holds, Rooted, Single
<1>4. GoalsAbout' = GoalsAbout /\ TrajectoriesAbout' = TrajectoriesAbout /\ SessionsAbout' = SessionsAbout
  BY <1>1, <1>2 DEF GoalsAbout, TrajectoriesAbout, SessionsAbout
<1>5. Tables'
  BY <1>1, <1>4 DEF PlanInv, Tables
<1>6. (Current' <=> Current) /\ \A s : Fits(s)' <=> Fits(s)
  BY <1>1, ShownSame
<1>7. settled' => Good'
  <2>1. PICK top : top = Plan!Newest(sessions)
    OBVIOUS
  <2>2. settled' => Current' /\ (sessions = {} \/ Fits(top)')
    BY <1>1, <1>6, <2>1 DEF PlanInv, Good
  <2> QED
    BY <1>1, <2>1, <2>2 DEF Good, Fits
<1>8. ASSUME NEW t \in Working', Shows(thread[t])' PROVE OnCourse(thread[t])'
  <2>1. OnCourse(thread[t])
    BY <1>1, <1>2, <1>8 DEF PlanInv, Shows, Plan!Views
  <2>2. PICK r, top : r = thread[t] /\ top = Plan!Newest(sessions)
    OBVIOUS
  <2>3. OnCourse(r)
    BY <2>1, <2>2
  <2>4. /\ Fits(r.session)' <=> Fits(r.session)
        /\ Fits(top)' <=> Fits(top)
        /\ Current' <=> Current
        /\ Plan!ShownGoal' = Plan!ShownGoal
    BY <1>1, ShownSame
  <2>5. Fits(Plan!Newest(sessions))' <=> Fits(Plan!Newest(sessions))
    BY <1>1, <2>2, <2>4 DEF Fits
  <2>6. OnCourse(r)'
    BY <1>1, <2>3, <2>4, <2>5 DEF OnCourse, Continues, Planned, IsPlannedFor, TrajectoryOf
  <2> QED
    BY <1>1, <2>2, <2>6 DEF OnCourse, Continues, Planned, IsPlannedFor, TrajectoryOf
<1> QED
  BY <1>3, <1>5, <1>7, <1>8 DEF PlanInv

LEMMA PlanSteps ==
    ASSUME Plan!PlanningAssumption, PlanInv, [Plan!Next]_(Plan!vars) PROVE PlanInv'
<1>1. CASE Plan!Move
  BY <1>1, MoveKeeps
<1>2. CASE UNCHANGED Plan!vars
  BY <1>2, PlanStutters
<1>3. ASSUME NEW t \in Threads, Plan!Arrive(t) \/ Plan!Work(t) \/ Plan!Die(t) PROVE PlanInv'
  <2>1. CASE Plan!Work(t)
    BY <2>1, ReadGoalKeeps, CompareKeeps, StoreTrajectoryKeeps, StoreGoalKeeps, BindKeeps,
       StoreSessionKeeps, GeneratedKeeps, SaveAnswerKeeps, GenerationFailsKeeps DEF Plan!Work
  <2> QED
    BY <1>3, <2>1, ArriveKeeps, DieKeeps
<1> QED
  BY <1>1, <1>2, <1>3 DEF Plan!Next

LEMMA PlanAlways ==
    ASSUME Plan!PlanningAssumption PROVE Plan!Spec => []PlanInv
<1>1. Plan!Init => PlanInv
  BY PlanStarts
<1>2. PlanInv /\ [Plan!Next]_(Plan!vars) => PlanInv'
  BY PlanSteps
<1> QED
  BY <1>1, <1>2, PTL DEF Plan!Spec

\* Planning's reading of what is shown is that of its promises.
LEMMA SameReading ==
    /\ ShownGoal = Plan!ShownGoal /\ ShownTrajectory = Plan!ShownTrajectory
    /\ Newest(sessions) = Plan!Newest(sessions)
    /\ \A said, old : Adapted(said, old) = Plan!Adapted(said, old)
    /\ \A goal, outcomes, adapted : PlanFor(goal, outcomes, adapted) = Plan!PlanFor(goal, outcomes, adapted)
<1>1. \A rows : Newest(rows) = Plan!Newest(rows)
  BY DEF Newest, Plan!Newest
<1>2. \A rows, id : ById(rows, id) = Plan!ById(rows, id)
  BY DEF ById, Plan!ById
<1>3. ShownGoal = Plan!ShownGoal /\ NewestTrajectory = Plan!NewestTrajectory
  BY <1>1 DEF ShownGoal, Plan!ShownGoal, NewestTrajectory, Plan!NewestTrajectory
<1>4. ShownTrajectory = Plan!ShownTrajectory
  BY <1>2, <1>3 DEF ShownTrajectory, Plan!ShownTrajectory
<1>5. \A goal, outcomes, adapted : PlanFor(goal, outcomes, adapted) = Plan!PlanFor(goal, outcomes, adapted)
  BY DEF PlanFor, Plan!PlanFor, Node, Plan!Node
<1>6. \A said, old : Adapted(said, old) = Plan!Adapted(said, old)
  BY DEF Adapted, Plan!Adapted
<1> QED
  BY <1>1, <1>3, <1>4, <1>5, <1>6

THEOREM SessionsFollowGoals ==
    ASSUME Plan!PlanningAssumption PROVE Plan!Spec => []SessionFollowsGoal
<1>1. PlanInv => SessionFollowsGoal
  <2> SUFFICES ASSUME PlanInv, settled, Newest(sessions) # None
               PROVE  LET session == Newest(sessions)
                      IN  /\ session.goal # None => ShownGoal # None /\ session.goal = ShownGoal.id
                          /\ session.trajectory # None =>
                                ShownTrajectory # None /\ session.trajectory = ShownTrajectory.id
    BY DEF SessionFollowsGoal
  <2>1. sessions # {}
    BY DEF Newest
  <2>2. Fits(Plan!Newest(sessions))
    BY <2>1 DEF PlanInv, Good
  <2> QED
    BY <2>2, SameReading DEF Fits
<1> QED
  BY <1>1, PlanAlways, PTL

THEOREM PlansAreCurrent ==
    ASSUME Plan!PlanningAssumption PROVE Plan!Spec => []PlanIsCurrent
<1>1. PlanInv => PlanIsCurrent
  <2> SUFFICES ASSUME PlanInv, settled, ShownGoal # None
               PROVE  /\ ShownTrajectory # None
                      /\ ShownTrajectory.adapted = Adapted(adaptation, ShownTrajectory)
                      /\ ShownTrajectory.plan = PlanFor(ShownGoal, progress, ShownTrajectory.adapted)
    BY DEF PlanIsCurrent
  <2>1. Current
    BY DEF PlanInv, Good
  <2> QED
    BY <2>1, SameReading DEF Current, IsPlannedFor
<1> QED
  BY <1>1, PlanAlways, PTL
=============================================================================
