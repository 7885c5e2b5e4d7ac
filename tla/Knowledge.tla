----------------------------- MODULE Knowledge ------------------------------
(***************************************************************************)
(* What the service believes a learner knows: a mastery per knowledge      *)
(* component and per outcome, in hundredths, none where nothing is known.  *)
(* Observations and Socratic dialogues are blended into it and carried to  *)
(* the components around.  The profile is one row that a request reads     *)
(* first and writes back whole at its end, which is long after when a      *)
(* question had to be generated in between.  Weights are in millionths.    *)
(* Components are alike in difficulty and time, so that relations between  *)
(* two of them differ by their distance only.  The program computes with   *)
(* floating-point numbers: a tie may fall a hundredth to the other side.   *)
(***************************************************************************)
EXTENDS Evidence

CONSTANTS
    Components,    \* the knowledge components, in the order of the store
    Outcome,       \* the outcome each belongs to
    Prerequisites, \* the set of components each builds on
    Difficulty,    \* of every component, in hundredths
    Tie,           \* the strength of a relation, in hundredths
    Work,          \* observations: Evidence's fields, task, content, session,
                   \* generation ("none" for none), kcs and los
    Dialogues,     \* what an assessment found: [mastery, strength, score, kcs, los]
    Durable,       \* what the learner's history adds to a weight, in ten-thousandths
    Profiles,      \* profiles a learner may be registered with: [kc, lo]
    Window,        \* how many observations list_recent returns
    MaxRequests,   \* requests that are followed
    Threads

KCs == ToSet(Components)

\* The components n relations away from kc; two are joined by paths of one length.
Below(kc) ==
    LET at[n \in Nat] == IF n = 0 THEN {kc} ELSE UNION {Prerequisites[k] : k \in at[n - 1]}
    IN  [n \in 1..Len(Components) |-> at[n]]
Above(kc) == [n \in 1..Len(Components) |-> {k \in KCs : kc \in Below(k)[n]}]

\* What the constants must be.  A number of components is their distance at most.
KnowledgeAssumption ==
    /\ MaxRequests \in Nat /\ Window \in Nat \ {0}
    /\ \A k \in KCs : Prerequisites[k] \subseteq KCs
    /\ \A k \in KCs : \A n, m \in 1..Len(Components) :
         n /= m => Below(k)[n] \cap Below(k)[m] = {}

VARIABLES
    row,      \* the learner's profile
    observed, \* the learner's newest observations, newest first
    thread,   \* what each request is doing
    requests  \* requests begun

vars == <<row, observed, thread, requests>>

Nothing == [kc |-> <<>>, lo |-> <<>>]
Silent == [source |-> "none", mastery |-> 0, strength |-> "insufficient", weight |-> 0,
           kcs |-> <<>>, los |-> <<>>]
Idle == [pc |-> "idle", base |-> Nothing, evidence |-> Silent]

Init ==
    /\ row \in Profiles /\ observed = <<>> /\ requests = 0
    /\ thread = [t \in Threads |-> Idle]

At(t, pc) == thread[t].pc = pc

With(f, k, v) == [x \in DOMAIN f \cup {k} |-> IF x = k THEN v ELSE f[x]]
Overlaid(f, g) == [x \in DOMAIN f \cup DOMAIN g |-> IF x \in DOMAIN g THEN g[x] ELSE f[x]]

Rounded(parts, unit) == (parts + unit \div 2) \div unit
Blend(prior, seen, weight) ==
    Clamp(0, 100, Rounded(prior * (1000000 - weight) + seen * weight, 1000000))

-----------------------------------------------------------------------------
\* How much an observation weighs, in ten-thousandths: by its strength, support
\* and link, and by what the newest observations of the same targets add up to.
BaseWeight == [insufficient |-> 14, emerging |-> 24, demonstrated |-> 34]
SupportFactor == [low |-> 100, medium |-> 90, high |-> 78]
LinkFactor == [generation |-> 100, session |-> 92, targets |-> 80]

\* What makes the learner's own work count; without a generation or a session it
\* has to be strong.
Exercise(o) == o.task \in {"practice", "remediation"}
StrongAlone(o) ==
    /\ o.content = "exercise" /\ o.completed /\ o.support /= "high"
    /\ o.errors <= 2 /\ o.confidence = 2

Linkage(o) ==
    LET targeted == Exercise(o) /\ (o.kcs /= <<>> \/ o.los /= <<>>)
        placed == o.generation /= "none" \/ o.session /= "none"
    IN  CASE targeted /\ o.generation /= "none" -> "generation"
          [] targeted /\ o.generation = "none" /\ o.session /= "none" -> "session"
          [] targeted /\ ~placed /\ StrongAlone(o) -> "targets"
          [] OTHER -> "none"

Overlaps(o, p) == ToSet(o.kcs) \cap ToSet(p.kcs) /= {} \/ ToSet(o.los) \cap ToSet(p.los) /= {}
SharesLink(o, p) ==
    \/ o.session /= "none" /\ p.session = o.session
    \/ o.generation /= "none" /\ p.generation = o.generation

\* Work that no session and no generation links has none, not even itself.
Supporting(o, recent) ==
    Newest(3, SelectSeq(recent, LAMBDA p : Exercise(p) /\ Overlaps(o, p) /\ SharesLink(o, p)))

HowMany(Pred(_), s) == Len(SelectSeq(s, Pred))

Bonuses(o, recent) ==
    LET support == Supporting(o, recent)
        leaning == HowMany(HighSupportSuccess, support)
    IN  (IF o.completed THEN 400 ELSE 0) + (IF o.confidence = 2 THEN 300 ELSE 0)
          + Max({0, 8 * (InferredMastery(o) - 60)})
          + (IF Len(support) >= 2 /\ Average(support) >= 62 THEN 400 ELSE 0)
          + (IF Len(support) >= 2 /\ HowMany(LowSupportSuccess, support) >= 2
                   /\ Average(support) >= 68 THEN 500 ELSE 0)
          - (IF leaning >= 2 THEN 400 ELSE 0)
          - (IF leaning >= 1 /\ o.support = "high" THEN 200 ELSE 0)

ObservationWeight(o, recent, durable) ==
    Clamp(800, 4200,
          Rounded(BaseWeight[Strength(o)] * SupportFactor[o.support] * LinkFactor[Linkage(o)], 100)
            + Bonuses(o, recent) + durable)

\* How much an assessment weighs.
DialogueWeight(d) ==
    Min({7200, [insufficient |-> 2000, emerging |-> 3800, demonstrated |-> 5800][d.strength]
                 + 12 * d.score})

\* Evidence against what was believed weighs less, the stronger it is, and a
\* high mastery is hardly raised by observations.
Caution == [observation |-> [demonstrated |-> 28, emerging |-> 54, insufficient |-> 86],
            dialogue |-> [demonstrated |-> 20, emerging |-> 50, insufficient |-> 90]]

Factor(e, prior) ==
    IF e.mastery < prior THEN Caution[e.source][e.strength]
    ELSE IF e.source = "observation" /\ prior > 85 THEN Max({40, 100 - 6 * (prior - 85)})
    ELSE 100

Revised(e, values, k) ==
    IF k \in DOMAIN values THEN Blend(values[k], e.mastery, e.weight * Factor(e, values[k]))
    ELSE e.mastery

Direct(e, values, targets) == [k \in ToSet(targets) |-> Revised(e, values, k)]

-----------------------------------------------------------------------------
\* Outcomes and their components.
Mean(values, keys) == \* in ten-thousandths
    (100 * FoldSet(LAMBDA k, sum : values[k] + sum, 0, keys)) \div Cardinality(keys)

ComponentWeight(k) == 1250 + (7 * Difficulty) \div 2 + 120 * Cardinality(Prerequisites[k])

Members(lo) == {k \in KCs : Outcome[k] = lo}

WeightedOutcome(lo, kc) ==
    LET known == Members(lo) \cap DOMAIN kc
        total == FoldSet(LAMBDA k, sum : ComponentWeight(k) + sum, 0, known)
    IN  Rounded(FoldSet(LAMBDA k, sum : kc[k] * ComponentWeight(k) + sum, 0, known), total)

\* What the outcome, the prerequisites and the siblings let expect of a component.
Estimate(k, lo, kc) ==
    LET below == Prerequisites[k] \cap DOMAIN kc
        beside == (Members(Outcome[k]) \ {k}) \cap DOMAIN kc
    IN  Clamp(0, 100, Rounded(
            5500 * lo + 30 * (IF below = {} THEN 100 * lo ELSE Mean(kc, below))
              + 15 * (IF beside = {} THEN 100 * lo ELSE Mean(kc, beside))
              - 800 * Difficulty, 10000))

Backfilled(k, lo, kc) ==
    IF k \in DOMAIN kc THEN Blend(kc[k], Estimate(k, lo, kc), 320000) ELSE Estimate(k, lo, kc)

\* The outcomes in the order given, their components in the store's, each seen by
\* those that follow.
BackfillOutcome(kc, lo, outcome, direct) ==
    FoldLeft(LAMBDA values, k : With(values, k, Backfilled(k, lo[outcome], values)),
             kc, SelectSeq(Components, LAMBDA k : Outcome[k] = outcome /\ k \notin direct))

Backfill(kc, lo, order, direct) ==
    FoldLeft(LAMBDA values, o : IF o \in DOMAIN lo THEN BackfillOutcome(values, lo, o, direct) ELSE values,
             kc, order)

-----------------------------------------------------------------------------
\* How much of it reaches a component n relations away.
PathWeight(decay) ==
    LET path[n \in Nat] == IF n = 0 THEN 1000 ELSE Rounded(path[n - 1] * Tie * decay, 10000)
    IN  path
DepthDecay(decay) ==
    LET power[n \in Nat] == IF n <= 1 THEN 100 ELSE (power[n - 1] * decay) \div 100
    IN  power

RelationWeight(share, decay, n) ==
    Clamp(120000, 500000,
          (share * (100 + Min({18, (18 * Difficulty) \div 100})) * Max({450, PathWeight(decay)[n]})
             * DepthDecay(decay)[n]) \div 1000)

\* Believed of a component with no mastery of its own.
PriorBelow(kc, p) == IF p \in DOMAIN kc THEN kc[p] ELSE 50

Distances == 1..Len(Components)

\* Mutant: a prerequisite that is known better is drawn along.
ReachedAll(kc, k, mastery, strength) ==
    IF strength /= "demonstrated" \/ mastery < 70 THEN {}
    ELSE {<<p, n>> \in KCs \X Distances : p \in Below(k)[n]}

\* What was demonstrated well was built on its prerequisites.
ReachedBelow(kc, k, mastery, strength) ==
    IF strength /= "demonstrated" \/ mastery < 70 THEN {}
    ELSE {<<p, n>> \in KCs \X Distances :
            p \in Below(k)[n] /\ Min({100, mastery + 5}) > PriorBelow(kc, p)}

Propped(kc, k, mastery, strength) ==
    LET reached == ReachedBelow(kc, k, mastery, strength)
    IN  [p \in {r[1] : r \in reached} |->
            LET n == CHOOSE m \in Distances : <<p, m>> \in reached
            IN  Blend(PriorBelow(kc, p), Min({100, mastery + 5}), RelationWeight(28, 84, n))]

\* What was not shown casts doubt on what builds on it.
ReachedAbove(kc, k, mastery, strength) ==
    IF strength = "demonstrated" THEN {}
    ELSE {<<d, n>> \in (DOMAIN kc) \X Distances :
            d \in Above(k)[n] /\ kc[d] > Min({100, mastery + 12})}

Doubted(kc, k, mastery, strength) ==
    LET reached == ReachedAbove(kc, k, mastery, strength)
    IN  [d \in {r[1] : r \in reached} |->
            LET n == CHOOSE m \in Distances : <<d, m>> \in reached
            IN  Blend(kc[d], Min({100, mastery + 12}), RelationWeight(24, 80, n))]

\* All that follows from the direct updates, none of which sees another's.
Propagated(kc, direct, e) ==
    FoldLeft(LAMBDA updates, k :
                 IF k \notin KCs THEN updates
                 ELSE Overlaid(Overlaid(updates, Propped(kc, k, direct[k], e.strength)),
                               Doubted(kc, k, direct[k], e.strength)),
             <<>>, e.kcs)

Affected(los, touched) == ToSet(los) \cup {Outcome[k] : k \in touched \cap KCs}

\* Mutant: the outcomes of what was only propagated to are forgotten.
TouchedDirectly(before, filled, updates, direct) == direct

\* What has another value, or was found to keep it by a propagation.
Touched(before, filled, updates, direct) ==
    direct \cup DOMAIN updates
        \cup {k \in DOMAIN filled : k \notin DOMAIN before \/ filled[k] /= before[k]}

\* The whole update: blend, backfill, propagate, and add the outcomes up again.
\* The outcomes are those of a Python set, in any order.
Orders(e) == SetToSeqs(Affected(e.los, ToSet(e.kcs)))

Migrated(profile, e, order) ==
    LET direct == Direct(e, profile.kc, e.kcs)
        lo == Overlaid(profile.lo, Direct(e, profile.lo, e.los))
        kc == Overlaid(profile.kc, direct)
        filled == Backfill(kc, lo, order, DOMAIN direct)
        updates == Propagated(filled, direct, e)
        known == Overlaid(filled, updates)
        outcomes == {o \in Affected(e.los, Touched(kc, filled, updates, DOMAIN direct)) :
                        Members(o) \cap DOMAIN known /= {}}
    IN  [kc |-> known, lo |-> Overlaid(lo, [o \in outcomes |-> WeightedOutcome(o, known)])]

WritesBack(e) == e.source /= "none" /\ (e.kcs /= <<>> \/ e.los /= <<>>)

-----------------------------------------------------------------------------
\* What an observation is worth.
Weighed(o, recent, durable) ==
    IF Linkage(o) = "none" THEN Silent
    ELSE [source |-> "observation", mastery |-> InferredMastery(o), strength |-> Strength(o),
          kcs |-> o.kcs, los |-> o.los, weight |-> ObservationWeight(o, recent, durable)]

\* The profile is read.
BeginObservation(t) ==
    /\ At(t, "idle") /\ requests < MaxRequests
    /\ \E o \in Work :
         thread' = [thread EXCEPT ![t] = [pc |-> "observing", base |-> row, evidence |-> o]]
    /\ requests' = requests + 1
    /\ UNCHANGED <<row, observed>>

\* The observation is stored, the newest are listed and the observation is weighed.
AppendObservation(t) ==
    /\ At(t, "observing")
    /\ LET o == thread[t].evidence
           recent == Newest(Window, <<o>> \o observed)
       IN  /\ observed' = recent
           /\ \E durable \in Durable :
                thread' = [thread EXCEPT ![t].pc = "writing",
                                         ![t].evidence = Weighed(o, recent, durable)]
    /\ UNCHANGED <<row, requests>>

\* The profile is read, the answer scored, and the next question generated.
BeginDialogue(t) ==
    /\ At(t, "idle") /\ requests < MaxRequests
    /\ \E d \in Dialogues :
         thread' = [thread EXCEPT ![t] = [pc |-> "writing", base |-> row, evidence |->
             [source |-> "dialogue", mastery |-> d.mastery, strength |-> d.strength,
              kcs |-> d.kcs, los |-> d.los, weight |-> DialogueWeight(d)]]]
    /\ requests' = requests + 1
    /\ UNCHANGED <<row, observed>>

\* The profile that was read goes back with what the evidence makes of it; after
\* an observation also when that is nothing, for the traits it changes.
WriteBack(t) ==
    /\ At(t, "writing")
    /\ LET seen == thread[t].evidence
       IN  \/ /\ WritesBack(seen)
              /\ \E order \in Orders(seen) : row' = Migrated(thread[t].base, seen, order)
           \/ ~WritesBack(seen) /\ seen.source /= "dialogue" /\ row' = thread[t].base
           \/ ~WritesBack(seen) /\ seen.source = "dialogue" /\ UNCHANGED row
    /\ thread' = [thread EXCEPT ![t] = Idle]
    /\ UNCHANGED <<observed, requests>>

\* The profile is replaced by a declared one.
UpsertProfile ==
    /\ requests < MaxRequests /\ requests' = requests + 1
    /\ row' \in Profiles
    /\ UNCHANGED <<observed, thread>>

\* A request dies, or no question could be generated.
Die(t) ==
    /\ thread[t] /= Idle /\ thread' = [thread EXCEPT ![t] = Idle]
    /\ UNCHANGED <<row, observed, requests>>

Next ==
    \/ UpsertProfile
    \/ \E t \in Threads :
         BeginObservation(t) \/ AppendObservation(t) \/ BeginDialogue(t) \/ WriteBack(t) \/ Die(t)

Spec == Init /\ [][Next]_vars

-----------------------------------------------------------------------------
\* The evidence of the request that writes now, and the profile it had read.
Writing(t) == At(t, "writing") /\ thread'[t] = Idle /\ row' /= row /\ WritesBack(thread[t].evidence)
Before(t) == thread[t].base

Same(values, later, k) ==
    k \in DOMAIN values /\ k \in DOMAIN later /\ later[k] = values[k]

\* Where a write-back changed what is believed of a component, its outcome is the
\* weighted mean of the components again: no backfill and no propagation leaves
\* an outcome behind that planning would then go by.
OutcomesStep ==
    \A t \in Threads : Writing(t) =>
        \A k \in DOMAIN row'.kc :
            ~Same(Before(t).kc, row'.kc, k) =>
                /\ Outcome[k] \in DOMAIN row'.lo
                /\ row'.lo[Outcome[k]] = WeightedOutcome(Outcome[k], row'.kc)
OutcomesFollow == [][OutcomesStep]_vars

\* Outside the outcomes the evidence is about, it has one direction: a success
\* lowers nothing that is believed, and anything less raises nothing and says
\* nothing new, however far it is carried.
DirectionStep ==
    \A t \in Threads : Writing(t) =>
        LET seen == thread[t].evidence
            before == Before(t).kc
            elsewhere == {k \in KCs : Outcome[k] \notin Affected(seen.los, ToSet(seen.kcs))}
        IN  \A k \in elsewhere \cap DOMAIN row'.kc :
              IF seen.strength = "demonstrated"
              THEN k \in DOMAIN before => row'.kc[k] >= before[k]
              ELSE k \in DOMAIN before /\ row'.kc[k] <= before[k]
EvidenceHasDirection == [][DirectionStep]_vars
=============================================================================
