---------------------------- MODULE Progression -----------------------------
(***************************************************************************)
(* Who owns the next step: a request for content names a component, and    *)
(* the service may send the learner to a prerequisite or a bridge first,   *)
(* hold them where they are, let them attempt a transfer, or turn the      *)
(* assessment they asked for into practice.  It goes by the strategy, the  *)
(* session's controller, what the same session showed, what practice       *)
(* showed over weeks, and by what became of earlier decisions.             *)
(*                                                                         *)
(* Nothing is stored but the log: observations, assessments and verdicts.  *)
(* Scores and rates are in hundredths, confidences and the bars they are   *)
(* compared with in ten-thousandths.  The program computes with            *)
(* floating-point numbers: a tie may fall to the other side.  Work names   *)
(* one component and its outcome and counts for the mastery; time is in    *)
(* weeks, and work within a week of other work has its weight.             *)
(***************************************************************************)
EXTENDS Evidence

CONSTANTS
    Outcome,       \* the outcome each component belongs to
    Prerequisites, \* what each builds on, in the order of the store
    Bridges,       \* components near both a component and its prerequisites
    Work,          \* observations: Evidence's fields and kc
    Assessments,   \* what a dialogue found: [kc, score, strength]
    Strategies,    \* what the strategy says: [known, transfer, rebuild]
    Controllers,   \* what the session's controller says: [phase, action, intent]
    Requests,      \* what is asked for: [kc, assessment]
    Verdicts,      \* what a tracker may find: [family, kc, positive]
    Breaks,        \* weeks that may pass between two sessions
    MaxSessions,   \* bound: sessions of the learner
    MaxObserved,   \* bound: observations
    MaxAssessed,   \* bound: assessments
    MaxVerdicts    \* bound: verdicts

\* What the constants must be.
ProgressionAssumption ==
    /\ MaxSessions \in Nat /\ MaxObserved \in Nat /\ MaxAssessed \in Nat /\ MaxVerdicts \in Nat
    /\ Breaks \subseteq Nat
    /\ \A k \in DOMAIN Outcome : k \notin ToSet(Prerequisites[k]) \cup ToSet(Bridges[k])

VARIABLES
    observed, \* observations, newest first, each with its session and week
    assessed, \* results of dialogues, newest first, each with its session
    verdicts, \* verdicts on earlier decisions, newest first, each with its week
    session,  \* the learning session
    week,     \* the week
    decision  \* the last decision, until something new is known

vars == <<observed, assessed, verdicts, session, week, decision>>

None == [action |-> "none"]

Init ==
    /\ observed = <<>> /\ assessed = <<>> /\ verdicts = <<>>
    /\ session = 1 /\ week = 0 /\ decision = None

Rounded(n, unit) == (n + unit \div 2) \div unit
Sum(Value(_), s) == FoldSeq(LAMBDA x, total : total + Value(x), 0, s)

\* Work and requests carry their outcome, so that siblings count.
About(kc, s) == SelectSeq(s, LAMBDA x : Outcome[x.kc] = Outcome[kc])
InSession(s) == SelectSeq(s, LAMBDA x : x.session = session)

\* recency_weight, in percent, at whole weeks.
RecencyWeight(weeks) ==
    IF weeks <= 1 THEN 100 ELSE IF weeks = 2 THEN 80 ELSE IF weeks = 3 THEN 50 ELSE 20

-----------------------------------------------------------------------------
(* Practice over weeks.                                                     *)

\* The newest ten of the four weeks before the newest.
Practised(kc) ==
    LET all == About(kc, observed)
    IN  Newest(10, SelectSeq(all, LAMBDA o : o.week >= all[1].week - 4))

IndependentWork(o) ==
    o.completed /\ o.support = "low" /\ o.hints <= 1 /\ o.errors <= 1 /\ InferredMastery(o) >= 64
DependentWork(o) ==
    o.support = "high" /\ (o.hints >= 2 \/ o.errors >= 1 \/ InferredMastery(o) < 66)

\* What the last observation of the component's outcome recorded: the profile is
\* weighed from the time of that observation, not from now.
Practice(kc) ==
    LET work == Practised(kc)
        weight(o) == RecencyWeight(work[1].week - o.week)
        total == Sum(weight, work)
        rate(Pred(_)) == Rounded(100 * Sum(weight, SelectSeq(work, Pred)), total)
        score(o) == weight(o) * InferredMastery(o)
        average == Rounded(Sum(score, work), total)
        spread(o) == weight(o) * (InferredMastery(o) - average) * (InferredMastery(o) - average)
        recent == SubSeq(work, 1, Len(work) \div 2)
        older == SubSeq(work, Len(work) \div 2 + 1, Len(work))
        \* The difference of the two means, times both totals.
        gain == Sum(score, recent) * Sum(weight, older) - Sum(score, older) * Sum(weight, recent)
        six == 6 * Sum(weight, recent) * Sum(weight, older)
    IN  [count |-> Len(work), sessions |-> Cardinality({o.session : o \in ToSet(work)}),
         average |-> average, independent |-> rate(IndependentWork), dependent |-> rate(DependentWork),
         trend |-> IF Len(work) < 3 THEN "stable" ELSE IF gain >= six THEN "improving"
                   ELSE IF gain <= -six THEN "declining" ELSE "stable",
         \* The standard deviation, rounded, is at least 0.18, or 0.12.
         volatile |-> IF 4 * Sum(spread, work) >= 1225 * total THEN "highly"
                      ELSE IF 4 * Sum(spread, work) >= 529 * total THEN "somewhat" ELSE "no"]

Signal(p) ==
    IF p.count < 2 THEN "insufficient"
    ELSE IF p.dependent >= 60 /\ p.independent <= 35 THEN "support_dependent"
    ELSE IF /\ p.count >= 4 /\ p.sessions >= 2 /\ p.average >= 72
            /\ p.independent >= 50 /\ p.dependent <= 25
    THEN IF p.trend = "declining" /\ p.average < 78 THEN "emerging_mastery" ELSE "durable_mastery"
    ELSE IF \/ p.average >= 62 /\ p.independent >= 30
            \/ p.average \in 44..51 /\ p.trend = "improving"
            \/ p.average >= 52 /\ p.sessions >= 2 /\ p.dependent <= 35
    THEN "emerging_mastery" ELSE "fragile"

Bonus == [durable_mastery |-> 1400, emerging_mastery |-> 800, support_dependent |-> 1000,
          fragile |-> 600, insufficient |-> 0]

ProfileConfidence(p) ==
    100 * Rounded(Min({9200, 1800 + Min({2500, 500 * p.count}) + Min({1800, 800 * p.sessions})
                              + Bonus[Signal(p)] + 18 * Max({p.average - 50, 50 - p.average})}), 100)

-----------------------------------------------------------------------------
(* What became of earlier decisions.                                        *)

Found(family, kc) == SelectSeq(verdicts, LAMBDA v : v.family = family /\ v.kc = kc)

\* The share of verdicts of one kind, in ten-thousandths, recent ones counting more.
Share(positive, found) ==
    LET weight(v) == RecencyWeight(week - v.week)
    IN  (10000 * Sum(weight, SelectSeq(found, LAMBDA v : v.positive = positive))) \div Sum(weight, found)

HoldAdjustment(kc) ==
    LET found == Found("hold", kc)
    IN  IF Len(found) < 3 THEN 0
        ELSE IF Share(FALSE, found) >= 6000
        THEN 10 * Rounded(Min({600, ((Share(FALSE, found) - 4000) * 15) \div 100}), 10)
        ELSE IF Share(TRUE, found) >= 7500
        THEN -10 * Rounded(Min({600, ((Share(TRUE, found) - 6000) * 12) \div 100}), 10) ELSE 0

TransferAdjustment(kc) ==
    LET found == Found("transfer", kc)
    IN  IF Len(found) < 2 THEN 0
        ELSE IF Share(FALSE, found) >= 5000
        THEN 10 * Rounded(Min({500, ((Share(FALSE, found) - 3000) * 12) \div 100}), 10)
        ELSE IF Share(TRUE, found) >= 8000
        THEN -10 * Rounded(Min({500, (Share(TRUE, found) - 6000) \div 10}), 10) ELSE 0

-----------------------------------------------------------------------------
(* Where the strategy and the session would have the learner work.          *)

\* The planner of sequences: bridges are offered on the way from a prerequisite only.
Sequence(strategy, kc) ==
    IF Prerequisites[kc] = <<>>
    THEN [action |-> IF strategy.transfer THEN "attempt_transfer" ELSE "hold_target",
          primary |-> kc, bridges |-> <<>>]
    ELSE IF ~strategy.known \/ strategy.rebuild
    THEN [action |-> "rebuild_prerequisite_first", primary |-> Prerequisites[kc][1],
          bridges |-> Newest(2, Bridges[kc])]
    ELSE [action |-> "hold_target", primary |-> kc, bridges |-> <<>>]

\* No controller holds on a repair target, which the code would look at as well.
Staged(strategy, controller, kc) ==
    LET sequence == Sequence(strategy, kc)
    IN  IF (controller.phase = "bridge" \/ controller.intent = "bridge_target")
             /\ sequence.bridges # <<>>
        THEN [stage |-> "bridge", kc |-> sequence.bridges[1],
              action |-> IF controller.action = "hold_bridge_target"
                         THEN "hold_bridge_target" ELSE "bridge_to_related_kc"]
        ELSE IF sequence.action = "rebuild_prerequisite_first"
        THEN [stage |-> "repair", kc |-> sequence.primary, action |-> "rebuild_prerequisite_first"]
        ELSE [stage |-> "target", kc |-> kc,
              action |-> IF sequence.action = "hold_target" /\ strategy.known
                         THEN "hold_target" ELSE "stay_on_requested_target"]

-----------------------------------------------------------------------------
(* What the same session showed.                                            *)

Shown(kc) == Newest(3, About(kc, InSession(observed)))
Answered(kc) == Newest(2, About(kc, InSession(assessed)))

EvidenceConfidence(kc) ==
    IF Shown(kc) \o Answered(kc) = <<>> THEN 0
    ELSE Min({9000, 2800 + 1400 * Len(Shown(kc)) + 2000 * Len(Answered(kc))})

EvidenceDecision(controller, kc) ==
    LET shown == Shown(kc)
        answered == Answered(kc)
        holds == controller.action \in {"hold_target", "hold_bridge_target"}
        stricter == controller.action = "hold_bridge_target"
        own == Len(SelectSeq(shown, LowSupportSuccess))
        leaning == Some(HighSupportSuccess, shown)
        average(n) == shown # <<>> /\ Average(shown) >= n
        strong == Some(LAMBDA a : a.strength = "demonstrated" \/ a.score >= 72, answered)
        ready == \/ strong
                 \/ average(IF stricter THEN 72 ELSE 66) /\ own >= (IF stricter THEN 2 ELSE 1)
                 \/ controller.action = "attempt_transfer" /\ average(66) /\ own >= 1 /\ ~leaning
        weak == \/ holds \/ leaning \/ answered # <<>>
                \/ shown # <<>> /\ ~average(IF stricter THEN 62 ELSE 58)
    IN  IF shown = <<>> /\ answered = <<>> THEN "monitor"
        ELSE IF ready THEN "attempt_transfer"
        ELSE IF weak THEN (IF holds THEN controller.action ELSE "hold_target") ELSE "monitor"

-----------------------------------------------------------------------------
(* What practice over weeks says.                                           *)

Depth(p) == Min({4, p.count})

\* Mutant: depending on support makes a hold less likely.
DependenceExcused(p) == IF p.dependent >= 70 THEN 150 * Depth(p) ELSE 0

Dependence(p) == IF p.dependent >= 70 THEN -150 * Depth(p) ELSE 0

HoldBar(p, stage, kc) ==
    (IF Signal(p) = "fragile" THEN 6500 ELSE 5500) - (IF stage = "repair" THEN 1000 ELSE 0)
      + (IF p.independent >= 50 THEN 200 * Depth(p) ELSE 0) + Dependence(p)
      + (CASE p.trend = "improving" -> 600 [] p.trend = "declining" -> -500 [] OTHER -> 0)
      - (CASE p.volatile = "highly" -> 175 * Depth(p) [] p.volatile = "somewhat" -> 100 * Depth(p)
           [] OTHER -> 0)
      + HoldAdjustment(kc)

PracticeHolds(stage, kc) ==
    /\ stage \in {"target", "repair"} /\ About(kc, observed) # <<>>
    /\ LET p == Practice(kc)
       IN  Signal(p) \in {"support_dependent", "fragile"} /\ ProfileConfidence(p) >= HoldBar(p, stage, kc)

-----------------------------------------------------------------------------
(* The decision.                                                            *)

StageFor(action, stage) ==
    CASE action = "hold_bridge_target" -> "bridge"
      [] action \in {"hold_repair_target", "rebuild_prerequisite_first"} -> "repair"
      [] action = "attempt_transfer" -> "transfer"
      [] OTHER -> stage

\* Evidence of the session comes first, sure enough to leave for the target or
\* not, then practice, then where the learner was sent.
Resolved(staged, controller, request) ==
    LET evidence == EvidenceDecision(controller, staged.kc)
        sure == EvidenceConfidence(staged.kc) >= 6000 + TransferAdjustment(staged.kc)
        heldOnBridge == staged.action = "hold_bridge_target"
        taken(action, kc) == [action |-> action, stage |-> StageFor(action, staged.stage), kc |-> kc]
    IN  IF evidence = "attempt_transfer" /\ sure /\ ~heldOnBridge
        THEN taken("attempt_transfer", request.kc)
        ELSE IF evidence # "monitor" /\ ~(heldOnBridge /\ evidence = "attempt_transfer")
        THEN taken(evidence, staged.kc)
        ELSE IF PracticeHolds(staged.stage, staged.kc)
        THEN taken(IF staged.stage = "target" THEN "hold_target" ELSE "hold_repair_target", staged.kc)
        ELSE staged

\* Whether an assessment that was asked for is turned into practice.
Gated(resolved) ==
    resolved.stage \in {"repair", "bridge"} \/ resolved.action \in {"hold_target", "hold_repair_target"}

Resolve(strategy, controller, request) ==
    /\ decision = None
    /\ LET staged == Staged(strategy, controller, request.kc)
           resolved == Resolved(staged, controller, request)
       IN  decision' = [resolved EXCEPT !.action =
                            IF request.assessment /\ Gated(resolved) THEN "before_assessment" ELSE @]
                       @@ [asked |-> request, confidence |-> EvidenceConfidence(staged.kc),
                           assessment |-> request.assessment /\ ~Gated(resolved)]
    /\ UNCHANGED <<observed, assessed, verdicts, session, week>>

-----------------------------------------------------------------------------
(* What is learnt between decisions.                                        *)

Observe ==
    /\ Len(observed) < MaxObserved
    /\ \E o \in Work : observed' = <<o @@ [session |-> session, week |-> week]>> \o observed
    /\ decision' = None
    /\ UNCHANGED <<assessed, verdicts, session, week>>

Assess ==
    /\ Len(assessed) < MaxAssessed
    /\ \E a \in Assessments : assessed' = <<a @@ [session |-> session]>> \o assessed
    /\ decision' = None
    /\ UNCHANGED <<observed, verdicts, session, week>>

\* A tracker finds that an earlier decision helped, or that it did not.
Judge ==
    /\ observed # <<>> /\ Len(verdicts) < MaxVerdicts
    /\ \E v \in Verdicts : verdicts' = <<v @@ [week |-> week]>> \o verdicts
    /\ decision' = None
    /\ UNCHANGED <<observed, assessed, session, week>>

StartSession ==
    /\ session < MaxSessions
    /\ session' = session + 1
    /\ \E weeks \in Breaks : week' = week + weeks
    /\ decision' = None
    /\ UNCHANGED <<observed, assessed, verdicts>>

Next ==
    \/ \E s \in Strategies, c \in Controllers, r \in Requests : Resolve(s, c, r)
    \/ Observe \/ Assess \/ Judge \/ StartSession

Spec == Init /\ [][Next]_vars

-----------------------------------------------------------------------------
\* A learner who did all their work with support they depended on, four times
\* over two sessions at least, and then opens a new session with a request for
\* an assessment, is not given one: however their scores rose or jumped about,
\* whatever the strategy says, and however often holds have failed before.
DependenceIsRemembered ==
    (/\ decision # None /\ InSession(observed) = <<>> /\ InSession(assessed) = <<>>
     /\ About(decision.asked.kc, observed) # <<>>
     /\ LET work == Practised(decision.asked.kc)
        IN  /\ Len(work) >= 4 /\ Cardinality({o.session : o \in ToSet(work)}) >= 2
            /\ \A o \in ToSet(work) : DependentWork(o))
    => ~decision.assessment

\* Where practice across sessions holds the learner on the target, evidence of the
\* session that falls short of the bar for a transfer does not start one.
SparseEvidenceIsVetoed ==
    (/\ decision # None /\ decision.kc = decision.asked.kc
     /\ decision.confidence < 6000 /\ PracticeHolds("target", decision.kc))
    => decision.action # "attempt_transfer"
=============================================================================
