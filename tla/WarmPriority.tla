---------------------------- MODULE WarmPriority ----------------------------
(***************************************************************************)
(* The pure half of the predictive warm queue: how a queued request is     *)
(* scored and classed, how waiting raises its score, and which of the      *)
(* eligible tasks one claim takes.  Scores are thousandths, the precision  *)
(* the code rounds to, so every comparison the code makes is exact here.   *)
(***************************************************************************)
EXTENDS Integers, FiniteSets

CONSTANT
    StarvationWindow   \* routine_starvation_minutes, in clock ticks

ASSUME StarvationWindowAssumption == StarvationWindow \in Nat \ {0}

PriorityClasses == {"urgent", "high", "routine"}

ContentTypes == {"remedial_micro_module", "assessment_probe", "worked_example",
                 "practice_problem", "micro_explanation"}
SessionPhases == {"transfer_check", "bridge", "consolidate", "monitor"}
SequenceActions == {"attempt_transfer", "hold_target", "hold_repair_target",
                    "hold_bridge_target", "monitor"}
\* What the free-text warm_reason says, as far as the scoring looks at it.
WarmReasons == {"repair", "transfer", "other", "none"}

\* The part of a GenerationRequest that the scoring reads.
ScoredRequest == [type : ContentTypes, phase : SessionPhases,
                  action : SequenceActions, remediation : BOOLEAN,
                  reason : WarmReasons]

AtMost(bound, n) == IF n <= bound THEN n ELSE bound

TypeScore(type) ==
    CASE type = "remedial_micro_module" -> 900
      [] type = "assessment_probe"      -> 820
      [] type = "worked_example"        -> 740
      [] type = "practice_problem"      -> 680
      [] type = "micro_explanation"     -> 580

PhaseBonus(phase) ==
    CASE phase \in {"transfer_check", "bridge"} -> 80
      [] phase = "consolidate"                  -> 40
      [] OTHER                                  -> 0

ActionBonus(action) ==
    CASE action = "attempt_transfer" -> 60
      [] action = "monitor"          -> 0
      [] OTHER                       -> 30

ReasonBonus(reason) ==
    CASE reason = "repair"   -> 50
      [] reason = "transfer" -> 40
      [] OTHER               -> 0

PriorityOf(request) ==
    AtMost(1000, TypeScore(request.type) + PhaseBonus(request.phase)
                 + ActionBonus(request.action)
                 + (IF request.remediation THEN 50 ELSE 0)
                 + ReasonBonus(request.reason))

\* CASE is unordered in TLA+, so the order of the code's returns is spelt out.
PriorityClassOf(request) ==
    LET urgent == \/ PriorityOf(request) >= 840
                  \/ request.type \in {"remedial_micro_module", "assessment_probe"}
    IN  IF urgent THEN "urgent"
        ELSE IF PriorityOf(request) >= 680 THEN "high" ELSE "routine"

-----------------------------------------------------------------------------
(* A claim ranks the tasks it read.  Here a task is the record             *)
(* [id, class, score, created, attempts] of what the ranking looks at.     *)

\* Mutant: aging capped for every class as it is for the high one.
AgeBonusCappedLow(class, waited) ==
    IF class = "urgent" THEN 0 ELSE AtMost(80, 60 * (waited \div StarvationWindow))

AgeBonus(class, waited) ==
    LET windows == waited \div StarvationWindow
    IN  CASE class = "routine" -> AtMost(280, 60 * windows)
          [] class = "high"    -> AtMost(80, 20 * windows)
          [] OTHER             -> 0

RetryBonus(attempts) == IF attempts = 0 THEN 0 ELSE AtMost(40, 20 * (attempts - 1))

EffectiveScore(task, at) ==
    task.score
      + AgeBonus(task.class, IF at < task.created THEN 0 ELSE at - task.created)
      + RetryBonus(task.attempts)

\* The sort key of _select_task_batch: best score first, then oldest, then id.
Outranks(a, b, at) ==
    \/ EffectiveScore(a, at) > EffectiveScore(b, at)
    \/ /\ EffectiveScore(a, at) = EffectiveScore(b, at)
       /\ \/ a.created < b.created
          \/ a.created = b.created /\ a.id < b.id


\* The first k tasks of a set in that order.
Best(tasks, k, at) ==
    {t \in tasks : Cardinality({u \in tasks : Outranks(u, t, at)}) < k}

\* A batch of three or more first takes the best task of every class.
ClassHeads(tasks, at) ==
    UNION {Best({t \in tasks : t.class = c}, 1, at) : c \in PriorityClasses}

SelectTaskBatch(tasks, limit, at) ==
    IF limit < 3
    THEN Best(tasks, limit, at)
    ELSE LET heads == ClassHeads(tasks, at)
         IN  heads \cup Best(tasks \ heads, limit - Cardinality(heads), at)
=============================================================================
