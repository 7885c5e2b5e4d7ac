------------------------------ MODULE Evidence ------------------------------
(***************************************************************************)
(* What one observation of a learner's work says: the mastery it shows, in *)
(* hundredths, how strong it is as evidence, and whether it was the        *)
(* learner's own work.  Confidence is counted in halves (0, 0.5, 1) and    *)
(* pace is the response time in percent of the expected one, 0 when none   *)
(* is expected, so that every term is a whole number of hundredths.        *)
(***************************************************************************)
EXTENDS Integers, SequencesExt, FiniteSetsExt

Clamp(low, high, n) == Max({low, Min({high, n})})

SupportSignal == [low |-> 12, medium |-> 8, high |-> 3]

PaceAdjustment(pace) ==
    IF pace = 0 THEN 0 ELSE IF pace <= 90 THEN 5 ELSE IF pace <= 130 THEN 2
    ELSE IF pace >= 200 THEN -5 ELSE IF pace >= 160 THEN -3 ELSE 0

InferredMastery(o) ==
    Clamp(5, 95,
          16 + (IF o.completed THEN 44 ELSE 12) + 11 * o.confidence
             + SupportSignal[o.support] + PaceAdjustment(o.pace)
             - Min({18, 4 * o.hints}) - Min({24, 6 * o.errors}) - Min({10, 2 * o.pauses}))

Strength(o) ==
    IF o.completed /\ o.errors = 0 /\ o.hints <= 1 /\ InferredMastery(o) >= 68
    THEN "demonstrated"
    ELSE IF o.completed /\ o.errors <= 2 /\ InferredMastery(o) >= 42
    THEN "emerging" ELSE "insufficient"

LowSupportSuccess(o) ==
    o.completed /\ o.support = "low" /\ o.errors <= 1 /\ o.hints <= 1
        /\ InferredMastery(o) >= 62

GuidedSuccess(o) ==
    o.completed /\ o.support \in {"low", "medium"} /\ o.errors <= 1 /\ o.hints <= 1
        /\ InferredMastery(o) >= 62

HighSupportSuccess(o) == o.completed /\ o.support = "high" /\ o.hints >= 2

Some(Pred(_), s) == \E i \in DOMAIN s : Pred(s[i])

\* round(sum / len, 2), to the nearest hundredth.  Only two scores could tie, at
\* half a hundredth; those of the instances do not.
Average(s) ==
    LET sum == FoldFunction(LAMBDA o, total : total + InferredMastery(o), 0, s)
        len == Cardinality(DOMAIN s)
    IN  (2 * sum + len) \div (2 * len)

Newest(n, s) == SubSeq(s, 1, Min({n, Len(s)}))
=============================================================================
