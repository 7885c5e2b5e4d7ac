--------------------------- MODULE WithinSession ----------------------------
(***************************************************************************)
(* The controller of one learning session: a row that says how far the     *)
(* learner has come back from a struggle, and when to try transfer.  Every *)
(* observation and assessment is weighed together with those of the        *)
(* session that the audit log still shows, the weighing moves the phase,   *)
(* and each content generated for the session uses up a step of support.   *)
(* Scores are whole hundredths.  The events are all about the session's    *)
(* target, and are handled one at a time.                                  *)
(***************************************************************************)
EXTENDS Integers, Sequences, SequencesExt, FiniteSetsExt, WithinPromises

CONSTANTS
    Observations, \* observations the learner may give
    Assessments,  \* results a Socratic assessment may have
    MaxEvents,    \* how many of the session's events the audit log shows
    MaxGenerated  \* bound: contents generated

\* What the constants must be.
WithinSessionAssumption == MaxEvents \in Nat \ {0} /\ MaxGenerated \in Nat

VARIABLE events \* the session's events that are still shown, newest first

vars == <<events, controller, risen, arc>>

NoRow == [phase |-> "none", signal |-> "none", action |-> "monitor", intent |-> "monitor",
          positive |-> 0, negative |-> 0, budget |-> 0, remaining |-> 0, risk |-> "low",
          arcAction |-> "steady", generated |-> 0, next |-> "monitor", steering |-> "steady"]

\* The learner has not struggled in this session: nothing has to be climbed.
Unhurt == 9

Init == events = <<>> /\ controller = NoRow /\ risen = Unhurt /\ arc = 0

-----------------------------------------------------------------------------
(* What an event weighs.                                                    *)

Graded(level, high, medium) == IF level = "high" THEN high ELSE IF level = "medium" THEN medium ELSE 0

ObservationScores(o) ==
    LET weight == [overload |-> 24, disengagement |-> 22, support_dependence |-> 18]
        struggle ==
            (IF o.errors >= 2 THEN 26 ELSE 12 * o.errors)
            + (IF o.hints >= 2 THEN 22 ELSE 8 * o.hints)
            + (IF o.load >= 75 THEN 24 ELSE IF o.load >= 60 THEN 12 ELSE 0)
            + Graded(o.frustration, 24, 12) + Graded(o.helpSeeking, 14, 7)
            + (IF o.calibration <= 35 THEN 14 ELSE IF o.calibration <= 50 THEN 7 ELSE 0)
            + (IF o.evidence \in DOMAIN weight THEN (weight[o.evidence] * o.certainty) \div 100
               ELSE 0)
        alone == IF o.support = "low" /\ struggle >= 40 THEN struggle + 8 ELSE struggle
        ease ==
            (IF o.errors = 0 THEN 16 ELSE 0)
            + (IF o.hints = 0 THEN 12 ELSE IF o.hints = 1 THEN 5 ELSE 0)
            + (IF o.load <= 40 THEN 18 ELSE IF o.load <= 55 THEN 8 ELSE 0)
            + (IF o.frustration = "low" THEN 16 ELSE 0)
            + (IF o.helpSeeking = "low" THEN 8 ELSE 0)
            + (IF o.calibration >= 70 THEN 14 ELSE IF o.calibration >= 60 THEN 8 ELSE 0)
    IN  IF o.evidence = "productive_struggle"
        THEN [negative |-> Max({0, alone - (10 * o.certainty) \div 100}),
              positive |-> ease + (20 * o.certainty) \div 100]
        ELSE [negative |-> alone, positive |-> ease]

AssessmentScores(a) ==
    LET turned == a.next \in {"clarify", "step_back"}
    IN  [negative |->
            (CASE a.strength = "demonstrated" -> 0
               [] a.strength = "emerging" -> IF turned THEN 8 ELSE 0
               [] OTHER -> 34 + (IF a.score < 30 THEN 14 ELSE 6))
            + (IF a.next = "step_back" THEN 24 ELSE IF a.next = "clarify" THEN 8 ELSE 0),
         positive |->
            (CASE a.strength = "demonstrated" -> 45 + (20 * a.score) \div 100
               [] a.strength = "emerging" -> 18 + (12 * a.score) \div 100
               [] OTHER -> 0)
            + (IF a.next = "advance" THEN 15 ELSE 0)]

\* The evidence the observations carry, the heaviest one, and how sure it is.
CurrentEvidence(observed) ==
    LET weight(signal) == FoldSeq(LAMBDA o, n : n + (IF o.evidence = signal THEN o.certainty ELSE 0),
                                  0, observed)
        found == {i \in DOMAIN observed :
                    observed[i].evidence # "steady" /\ observed[i].certainty > 0}
        heaviest == {i \in found : \A j \in found :
                        weight(observed[i].evidence) >= weight(observed[j].evidence)}
    IN  IF found = {} THEN [signal |-> "steady", certainty |-> 0]
        ELSE LET signal == observed[Min(heaviest)].evidence
             IN  [signal |-> signal,
                  certainty |-> Min({92, weight(signal) \div Len(observed)})]

Steering(a) ==
    IF a.next = "step_back" \/ a.style = "scaffolded_step_back" THEN "repair_then_model"
    ELSE IF a.next = "clarify" \/ a.style = "clarification" THEN "clarify_then_check"
    ELSE IF a.next = "advance" \/ a.style = "transfer_check"
    THEN IF a.strength = "demonstrated" THEN "verify_transfer" ELSE "clarify_then_check"
    ELSE IF a.style = "diagnostic" THEN "probe_from_new_angle" ELSE "steady"

\* _raw_adaptation_for: every event that is shown counts.
RawSummary(shown) ==
    LET observed == SelectSeq(shown, LAMBDA e : e.type = "observe")
        assessed == SelectSeq(shown, LAMBDA e : e.type = "assess")
        scores(e) == IF e.type = "observe" THEN ObservationScores(e) ELSE AssessmentScores(e)
        negative == FoldSeq(LAMBDA e, n : n + scores(e).negative, 0, shown)
        positive == FoldSeq(LAMBDA e, n : n + scores(e).positive, 0, shown)
        recovery == /\ assessed # <<>> /\ Head(assessed).strength = "demonstrated"
                    /\ Head(assessed).score >= 85 /\ Head(assessed).next = "advance"
        evidence == CurrentEvidence(observed)
    IN  [signal |->
            IF shown = <<>> THEN "insufficient"
            ELSE IF negative >= 55 /\ positive - negative <= -10
            THEN IF recovery /\ positive >= 72 THEN "positive" ELSE "negative"
            ELSE IF positive >= 55 /\ positive - negative >= 10 THEN "positive" ELSE "mixed",
         evidence |-> evidence.signal, certainty |-> evidence.certainty,
         next |-> IF assessed = <<>> THEN "monitor" ELSE Head(assessed).next,
         steering |-> IF assessed = <<>> THEN "steady" ELSE Steering(Head(assessed))]

BlocksTransfer(raw) ==
    \/ raw.evidence \in {"overload", "support_dependence"} /\ raw.certainty >= 55
    \/ raw.evidence = "disengagement" /\ raw.certainty >= 60

-----------------------------------------------------------------------------
(* The controller.                                                          *)

InRepair(r) == r.phase \in {"stabilize", "repair"}

\* Mutant: a first good sign in repair already lets the learner try transfer.
PhaseWithoutClimb(raw, old) ==
    CASE raw.signal = "negative" -> IF old.negative >= 1 THEN "repair" ELSE "stabilize"
      [] raw.signal = "positive" ->
            IF BlocksTransfer(raw)
            THEN IF old.phase \in {"bridge", "consolidate"} THEN "bridge" ELSE "consolidate"
            ELSE IF old.phase = "consolidate" THEN "bridge" ELSE "transfer_check"
      [] OTHER -> IF InRepair(old) \/ old.phase = "bridge" THEN old.phase
                  ELSE IF old.phase = "transfer_check" THEN "consolidate" ELSE "monitor"

Phase(raw, old) ==
    CASE raw.signal = "negative" ->
            IF old.phase \in {"bridge", "transfer_check"} \/ old.negative = 0 THEN "stabilize"
            ELSE "repair"
      [] raw.signal = "positive" ->
            IF BlocksTransfer(raw)
            THEN IF old.phase \in {"bridge", "consolidate"} THEN "bridge" ELSE "consolidate"
            ELSE IF InRepair(old)
            THEN IF old.positive >= 1 THEN "bridge" ELSE "consolidate"
            ELSE IF old.phase = "consolidate" THEN "bridge" ELSE "transfer_check"
      [] OTHER -> IF InRepair(old) \/ old.phase = "bridge" THEN old.phase
                  ELSE IF old.phase = "transfer_check" THEN "consolidate" ELSE "monitor"

Intent(raw, old) ==
    CASE raw.signal = "negative" -> "increase_support"
      [] raw.signal = "positive" ->
            IF old.phase = "consolidate" \/ (BlocksTransfer(raw) /\ old.phase = "bridge")
            THEN "bridge_target"
            ELSE IF InRepair(old) \/ BlocksTransfer(raw) THEN "confirm_recovery"
            ELSE "check_transfer"
      [] OTHER -> IF InRepair(old) THEN "hold_repair"
                  ELSE IF old.phase = "consolidate" THEN "hold_recovery"
                  ELSE IF old.phase = "bridge" THEN "bridge_target" ELSE "monitor"

Budget(phase, raw) ==
    IF ~TracksBudget(phase) THEN 0
    ELSE (IF phase = "repair" THEN 2 ELSE 1)
         + (IF phase \in {"stabilize", "repair"} /\ raw.next = "step_back" THEN 1 ELSE 0)

\* Support was used up on the way back, and the learner shows recovery.
Refilled(phase, raw, old) ==
    /\ raw.signal = "positive" /\ phase \in {"consolidate", "bridge"}
    /\ old.signal \in {"negative", "mixed", "recovering"}

\* Mutant: every event gives the phase its whole budget again.
RemainingRenewed(phase, raw, old) == Budget(phase, raw)

Remaining(phase, raw, old) ==
    IF phase # old.phase \/ Refilled(phase, raw, old) THEN Budget(phase, raw)
    ELSE Min({Budget(phase, raw), old.remaining})

\* summary is the raw summary of an event, or what the row says.
Risk(phase, remaining, summary, generated, negative, changed) ==
    LET turned == summary.next \in {"clarify", "step_back"}
    IN  IF ~TracksBudget(phase) THEN "low"
        ELSE IF remaining = 0
        THEN IF generated >= 2 \/ summary.signal = "mixed" \/ turned THEN "high" ELSE "moderate"
        ELSE IF /\ ~changed /\ remaining = 1 /\ generated >= 1
                /\ negative >= 2 \/ turned \/ summary.steering = "probe_from_new_angle"
        THEN "moderate" ELSE "low"

ArcAction(phase, summary, risk) ==
    IF risk = "high" \/ summary.steering = "probe_from_new_angle" THEN "reprobe_new_angle"
    ELSE CASE phase \in {"stabilize", "repair"} -> "model_repair"
           [] phase = "consolidate" -> "restate_then_apply"
           [] phase = "bridge" -> "bridge_with_target"
           [] phase = "transfer_check" -> "attempt_transfer"
           [] OTHER -> "steady"

RawAction == [negative |-> "hold_target", positive |-> "attempt_transfer",
              mixed |-> "monitor", insufficient |-> "monitor"]

ControllerSignal(phase, raw, negative) ==
    CASE phase \in {"stabilize", "repair"} -> <<"negative", "hold_target">>
      [] phase = "consolidate" -> <<"recovering", "hold_target">>
      [] phase = "bridge" -> <<"recovering", "hold_bridge_target">>
      [] phase = "transfer_check" -> <<"positive", "attempt_transfer">>
      [] OTHER -> IF raw.signal = "mixed" /\ negative > 0 THEN <<"mixed", "hold_target">>
                  ELSE <<raw.signal, RawAction[raw.signal]>>

\* _transition_controller and _build_controller_state: the row after a summary.
\* A streak is only ever compared with 0, 1 and 2, and counted up to 2.
Controller(raw, old) ==
    LET phase == Phase(raw, old)
        streak(signal, n) == IF raw.signal = signal THEN Min({2, n + 1}) ELSE 0
        negative == streak("negative", old.negative)
        remaining == Remaining(phase, raw, old)
        risk == Risk(phase, remaining, raw, old.generated, negative, phase # old.phase)
        signal == ControllerSignal(phase, raw, negative)
    IN  [phase |-> phase, signal |-> signal[1], action |-> signal[2],
         intent |-> Intent(raw, old),
         positive |-> streak("positive", old.positive), negative |-> negative,
         budget |-> Budget(phase, raw), remaining |-> remaining, risk |-> risk,
         arcAction |-> ArcAction(phase, raw, risk), generated |-> old.generated,
         next |-> raw.next, steering |-> raw.steering]

\* What the histories say of the step from one row to the next.
Weigh(raw, new) ==
    /\ risen' = IF raw.signal = "negative" THEN 0
                ELSE IF raw.signal = "positive" /\ risen < 2 THEN risen + 1 ELSE risen
    /\ arc' = IF new.phase # controller.phase \/ Refilled(new.phase, raw, controller) THEN 0 ELSE arc

\* An observation or an assessment is appended to the audit log, and the
\* controller is moved.
Event(e) ==
    LET shown == SubSeq(<<e>> \o events, 1, Min({MaxEvents, Len(events) + 1}))
    IN  \E raw \in {RawSummary(shown)} : \E new \in {Controller(raw, controller)} :
            /\ events' = shown
            /\ controller' = new
            /\ Weigh(raw, new)

RecordObservation == \E o \in Observations : Event(o)
RecordAssessment == \E a \in Assessments : Event(a)

UsedUp(r) == IF TracksBudget(r.phase) THEN Max({0, r.remaining - 1}) ELSE 0

\* record_generation_step: content was generated for the session, whose row is
\* built from the log when there is none.
RecordGeneration ==
    \E raw \in {RawSummary(events)} :
    \E old \in {IF controller # NoRow THEN controller ELSE Controller(raw, NoRow)} :
        LET remaining == UsedUp(old)
            risk == Risk(old.phase, remaining, old, old.generated + 1, old.negative, FALSE)
        IN  /\ controller.generated < MaxGenerated
            /\ controller' = [old EXCEPT !.generated = @ + 1, !.remaining = remaining, !.risk = risk,
                                  !.arcAction = ArcAction(old.phase, old, risk)]
            /\ arc' = IF controller # NoRow THEN Min({3, arc + 1}) ELSE 1
            /\ risen' = IF controller = NoRow /\ raw.signal = "negative" THEN 0 ELSE risen
            /\ UNCHANGED events

\* The oldest event is six hours old, or out of the newest 500 of all learners.
Forget ==
    /\ events # <<>>
    /\ events' = Front(events)
    /\ UNCHANGED <<controller, risen, arc>>

Next == RecordObservation \/ RecordAssessment \/ RecordGeneration \/ Forget

Spec == Init /\ [][Next]_vars

=============================================================================
