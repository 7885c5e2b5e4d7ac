------------------------------ MODULE Socratic ------------------------------
(***************************************************************************)
(* A Socratic dialogue: each request brings an answer or none, the answer  *)
(* is scored, a policy picks the kind of question to ask next, the model   *)
(* writes the question, and the session, one row, is written back whole    *)
(* with the new turn.  The text of an answer counts only through its       *)
(* scores; numbers are in hundredths where they are stored and in parts of *)
(* ten thousand or of a million while they are computed.                   *)
(***************************************************************************)
EXTENDS Evidence, SocraticPromises

CONSTANTS
    Answers,   \* scored answers: [lexical, reasoning, cues, confidence]
    MaxTurns,  \* turns of the session that are followed
    Threads

Unsaid == -1 \* a confidence that was not given
NoAnswer == [lexical |-> 0, reasoning |-> 0, cues |-> 0, confidence |-> Unsaid]

\* What the constants must be.  Two answers, one of them none, make no dialogue.
SocraticAssumption ==
    /\ MaxTurns \in Nat /\ NoAnswer \notin Answers
    /\ Answers \subseteq [lexical : 0..100, reasoning : 0..100, cues : 0..100,
                          confidence : {Unsaid} \cup 0..100]

VARIABLE thread \* what each request is doing

vars == <<dialogue, thread>>

Idle == [pc |-> "idle", turns |-> <<>>, answer |-> NoAnswer]

Init == dialogue = <<>> /\ thread = [t \in Threads |-> Idle]

At(t, pc) == thread[t].pc = pc

Last2(turns) == SubSeq(turns, Max({1, Len(turns) - 1}), Len(turns))
Total(numbers) == FoldSeq(LAMBDA n, sum : n + sum, 0, numbers)
Masteries(turns) == [i \in DOMAIN turns |-> turns[i].evaluation.mastery]
Hundredths(parts, unit) == (parts + unit \div 2) \div unit

-----------------------------------------------------------------------------
\* How an answer is scored, in parts of ten thousand.
Understanding(answer) == 62 * answer.lexical + 38 * answer.reasoning

Alignment(answer) ==
    IF answer.confidence = Unsaid THEN 7500
    ELSE 10000 - Magnitude(100 * answer.confidence - Understanding(answer))

\* Compared with what the last two turns showed.
Progression(turns, answer) ==
    IF turns = <<>> THEN 5000
    ELSE LET prior == Masteries(Last2(turns))
         IN  Clamp(0, 10000,
                   5000 + (8 * (Understanding(answer) - (100 * Total(prior)) \div Len(prior))) \div 10)

Risk(answer) ==
    Clamp(0, 10000,
          100 * answer.cues
            + (IF answer.confidence >= 75 /\ answer.lexical < 35 THEN 2800 ELSE 0)
            + (12 * (10000 - Alignment(answer))) \div 100)

\* In parts of a million.
Score(turns, answer) ==
    Clamp(0, 1000000,
          4200 * answer.lexical + 2400 * answer.reasoning + 16 * Alignment(answer)
            + 12 * Progression(turns, answer) + 6 * (10000 - Risk(answer)))

StrengthOf(score) ==
    IF score >= 620000 THEN "demonstrated"
    ELSE IF score >= 400000 THEN "emerging" ELSE "insufficient"

NextAction(strength, score, risk, alignment, progression) ==
    IF strength = "demonstrated" /\ alignment >= 4000 THEN "advance"
    ELSE IF strength = "insufficient" /\ (risk >= 4500 \/ score < 300000 \/ progression < 4500)
    THEN "step_back" ELSE "clarify"

\* The dimensions are rounded when they are stored; the strength is not taken from them.
Evaluate(turns, answer) ==
    IF answer = NoAnswer
    THEN [answered |-> FALSE, strength |-> "insufficient", score |-> 0, mastery |-> 0,
          alignment |-> 50, progression |-> 50, risk |-> 0, next |-> "ask_probe"]
    ELSE LET alignment == Alignment(answer)
             progression == Progression(turns, answer)
             risk == Risk(answer)
             score == Score(turns, answer)
             strength == StrengthOf(score)
         IN  [answered |-> TRUE, strength |-> strength, score |-> Hundredths(score, 10000),
              mastery |-> Clamp(0, 100,
                  Hundredths(70 * Understanding(answer) + 10 * alignment + 20 * progression, 10000)),
              alignment |-> Hundredths(alignment, 100),
              progression |-> Hundredths(progression, 100), risk |-> Hundredths(risk, 100),
              next |-> NextAction(strength, score, risk, alignment, progression)]

-----------------------------------------------------------------------------
\* What the last two turns asked, whatever their number.
AskedTwice(turns, style) == Len(turns) >= 2 /\ \A i \in DOMAIN Last2(turns) : Last2(turns)[i].style = style
AskedLately(turns, style) == \E i \in DOMAIN Last2(turns) : Last2(turns)[i].style = style
AskedLast(turns, style) == turns /= <<>> /\ turns[Len(turns)].style = style

\* True of no turns and of one as well.
LowLately(turns) ==
    \A i \in DOMAIN Last2(turns) : Last2(turns)[i].evaluation.strength = "insufficient"

RecentMastery(turns, answer, evaluation) ==
    Masteries(Last2(turns)) \o (IF answer = NoAnswer THEN <<>> ELSE <<evaluation.mastery>>)

Trend(turns, answer, evaluation) ==
    LET recent == RecentMastery(turns, answer, evaluation)
    IN  IF Len(recent) < 2 THEN 0 ELSE recent[Len(recent)] - recent[1]

Stalled(turns, answer, evaluation) ==
    /\ Len(RecentMastery(turns, answer, evaluation)) >= 2
    /\ Magnitude(Trend(turns, answer, evaluation)) < 5

\* Mutant: a loop of clarifications is not looked for.
NeverLoops(turns, answer, evaluation, latest) == FALSE

ClarificationLoop(turns, answer, evaluation, latest) ==
    /\ AskedTwice(turns, "clarification") /\ Stalled(turns, answer, evaluation)
    /\ latest.score < 60 /\ latest.risk < 45

StepBackLoop(turns, answer, evaluation, latest) ==
    /\ AskedTwice(turns, "step_back") /\ Stalled(turns, answer, evaluation)
    /\ latest.progression < 55 /\ latest.risk < 50

Unsure(answer, below) == answer.confidence /= Unsaid /\ answer.confidence < below

\* The kind of question after evidence of each strength.
AfterDemonstrated(turns, answer, latest, trend) ==
    IF AskedLast(turns, "step_back") /\ (Unsure(answer, 55) \/ latest.progression < 55)
    THEN "clarification"
    ELSE IF Unsure(answer, 45) THEN "clarification"
    ELSE IF answer /= NoAnswer /\ AskedLately(turns, "transfer_check") /\ trend >= 0 THEN "diagnostic"
    ELSE "transfer_check"

AfterEmerging(turns, answer, latest, trend, loops) ==
    IF loops THEN "diagnostic"
    ELSE IF AskedLast(turns, "step_back") /\ (latest.score >= 45 \/ latest.progression >= 55)
    THEN "clarification"
    ELSE IF \/ AskedTwice(turns, "clarification") /\ (latest.alignment < 40 \/ Unsure(answer, 45))
            \/ trend < -8 /\ ~AskedLately(turns, "step_back")
    THEN "step_back"
    ELSE "clarification"

AfterInsufficient(turns, latest, loops) ==
    IF AskedLast(turns, "transfer_check") /\ latest.risk < 45 THEN "clarification"
    ELSE IF loops THEN "diagnostic"
    ELSE IF LowLately(turns) /\ ~AskedLately(turns, "step_back") THEN "step_back"
    ELSE IF latest.risk >= 45 THEN "step_back"
    ELSE "clarification"

\* Without an answer, the last turn is judged again.
Decide(turns, answer, evaluation) ==
    LET latest == IF answer = NoAnswer /\ turns /= <<>>
                  THEN turns[Len(turns)].evaluation ELSE evaluation
        trend == Trend(turns, answer, evaluation)
        loops == \/ ClarificationLoop(turns, answer, evaluation, latest)
                 \/ StepBackLoop(turns, answer, evaluation, latest)
    IN  IF turns = <<>> /\ answer = NoAnswer THEN "diagnostic"
        ELSE CASE latest.strength = "demonstrated" -> AfterDemonstrated(turns, answer, latest, trend)
               [] latest.strength = "emerging" -> AfterEmerging(turns, answer, latest, trend, loops)
               [] latest.strength = "insufficient" -> AfterInsufficient(turns, latest, loops)

Turn(turns, answer) ==
    LET evaluation == Evaluate(turns, answer)
    IN  [style |-> Decide(turns, answer, evaluation), evaluation |-> evaluation]

-----------------------------------------------------------------------------
\* The session is read, or made when there is none.
Load(t) ==
    /\ At(t, "idle") /\ Len(dialogue) < MaxTurns
    /\ \E answer \in Answers \cup {NoAnswer} :
         thread' = [thread EXCEPT ![t] = [pc |-> "asking", turns |-> dialogue, answer |-> answer]]
    /\ UNCHANGED dialogue

\* The question is written and the session stored with the turn, over whatever is there.
Save(t) ==
    /\ At(t, "asking")
    /\ dialogue' = Append(thread[t].turns, Turn(thread[t].turns, thread[t].answer))
    /\ thread' = [thread EXCEPT ![t] = Idle]

\* No question could be written, or the request died: the turn is not kept.
Fail(t) ==
    /\ At(t, "asking")
    /\ thread' = [thread EXCEPT ![t] = Idle]
    /\ UNCHANGED dialogue

Next == \E t \in Threads : Load(t) \/ Save(t) \/ Fail(t)

Spec == Init /\ [][Next]_vars

=============================================================================
