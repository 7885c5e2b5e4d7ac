-------------------------- MODULE SocraticPromises --------------------------
(***************************************************************************)
(* What Socratic promises, over the saved session.                         *)
(***************************************************************************)
EXTENDS Integers, Sequences

VARIABLE dialogue \* the turns of the saved session, oldest first

Magnitude(n) == IF n < 0 THEN -n ELSE n

\* The learner's last answer moved nothing: it is no better and no worse than the
\* turn two before, below the bar, and no sign of a misconception.
Stuck(i) ==
    LET last == dialogue[i].evaluation
    IN  /\ last.answered /\ last.strength /= "demonstrated"
        /\ last.score < 60 /\ last.risk < 45
        /\ Magnitude(last.mastery - dialogue[i - 2].evaluation.mastery) < 5

\* A learner who is stuck is not asked the same kind of question a third time:
\* the branches of the policy, which look at the last two turns only and come in
\* an order of their own, leave none that goes round in a circle.
StuckIsNoticed ==
    \A i \in 3..Len(dialogue) :
        Stuck(i) => ~(/\ dialogue[i].style = dialogue[i - 1].style
                      /\ dialogue[i].style = dialogue[i - 2].style)
=============================================================================
