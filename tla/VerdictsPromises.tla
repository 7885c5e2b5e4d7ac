-------------------------- MODULE VerdictsPromises --------------------------
(***************************************************************************)
(* What Verdicts promises, over the part of its state that says so: the    *)
(* log that is still shown, what each request is about to do, and what is  *)
(* remembered of the verdicts.                                             *)
(***************************************************************************)
EXTENDS Integers, FiniteSets, Functions

VARIABLES
    log,    \* the audit events that are still shown, oldest first
    request, \* what each request is about to do
    given,  \* every verdict there ever was (history)
    settled \* TRUE when predictions were looked at since the last death (history)

OfType(type) == {e \in Range(log) : e.type = type}

\* Observations since.
Since(when) == {e \in OfType("observe") : e.stamp > when}

\* With requests one at a time a decision and a prediction have one verdict at
\* most, however the log is cut off and wherever requests die: a verdict is
\* never cut off before what it is about.
JudgedOnce ==
    \A i, j \in DOMAIN given :
        (given[i].kind \in {"decision", "prediction"} /\ given[i].of = given[j].of) => i = j

\* A prediction is judged as soon as two observations followed it: once every
\* observation was handled to its end, by several requests at once too, none is
\* left that the log shows with two later ones.
PredictionsAreJudged ==
    (settled /\ \A t \in DOMAIN request : request[t].pc = "idle") =>
        \A p \in OfType("observe") :
            p.payload.signal # "steady" /\ Cardinality(Since(p.stamp)) >= 2 =>
                \E i \in DOMAIN given : given[i].kind = "prediction" /\ given[i].of = p.stamp
=============================================================================
