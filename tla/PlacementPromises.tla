-------------------------- MODULE PlacementPromises --------------------------
(***************************************************************************)
(* What Placement promises, over the part of its state that says so: the   *)
(* saved session and the learner's mastery, and the graph it walks.        *)
(***************************************************************************)
EXTENDS Naturals, Sequences, SequencesExt

CONSTANTS
    Corpus,        \* the KCs, in the order the store lists them
    Prerequisites, \* prerequisite_kc_ids of each KC, a list
    QuestionBudget \* question_budget

VARIABLES
    placed,  \* the saved session
    mastery, \* kc_mastery of the learner's profile: some KCs have none
    skipped, \* KCs for which no question could be made (for FrontierReached)
    missed,  \* dependents a look-up did not find in the map (for FrontierReached)
    crossed  \* two calls were at work at once (history)

KCs == ToSet(Corpus)

After(ks) == {d \in KCs : ToSet(Prerequisites[d]) \cap ks # {}}
Before(ks) == UNION {ToSet(Prerequisites[k]) : k \in ks}

Probed(doc) == {doc.probes[i].kc : i \in DOMAIN doc.probes}

Neighbours == After(placed.demonstrated) \cup Before(placed.gap)
Converged == placed.status = "completed" /\ Len(placed.probes) < QuestionBudget

\* Short of the budget, placement ends only when the walk has converged: every
\* neighbour an answer points to was asked about, or could not be, or was absent
\* from the map of dependents when the answer was looked up there.
FrontierReached == Converged => Neighbours \subseteq Probed(placed) \cup skipped \cup missed

\* "probe dependents after a correct answer and prerequisites after an incorrect
\* one, stop at a question budget or graph-frontier convergence" (placement.py:3),
\* without the exemption.
WalkConverges == Converged => Neighbours \subseteq Probed(placed) \cup skipped

\* "direct evidence on probed KCs": after placement, while calls came one at a
\* time, the profile says of each KC what the report says, whichever calls died
\* and were made again with another answer.
SeedsFollowReport ==
    (placed.status = "completed" /\ ~crossed) =>
        /\ \A k \in placed.demonstrated : k \in DOMAIN mastery /\ mastery[k] >= 70
        /\ \A k \in placed.gap : k \in DOMAIN mastery /\ mastery[k] <= 30
=============================================================================
