----------------------------- MODULE MCLearning -----------------------------
(***************************************************************************)
(* Small instances for TLC of what follows one learner: placement, what    *)
(* the service believes it knows, goals and plans, a remediation session,  *)
(* a Socratic dialogue, the controller of a session and the questions kept *)
(* for it.  A behaviour is one of these machines, chosen at its start; the *)
(* variables of the others stay at rest.                                   *)
(***************************************************************************)
EXTENDS Naturals, Sequences, FiniteSets, TLC,
    PlacementPromises, RemediationPromises, WithinPromises, SurplusPromises, PlanningPromises,
    SocraticPromises

CONSTANTS
    a, b, c, d, e, \* knowledge components
    solo, t1, t2,  \* the thread of the machines that have one; two others
    tab            \* a session id of the client's own

\* Each promise's variables are those of its module; here are the others.
VARIABLES
    machine,
    thread,                                \* of all but WithinSession
    mapped, stale,                         \* Placement
    observed, offered,                     \* Remediation
    events,                                \* WithinSession
    slot, lapsed, evidence, rows, crashes, \* SurplusPractice
    moved, now, requests, upsets,          \* Planning
    record                                 \* Knowledge, with observed and requests

placementVars == <<placed, mastery, skipped, missed, crossed, mapped, stale>>
remediationVars == <<row, basis, overlap, observed, offered>>
withinVars == <<controller, risen, arc, events>>
surplusVars == <<grounds, served, slot, lapsed, evidence, rows, crashes>>
planningVars == <<progress, adaptation, goals, trajectories, sessions, settled,
                  moved, now, requests, upsets>>
vars == <<machine, thread, placementVars, remediationVars, withinVars, surplusVars, planningVars,
          dialogue, record>>

Resting == "resting"
Pair == {t1, t2}

\* The machines with two threads do not name them, and the others use neither.
ThreadSymmetry == Permutations(Pair)

PlacementRests ==
    /\ placed = [status |-> "none"] /\ mastery = <<>> /\ skipped = {} /\ missed = {}
    /\ crossed = FALSE /\ mapped = Resting /\ stale = Resting
WithinRests ==
    /\ controller = [action |-> "monitor", phase |-> "none"] /\ risen = 0 /\ arc = 0
    /\ events = Resting
SurplusRests ==
    /\ slot = Resting /\ lapsed = Resting /\ evidence = Resting /\ rows = Resting
    /\ crashes = Resting /\ grounds = <<>> /\ served = <<>>
PlansRest ==
    /\ progress = <<>> /\ adaptation = Resting /\ settled = FALSE
    /\ goals = {} /\ trajectories = {} /\ sessions = {}
PlanningRests ==
    PlansRest /\ moved = Resting /\ now = Resting /\ requests = Resting /\ upsets = Resting

\* What a machine leaves alone.
PlacementOnly ==
    UNCHANGED <<machine, remediationVars, withinVars, surplusVars, planningVars, dialogue, record>>
RemediationOnly ==
    UNCHANGED <<machine, placementVars, withinVars, surplusVars, planningVars, dialogue, record>>
WithinOnly ==
    UNCHANGED <<machine, placementVars, remediationVars, surplusVars, planningVars, dialogue, record>>
SurplusOnly ==
    UNCHANGED <<machine, placementVars, remediationVars, withinVars, planningVars, dialogue, record>>
PlanningOnly ==
    UNCHANGED <<machine, placementVars, remediationVars, withinVars, surplusVars, dialogue, record>>
DialogueOnly ==
    UNCHANGED <<machine, placementVars, remediationVars, withinVars, surplusVars, planningVars, record>>

-----------------------------------------------------------------------------
(* Remediation: every kind of work with requests one at a time, and work    *)
(* that leans on full support with two requests at once.                    *)

Effort(completed, support, hints, errors, confidence) ==
    [completed |-> completed, support |-> support, hints |-> hints, errors |-> errors,
     confidence |-> confidence, pauses |-> 0, pace |-> 0]

\* On their own, with a hint, with full support and one hint, completed with
\* full support and hints, not completed; and on their own and sure of it.
Independent == Effort(TRUE, "low", 0, 0, 1)
Guided == Effort(TRUE, "medium", 1, 1, 1)
Prompted == Effort(TRUE, "high", 1, 0, 2)
Leaning == Effort(TRUE, "high", 2, 0, 2)
Failed == Effort(FALSE, "high", 3, 2, 0)
Certain == Effort(TRUE, "low", 0, 0, 2)

Alone == INSTANCE Remediation WITH
    Work <- {Independent, Guided, Prompted, Leaning, Failed}, Window <- 2, Threads <- {solo}
Crowd == INSTANCE Remediation WITH
    Work <- {Leaning}, Window <- 1, Threads <- Pair

RemediationRests ==
    /\ row = Alone!NoRow /\ basis = <<>> /\ overlap = FALSE
    /\ observed = Resting /\ offered = Resting

RemediationInit ==
    /\ (machine = "alone" /\ Alone!Init) \/ (machine = "crowd" /\ Crowd!Init)
    /\ PlacementRests /\ WithinRests /\ SurplusRests /\ PlanningRests
    /\ dialogue = <<>> /\ record = Resting

RemediationAlone == machine = "alone" /\ Alone!Next /\ RemediationOnly
RemediationCrowd == machine = "crowd" /\ Crowd!Next /\ RemediationOnly

-----------------------------------------------------------------------------
(* Placement: one walk over two regions that meet, by a learner who starts  *)
(* before or after an import, and a question sent twice.                    *)

\* a <- b <- c, a and b <- c, a and d <- e
Meeting == <<a, b, c, d, e>>
MeetingPrerequisites ==
    [k \in {a, b, c, d, e} |->
        CASE k \in {a, d} -> <<>> [] k = b -> <<a>> [] k = c -> <<a, b>> [] k = e -> <<a, d>>]

\* A learner nothing is known of, and one who is weak at one end and strong at the other.
AllProfiles == {<<>>, [k \in {a, b, c, d, e} |-> IF k \in {a, e} THEN 90 ELSE 10]}

Walk == INSTANCE Placement WITH
    Anchors <- <<b, e>>, Profiles <- AllProfiles, Imported <- {c}, Threads <- {solo}
Twice == INSTANCE Placement WITH
    Anchors <- <<d>>, Profiles <- {<<>>}, Imported <- {}, Threads <- Pair

PlacementInit ==
    /\ (machine = "walk" /\ Walk!Init) \/ (machine = "twice" /\ Twice!Init)
    /\ RemediationRests /\ WithinRests /\ SurplusRests /\ PlanningRests
    /\ dialogue = <<>> /\ record = Resting

PlacementWalk == machine = "walk" /\ Walk!Next /\ PlacementOnly
PlacementTwice == machine = "twice" /\ Twice!Next /\ PlacementOnly

\* Two calls and an empty map.
TwiceSpec == (PlacementInit /\ machine = "twice" /\ mapped = 0) /\ [][PlacementTwice]_vars

-----------------------------------------------------------------------------
(* The controller of a session: a learner at ease, one overloaded, one who  *)
(* leans on support, one in between; and three results of an assessment.    *)

Observed(errors, hints, load, level, calibration, support, signal, certainty) ==
    [type |-> "observe", errors |-> errors, hints |-> hints, load |-> load,
     frustration |-> level, helpSeeking |-> level, calibration |-> calibration,
     support |-> support, evidence |-> signal, certainty |-> certainty]
Assessed(strength, score, next, style) ==
    [type |-> "assess", strength |-> strength, score |-> score, next |-> next, style |-> style]

Within == INSTANCE WithinSession WITH
    Observations <- {Observed(0, 0, 30, "low", 75, "low", "steady", 0),
                     Observed(3, 2, 80, "high", 30, "high", "overload", 100),
                     Observed(0, 0, 30, "low", 75, "high", "support_dependence", 100),
                     Observed(1, 1, 60, "medium", 50, "low", "steady", 0)},
    Assessments <- {Assessed("demonstrated", 100, "advance", "transfer_check"),
                    Assessed("emerging", 50, "ask_probe", "diagnostic"),
                    Assessed("insufficient", 20, "step_back", "scaffolded_step_back")},
    MaxEvents <- 3, MaxGenerated <- 3

WithinInit ==
    /\ machine = "within" /\ Within!Init
    /\ PlacementRests /\ RemediationRests /\ SurplusRests /\ PlanningRests
    /\ thread = Resting /\ dialogue = <<>> /\ record = Resting

WithinSession == machine = "within" /\ Within!Next /\ UNCHANGED thread /\ WithinOnly

-----------------------------------------------------------------------------
\* Up to three practice questions in a response, as the prompts ask for.
Surplus == INSTANCE SurplusPractice WITH
    Threads <- {solo}, MaxSurplus <- 2, MaxBatches <- 3, MaxEvidence <- 1, MaxCrashes <- 1

SurplusInit ==
    /\ machine = "surplus" /\ Surplus!Init
    /\ PlacementRests /\ RemediationRests /\ WithinRests /\ PlanningRests
    /\ dialogue = <<>> /\ record = Resting

SurplusQuestions == machine = "surplus" /\ Surplus!Next /\ SurplusOnly

-----------------------------------------------------------------------------
(* Planning: one request after another while the learner moves on, and two  *)
(* at once.                                                                 *)

Say(risk, pace) == [risk |-> risk, pace |-> pace]

\* A learner starts with no outcomes, has two and masters the first.
Plan == INSTANCE Planning WITH
    Threads <- {solo}, Progressions <- << <<>>, <<a, b>>, <<b>> >>,
    Adaptations <- <<Say(None, None), Say("low", "slower"), Say("high", None)>>,
    Targets <- {c}, Wanted <- {d}, Sessions <- {tab},
    MaxRequests <- 3, MaxUpsets <- 2
Plans == INSTANCE Planning WITH
    Threads <- Pair, Progressions <- << <<a>> >>, Adaptations <- <<Say(None, None)>>,
    Targets <- {c}, Wanted <- {}, Sessions <- {},
    MaxRequests <- 3, MaxUpsets <- 1

PlanningInit ==
    /\ (machine = "plan" /\ Plan!Init) \/ (machine = "plans" /\ Plans!Init)
    /\ PlacementRests /\ RemediationRests /\ WithinRests /\ SurplusRests
    /\ dialogue = <<>> /\ record = Resting

PlanningAlone == machine = "plan" /\ Plan!Next /\ PlanningOnly
PlanningPair == machine = "plans" /\ Plans!Next /\ PlanningOnly

-----------------------------------------------------------------------------
(* What is known: two requests at once over a chain of components, an       *)
(* outcome at each end, for a learner nothing is known of, one whose        *)
(* outcome lags behind its components, and one known in part.               *)

On(effort, task, session, generation, kcs) ==
    effort @@ [task |-> task, content |-> "exercise", session |-> session, generation |-> generation,
               kcs |-> kcs, los |-> <<>>]
Found(strength, level, score, kcs, los) ==
    [strength |-> strength, mastery |-> level, score |-> score, kcs |-> kcs, los |-> los]

Known == INSTANCE Knowledge WITH
    row <- record,
    Components <- <<c, a, b>>,
    Outcome <- [k \in {a, b, c} |-> IF k = c THEN "adding" ELSE "counting"],
    Prerequisites <- [k \in {a, b, c} |-> CASE k = a -> {} [] k = b -> {a} [] k = c -> {b}],
    Difficulty <- 50, Tie <- 95, Durable <- {0}, Window <- 3, MaxRequests <- 3, Threads <- Pair,
    Work <- {On(Independent, "practice", "lesson", "problem", <<c>>),
             On(Failed, "remediation", "lesson", "none", <<a>>),
             On(Certain, "practice", "none", "none", <<b>>),
             On(Guided, "reading", "lesson", "none", <<b>>)},
    Dialogues <- {Found("demonstrated", 88, 80, <<b, c>>, <<>>),
                  Found("emerging", 45, 50, <<a>>, <<"counting">>),
                  Found("insufficient", 10, 20, <<>>, <<>>)},
    Profiles <- {[kc |-> <<>>, lo |-> <<>>],
                 [kc |-> [k \in {a, b, c} |-> 90], lo |-> [o \in {"counting"} |-> 40]],
                 [kc |-> [k \in {b} |-> 95], lo |-> [o \in {"adding"} |-> 70]]}

KnowledgeInit ==
    /\ machine = "known" /\ Known!Init
    /\ row = Alone!NoRow /\ basis = <<>> /\ overlap = FALSE /\ offered = Resting
    /\ PlacementRests /\ WithinRests /\ SurplusRests
    /\ PlansRest /\ moved = Resting /\ now = Resting /\ upsets = Resting
    /\ dialogue = <<>>

KnowledgeGrows ==
    /\ machine = "known" /\ Known!Next
    /\ UNCHANGED <<machine, placementVars, row, basis, overlap, offered, withinVars, surplusVars,
                   progress, adaptation, goals, trajectories, sessions, settled, moved, now,
                   upsets, dialogue>>

-----------------------------------------------------------------------------
(* A dialogue: answers that demonstrate, that come near with and without a  *)
(* stated confidence, that carry a misconception, that miss, and one that   *)
(* says it all without a reason.                                            *)

Said(lexical, reasoning, cues, confidence) ==
    [lexical |-> lexical, reasoning |-> reasoning, cues |-> cues, confidence |-> confidence]

Unstated == 0 - 1

Talk == INSTANCE Socratic WITH
    Answers <- {Said(100, 80, 0, 90), Said(50, 40, 0, Unstated), Said(50, 40, 0, 20),
                Said(17, 5, 38, 80), Said(17, 30, 0, 20), Said(100, 10, 0, 30)},
    MaxTurns <- 5, Threads <- {solo}

DialogueInit ==
    /\ machine = "talk" /\ Talk!Init
    /\ PlacementRests /\ RemediationRests /\ WithinRests /\ SurplusRests /\ PlanningRests
    /\ record = Resting

Dialogue == machine = "talk" /\ Talk!Next /\ DialogueOnly

-----------------------------------------------------------------------------
ASSUME InstancesAssumption ==
    /\ Walk!PlacementAssumption /\ Twice!PlacementAssumption
    /\ Alone!RemediationAssumption /\ Crowd!RemediationAssumption
    /\ Within!WithinSessionAssumption /\ Surplus!SurplusAssumption
    /\ Plan!PlanningAssumption /\ Plans!PlanningAssumption
    /\ Known!KnowledgeAssumption /\ Talk!SocraticAssumption

Init == PlacementInit \/ RemediationInit \/ WithinInit \/ SurplusInit \/ PlanningInit
        \/ KnowledgeInit \/ DialogueInit
Next ==
    \/ PlacementWalk \/ PlacementTwice \/ RemediationAlone \/ RemediationCrowd
    \/ WithinSession \/ SurplusQuestions \/ PlanningAlone \/ PlanningPair
    \/ KnowledgeGrows \/ Dialogue
Spec == Init /\ [][Next]_vars

\* Surplus questions: until a death, the slots are a queue.
ImplementsQueue ==
    /\ machine = "surplus" => Surplus!Queue!QueueInit
    /\ [][machine = "surplus" /\ crashes' = 0 =>
           [Surplus!Queue!QueueNext]_<<Surplus!Waiting, Surplus!Shown>>]_vars

\* Knowledge: an outcome is the weighted mean of its components again.
OutcomesFollow == [][machine = "known" => Known!OutcomesStep]_vars

\* Knowledge: elsewhere, a success lowers nothing and a failure raises nothing.
EvidenceHasDirection == [][machine = "known" => Known!DirectionStep]_vars

\* Planning: "Recovered stale within-session control state from the current planning
\* state." A session made from a plan that was revised since names a node the plan has.
NodeIsPlanned == machine = "plan" => Plan!NodeIsPlanned
==============================================================================
