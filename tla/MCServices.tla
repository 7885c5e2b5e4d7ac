----------------------------- MODULE MCServices -----------------------------
(***************************************************************************)
(* Small instances for TLC of services beside the learner's own work: the  *)
(* LLM provider under two threads, ranking under load, the engine that     *)
(* answers requests for content, retention reviews, the household's        *)
(* overview, curricula published and migrated to, and the tracker of       *)
(* predictions.  A behaviour is one of these machines, chosen at its       *)
(* start; the variables of the others stay at rest.                        *)
(***************************************************************************)
EXTENDS Naturals, Sequences, FiniteSets, TLC, RoutingPromises, EnginePromises,
        RetentionPromises, HouseholdPromises, IntakePromises, MigrationPromises, VerdictsPromises

CONSTANTS
    solo, t1, t2, \* the thread of the machines that have one; two others
    ada, ben      \* learners

VARIABLES
    machine,
    cursor, descriptor, allowFallback, begun, restarts, \* LLMRouting
    backlog,                                            \* WarmStarvation, with the clock
    library, surplus, evidence,                         \* GenerationEngine
    doing, nominated,                                   \* Retention
    notifications, lastEvent, issued,                   \* Household, with the day
    worker, asked,                                      \* and these with the curricula
    artifacts,                                          \* CurriculumIntake
    digest, edges, diff, analysis, plan, reviewed, meanwhile, \* CurriculumMigration
    stamp, finished, deaths                             \* Verdicts, with the day

\* Each machine's own variables, with those its promises are stated over.
llmVars == <<circuit, req, cursor, health, descriptor, allowFallback, begun, restarts>>
engineVars == <<history, thread, library, surplus, evidence>>
retentionVars == <<reviews, promised, raced, doing, nominated>>
householdOnly == <<row, suggested, shown, approved, lapsed, dismissed, overlap,
                   notifications, lastEvent, issued>>
sharedVars == <<worker, asked>>
householdVars == <<sharedVars, householdOnly>>
intakeVars == <<framework, imports, runtime, snapshots, artifacts>>
migrationVars == <<digest, edges, diff, analysis, plan, entity, reviewed, meanwhile,
                   aligned, migrated, revised, ratified>>
curriculumVars == <<intakeVars, migrationVars>>
verdictVars == <<log, stamp, finished, request, deaths, given, settled>>
vars == <<machine, clock, today, llmVars, backlog, engineVars, retentionVars, householdVars, curriculumVars,
          verdictVars>>

Resting == "resting"
Pair == {t1, t2}

\* The machines with two threads or two learners do not name them, and the
\* others use neither.
ThreadSymmetry == Permutations(Pair) \cup Permutations({ada, ben})

\* At rest the promises are about no client, no request, no review, no version:
\* a machine's promises hold of the states of the others for want of anything
\* they could speak of.
LLMRests ==
    /\ circuit = <<>> /\ req = <<>>
    /\ cursor = Resting /\ health = <<>> /\ descriptor = Resting
    /\ allowFallback = Resting /\ begun = Resting /\ restarts = Resting
LoadRests == backlog = Resting
VerdictsRest ==
    /\ log = <<>> /\ request = <<>> /\ given = <<>> /\ settled = FALSE
    /\ stamp = Resting /\ finished = Resting /\ deaths = Resting
EngineRests ==
    /\ history = <<>> /\ thread = <<>>
    /\ library = Resting /\ surplus = Resting /\ evidence = Resting
RetentionRests ==
    /\ reviews = <<>> /\ promised = <<>> /\ raced = {}
    /\ doing = Resting /\ nominated = Resting
\* Household shares two variables with the curricula.
SharedRests == worker = Resting /\ asked = Resting
IntakeRests ==
    /\ framework = [import |-> None, snapshot |-> None]
    /\ imports = <<>> /\ runtime = <<>> /\ snapshots = <<>> /\ artifacts = Resting
MigrationRests ==
    /\ digest = Resting /\ edges = Resting /\ diff = Resting /\ analysis = Resting
    /\ plan = Resting /\ reviewed = Resting /\ meanwhile = Resting
    /\ entity = <<>> /\ ratified = {} /\ aligned = {} /\ migrated = {} /\ revised = {}
CurriculumRests == IntakeRests /\ MigrationRests

-----------------------------------------------------------------------------
(* The household: what parents answer, the plans they are asked about, two  *)
(* requests at once, and the notifications.                                 *)

Says(mood, modality, trajectory, session, good) ==
    [mood |-> mood, modality |-> modality, trajectory |-> trajectory,
     session |-> session, good |-> good]

\* A learner who gets on, with another modality suggested, and one who stalls.
Moods == {Says("calm", "diagram", 0, FALSE, TRUE), Says("stalled", "text", 0, FALSE, FALSE)}

\* Trajectories that are revised, with a session to go on with.
Plans == {Says("calm", "text", 1, TRUE, FALSE), Says("calm", "diagram", 1, FALSE, FALSE),
          Says("strained", "text", 2, TRUE, FALSE)}

Everything == [approvals |-> TRUE, suggestions |-> TRUE, outbound |-> TRUE]
Quietly == [Everything EXCEPT !.outbound = FALSE]

Answers == INSTANCE Household WITH
    thread <- worker, Summaries <- Moods, Rollouts <- {Quietly}, Quiet <- 1, Away <- 2,
    ApprovalLife <- 1, AutonomyLife <- 1, AcceptedLag <- 1, DeferredLag <- 1,
    SnoozeDays <- 1, MaxTime <- 2, MaxRequests <- 3, Threads <- {solo}
Revisions == INSTANCE Household WITH
    thread <- worker, Summaries <- Plans, Rollouts <- {Quietly, [Quietly EXCEPT !.approvals = FALSE]},
    Quiet <- 1, Away <- 2,
    ApprovalLife <- 2, AutonomyLife <- 1, AcceptedLag <- 1, DeferredLag <- 1,
    SnoozeDays <- 1, MaxTime <- 2, MaxRequests <- 2, Threads <- {solo}
Parents == INSTANCE Household WITH
    thread <- worker, Summaries <- Moods, Rollouts <- {Quietly}, Quiet <- 1, Away <- 2,
    ApprovalLife <- 1, AutonomyLife <- 1, AcceptedLag <- 1, DeferredLag <- 1,
    SnoozeDays <- 1, MaxTime <- 1, MaxRequests <- 3, Threads <- Pair
Notices == INSTANCE Household WITH
    thread <- worker, Summaries <- {Says("stalled", "diagram", 0, FALSE, FALSE)}, Rollouts <- {Everything},
    Quiet <- 1, Away <- 2,
    ApprovalLife <- 1, AutonomyLife <- 1, AcceptedLag <- 1, DeferredLag <- 1,
    SnoozeDays <- 1, MaxTime <- 1, MaxRequests <- 3, Threads <- {solo}

HouseholdOnlyRests ==
    /\ row = Answers!NoRow /\ suggested = Answers!NoSuggestion
    /\ shown = {} /\ approved = {} /\ lapsed = {} /\ dismissed = {} /\ overlap = FALSE
    /\ notifications = Resting /\ lastEvent = Resting /\ issued = Resting
HouseholdRests == HouseholdOnlyRests /\ SharedRests

HouseholdElseRests ==
    /\ clock = 0 /\ LLMRests /\ LoadRests /\ EngineRests /\ RetentionRests /\ CurriculumRests
    /\ VerdictsRest

AnswersInit == machine = "answers" /\ Answers!Init /\ HouseholdElseRests
HouseholdInit ==
    \/ AnswersInit
    \/ machine = "revisions" /\ Revisions!Init /\ HouseholdElseRests
    \/ machine = "parents" /\ Parents!Init /\ HouseholdElseRests
    \/ machine = "notices" /\ Notices!Init /\ HouseholdElseRests

HouseholdRest ==
    UNCHANGED <<machine, clock, llmVars, backlog, engineVars, retentionVars, curriculumVars,
                verdictVars>>

HouseholdAnswers == machine = "answers" /\ Answers!Next /\ HouseholdRest
HouseholdRevisions == machine = "revisions" /\ Revisions!Next /\ HouseholdRest
HouseholdParents == machine = "parents" /\ Parents!Next /\ HouseholdRest
HouseholdNotices == machine = "notices" /\ Notices!Next /\ HouseholdRest

-----------------------------------------------------------------------------
\* Two requests at once over a primary client and its fallback.
LLM == INSTANCE LLMRouting WITH
    Clients <- <<"primary", "secondary">>, Threads <- Pair, Strategy <- "round_robin",
    Attempts <- 1, FallbackSettings <- {TRUE}, Window <- 0,
    MaxRequests <- 3, MaxRestarts <- 0

LLMInit ==
    /\ machine = "llm" /\ LLM!Init
    /\ today = 0 /\ LoadRests /\ EngineRests /\ RetentionRests /\ HouseholdRests
    /\ CurriculumRests /\ VerdictsRest

LLMPair ==
    machine = "llm" /\ LLM!Next
        /\ UNCHANGED <<machine, today, backlog, engineVars, retentionVars, householdVars,
                       curriculumVars, verdictVars>>

\* Up to two arrivals before each claim, of the best kind that is not urgent.
Load == INSTANCE WarmStarvation WITH
    StarvationWindow <- 1, Expiry <- 6, Limits <- {1, 3}, Burst <- 2,
    ArrivalTypes <- {"worked_example"}, ArrivalReasons <- {"repair"}

LoadInit ==
    /\ machine = "load" /\ Load!Init
    /\ today = 0 /\ LLMRests /\ EngineRests /\ RetentionRests /\ HouseholdRests
    /\ CurriculumRests /\ VerdictsRest

Starvation ==
    machine = "load" /\ Load!Round
        /\ UNCHANGED <<machine, today, llmVars, engineVars, retentionVars, householdVars,
                       curriculumVars, verdictVars>>

-----------------------------------------------------------------------------
\* Two requests of two learners at once, a draft of which may be made again; and
\* one at a time with evidence that comes in meanwhile.
Serving == INSTANCE GenerationEngine WITH
    Threads <- Pair, Learners <- {ada, ben}, Topics <- {"k1"}, VerificationRetries <- 1,
    MaxSurplus <- 1, MaxRows <- 2, MaxEvidence <- 0
Expiring == INSTANCE GenerationEngine WITH
    Threads <- {solo}, Learners <- {ada, ben}, Topics <- {"k1"}, VerificationRetries <- 1,
    MaxSurplus <- 1, MaxRows <- 2, MaxEvidence <- 1

EngineInit ==
    /\ \/ machine = "serving" /\ Serving!Init
       \/ machine = "expiring" /\ Expiring!Init
    /\ clock = 0 /\ today = 0 /\ LLMRests /\ LoadRests /\ RetentionRests
    /\ HouseholdRests /\ CurriculumRests /\ VerdictsRest

EngineRest ==
    UNCHANGED <<machine, clock, today, llmVars, backlog, retentionVars, householdVars,
                curriculumVars, verdictVars>>

EngineServing == machine = "serving" /\ Serving!Next /\ EngineRest
EngineExpiring == machine = "expiring" /\ Expiring!Next /\ EngineRest

-----------------------------------------------------------------------------
Reviews == INSTANCE Retention WITH Threads <- Pair, MaxDays <- 2, MaxNominations <- 3

ReviewsInit ==
    /\ machine = "reviews" /\ Reviews!Init
    /\ clock = 0 /\ LLMRests /\ LoadRests /\ EngineRests /\ HouseholdRests /\ CurriculumRests
    /\ VerdictsRest

RetentionReviews ==
    machine = "reviews" /\ Reviews!Next
        /\ UNCHANGED <<machine, clock, llmVars, backlog, engineVars, householdVars, curriculumVars,
                       verdictVars>>

-----------------------------------------------------------------------------
(* Curricula: a version that is sound and one with a cycle of               *)
(* prerequisites, imported and published by two requests at once.           *)

Version(keys, refers, prerequisites) ==
    [keys |-> keys, refers |-> refers, prerequisites |-> prerequisites]

Sound == Version(<<"outcome", "k1", "k2">>,
                 [outcome |-> {"k1", "k2"}, k1 |-> {"outcome"}, k2 |-> {"outcome"}],
                 [outcome |-> {}, k1 |-> {}, k2 |-> {"k1"}])
Circular == Version(<<"outcome", "k3">>,
                    [outcome |-> {"k3"}, k3 |-> {"outcome"}],
                    [outcome |-> {}, k3 |-> {"k3"}])

Intake == INSTANCE CurriculumIntake WITH
    thread <- worker, Bundles <- [sound |-> Sound, circular |-> Circular], Threads <- Pair, MaxRequests <- 4

IntakeInit ==
    /\ machine = "intake" /\ Intake!Init
    /\ clock = 0 /\ today = 0 /\ LLMRests /\ LoadRests /\ EngineRests /\ RetentionRests
    /\ HouseholdOnlyRests /\ MigrationRests /\ VerdictsRest

OthersRest ==
    UNCHANGED <<machine, clock, today, llmVars, backlog, engineVars, retentionVars, householdOnly,
                verdictVars>>

Importing ==
    machine = "intake" /\ Intake!Next /\ OthersRest /\ UNCHANGED migrationVars

(* Two components that are replaced, one that is reworded and one whose     *)
(* prerequisites change; with requests one at a time, and two at once while *)
(* a goal is revised or a learner erased.                                   *)

OldSnapshot == {"k1", "k2", "k3", "k4"}
NewSnapshot == {"k3", "k4", "n1", "n2"}
Differences == [k3 |-> {"wording"}, k4 |-> {"prerequisites"}]
Referring ==
    [goal |-> <<"k1", "k2">>, library |-> <<"k1", "k3">>, trajectory |-> <<"k4">>,
     aim |-> <<"k1", "z1">>, assignment |-> <<"k1", "k3">>]

Alone == INSTANCE CurriculumMigration WITH
    thread <- worker,
    Components <- <<"k1", "k2", "k3", "k4", "n1", "n2">>, Elsewhere <- {},
    Fields <- Differences, Alignments <- {<<"k1", "n1">>, <<"k2", "n2">>}, Requested <- {},
    Entities <- <<"goal", "library", "trajectory">>,
    Kind <- [e \in {"goal", "library", "trajectory"} |-> e],
    Threads <- {solo}, MaxReviews <- 4, MaxRequests <- 5, MaxMeanwhile <- 0
Crowd == INSTANCE CurriculumMigration WITH
    thread <- worker,
    Components <- <<"k1", "k2", "k3", "k4", "n1", "n2">>, Elsewhere <- {"z1", "z2"},
    Fields <- Differences, Alignments <- {<<"k1", "n1">>, <<"k1", "z2">>}, Requested <- {"z1"},
    Entities <- <<"aim", "assignment">>,
    Kind <- [aim |-> "goal", assignment |-> "assignment"],
    Threads <- Pair, MaxReviews <- 2, MaxRequests <- 5, MaxMeanwhile <- 1

MigrationInit ==
    /\ \/ machine = "migration" /\ Alone!Init
       \/ machine = "migrations" /\ Crowd!Init
    /\ clock = 0 /\ today = 0 /\ LLMRests /\ LoadRests /\ EngineRests /\ RetentionRests
    /\ HouseholdOnlyRests /\ IntakeRests /\ VerdictsRest

Migration ==
    machine = "migration" /\ Alone!Next /\ OthersRest /\ UNCHANGED intakeVars
Migrations ==
    machine = "migrations" /\ Crowd!Next /\ OthersRest /\ UNCHANGED intakeVars

-----------------------------------------------------------------------------
\* Two requests at once that observe, judge earlier predictions and may die.
Crowded == INSTANCE Verdicts WITH
    Decisions <- {}, Remediated <- FALSE, Readings <- {}, Threads <- Pair,
    Observations <- {[touches |-> TRUE, struggle |-> FALSE, completed |-> TRUE,
                      signal |-> "support_dependence", mastery |-> 80, recent |-> 40]},
    ListLimit <- 3, DecisionDays <- 0, SessionDays <- 0, StallDays <- 1,
    MaxEvents <- 6, MaxDays <- 0, MaxDeaths <- 1

CrowdedInit ==
    /\ machine = "crowded" /\ Crowded!Init
    /\ clock = 0 /\ LLMRests /\ LoadRests /\ EngineRests /\ RetentionRests /\ HouseholdRests
    /\ CurriculumRests

Judging ==
    machine = "crowded" /\ Crowded!Next
        /\ UNCHANGED <<machine, clock, llmVars, backlog, engineVars, retentionVars, householdVars,
                       curriculumVars>>

-----------------------------------------------------------------------------
ASSUME InstancesAssumption ==
    /\ LLM!RoutingAssumption /\ Load!WarmStarvationAssumption
    /\ Serving!EngineAssumption /\ Expiring!EngineAssumption
    /\ Reviews!RetentionAssumption
    /\ Answers!HouseholdAssumption /\ Revisions!HouseholdAssumption
    /\ Parents!HouseholdAssumption /\ Notices!HouseholdAssumption
    /\ Intake!CurriculumIntakeAssumption
    /\ Alone!CurriculumMigrationAssumption /\ Crowd!CurriculumMigrationAssumption
    /\ Crowded!VerdictsAssumption

Init ==
    \/ LLMInit \/ LoadInit \/ EngineInit \/ ReviewsInit \/ HouseholdInit
    \/ IntakeInit \/ MigrationInit \/ CrowdedInit
Next ==
    \/ LLMPair \/ Starvation \/ EngineServing \/ EngineExpiring \/ RetentionReviews
    \/ HouseholdAnswers \/ HouseholdRevisions \/ HouseholdParents \/ HouseholdNotices
    \/ Importing \/ Migration \/ Migrations \/ Judging
Spec == Init /\ [][Next]_vars

\* One machine by itself: a migration of one administrator, and a parent's answers.
MigrationSpec == (MigrationInit /\ machine = "migration") /\ [][Migration]_vars
AnswersSpec == AnswersInit /\ [][HouseholdAnswers]_vars

\* Ranking: what waits from the start is served before it expires.
WaitingIsServed == machine = "load" => Load!WaitingIsServed

\* Curricula: "Every affected curriculum reference has an approved equivalent alignment":
\* a reference that is remapped becomes an equivalent of what it was, not of another.
RemapFollowsAlignment == machine = "migration" => Alone!RemapFollowsAlignment
=============================================================================
