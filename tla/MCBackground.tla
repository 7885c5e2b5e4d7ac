---------------------------- MODULE MCBackground ----------------------------
(***************************************************************************)
(* Small instances for TLC of what works behind the learner's requests:    *)
(* the warm queue and the LLM provider with requests one at a time, who    *)
(* decides the next step, and the trackers that judge what became of a     *)
(* decision.  A behaviour is one of these machines, chosen at its start;   *)
(* the variables of the others stay at rest.                               *)
(***************************************************************************)
EXTENDS Integers, Sequences, TLC, WarmPromises, RoutingPromises, VerdictsPromises

CONSTANTS
    solo, \* the thread of every machine
    dividing, counting, halving \* a component, what it builds on, and one near both

VARIABLES
    machine,
    now, pc, plan, fresh, drain, item, current, readAt, cancelIds, failIds,
    retryAt, claimIds, targeted, supplemental, warmed, crashes,            \* WarmQueue, with its rows
    cursor, descriptor, allowFallback, begun, restarts,      \* LLMRouting, with the circuits, the log and the requests
    stamp, today, finished, deaths,                   \* Verdicts, with the log, the requests and the verdicts
    observed, assessed, verdicts, session, week, decision                  \* Progression

queueVars == <<now, rows, pc, plan, fresh, drain, item, current, readAt, cancelIds, failIds,
               retryAt, claimIds, targeted, supplemental, warmed, crashes>>
llmVars == <<clock, circuit, cursor, health, descriptor, allowFallback, req, begun, restarts>>
verdictVars == <<log, stamp, today, finished, request, deaths, given, settled>>
progressVars == <<observed, assessed, verdicts, session, week, decision>>
vars == <<machine, queueVars, llmVars, verdictVars, progressVars>>

Resting == "resting"

LLMRests ==
    /\ clock = 0 /\ circuit = <<>> /\ cursor = Resting /\ health = <<>>
    /\ descriptor = Resting /\ allowFallback = Resting /\ req = <<>>
    /\ begun = Resting /\ restarts = Resting
VerdictsRest ==
    /\ log = <<>> /\ request = <<>> /\ given = <<>> /\ settled = FALSE
    /\ stamp = Resting /\ today = Resting /\ finished = Resting /\ deaths = Resting
ProgressionRests ==
    /\ observed = Resting /\ assessed = Resting /\ verdicts = Resting
    /\ session = Resting /\ week = Resting /\ decision = Resting

-----------------------------------------------------------------------------
(* The queue: an urgent follow-up probe and a high-priority practice of the *)
(* same learner and session.                                                *)

TwoRequests ==
    [fp \in {"probe", "practice"} |->
        [student |-> "ada", session |-> "s1", targets |-> {"kc1"},
         class |-> IF fp = "probe" THEN "urgent" ELSE "high",
         score |-> IF fp = "probe" THEN 820 ELSE 680]]

Queue == INSTANCE WarmQueue WITH
    StarvationWindow <- 2, Threads <- {solo}, Fingerprints <- {"probe", "practice"},
    Students <- {"ada"}, Sessions <- {"s1"}, Targets <- {"kc1"},
    Backoff <- 1, MinDelay <- 1, StaleAfter <- 3, ProcTimeout <- 2,
    InlineLimit <- 1, InlineMayBeOff <- TRUE, DrainLimit <- 2,
    MaxTime <- 4, MaxCrashes <- 1

QueueRests ==
    /\ rows = [id \in TaskIds |-> Queue!NoRow]
    /\ now = Resting /\ pc = Resting /\ plan = Resting /\ fresh = Resting
    /\ drain = Resting /\ item = Resting /\ current = Resting /\ readAt = Resting
    /\ cancelIds = Resting /\ failIds = Resting /\ retryAt = Resting /\ claimIds = Resting
    /\ targeted = Resting /\ supplemental = Resting /\ warmed = Resting /\ crashes = Resting
QueueInit == machine = "queue" /\ Queue!Init /\ LLMRests /\ VerdictsRest /\ ProgressionRests
WarmQueueing ==
    machine = "queue" /\ Queue!Next /\ UNCHANGED <<machine, llmVars, verdictVars, progressVars>>

-----------------------------------------------------------------------------
\* A primary client and its fallback, as setup.md configures them.
LLM == INSTANCE LLMRouting WITH
    Clients <- <<"primary", "secondary">>, Threads <- {solo}, Strategy <- "latency_aware",
    Attempts <- 2, FallbackSettings <- BOOLEAN, Window <- 500, MaxRequests <- 3, MaxRestarts <- 1

LLMInit == machine = "llm" /\ LLM!Init /\ QueueRests /\ VerdictsRest /\ ProgressionRests
Routing ==
    machine = "llm" /\ LLM!Next /\ UNCHANGED <<machine, queueVars, verdictVars, progressVars>>
LLMFairness ==
    WF_vars(/\ machine = "llm" /\ LLM!Work(solo)
            /\ UNCHANGED <<machine, queueVars, verdictVars, progressVars>>)

-----------------------------------------------------------------------------
(* The trackers: decisions, sessions and predictions, and outcomes over     *)
(* some days.                                                               *)

Decision(action, mastery) == [action |-> action, mastery |-> mastery]

\* Work about the knowledge component or about another one.
Observation(touches, completed, signal, mastery) ==
    [touches |-> touches, struggle |-> ~completed, completed |-> completed,
     signal |-> signal, mastery |-> mastery, recent |-> 40]

OutcomeAt(outcome, state, quality, ratio) ==
    [outcome |-> outcome, state |-> state, quality |-> quality, ratio |-> ratio]

Looking == INSTANCE Verdicts WITH
    Decisions <- {Decision("hold_target", 40), Decision("attempt_transfer", -1)},
    Observations <- {Observation(TRUE, TRUE, "productive_struggle", 80),
                     Observation(FALSE, FALSE, "overload", -1)},
    Remediated <- TRUE, Readings <- {}, ListLimit <- 3, DecisionDays <- 0, SessionDays <- 1,
    StallDays <- 1, Threads <- {solo}, MaxEvents <- 5, MaxDays <- 1, MaxDeaths <- 1

\* An outcome worked on, held by the gate, then mastered while another is ready.
Progress ==
    {<<OutcomeAt("fractions", "active", "fragile", 60), OutcomeAt("ratios", "blocked", "nothing", 0)>>,
     <<OutcomeAt("fractions", "active", "support_dependent", 85)>>,
     <<OutcomeAt("fractions", "mastered", "durable", 100), OutcomeAt("ratios", "ready", "nothing", 0)>>,
     <<>>}

Opened == INSTANCE Verdicts WITH
    Decisions <- {}, Observations <- {}, Remediated <- FALSE, Readings <- Progress,
    ListLimit <- 3, DecisionDays <- 0, SessionDays <- 0, StallDays <- 2, Threads <- {solo},
    MaxEvents <- 5, MaxDays <- 2, MaxDeaths <- 1

VerdictsInit ==
    /\ \/ machine = "looking" /\ Looking!Init
       \/ machine = "opened" /\ Opened!Init
    /\ QueueRests /\ LLMRests /\ ProgressionRests

VerdictsLooking ==
    machine = "looking" /\ Looking!Next /\ UNCHANGED <<machine, queueVars, llmVars, progressVars>>
VerdictsOpened ==
    machine = "opened" /\ Opened!Next /\ UNCHANGED <<machine, queueVars, llmVars, progressVars>>

-----------------------------------------------------------------------------
(* Who decides: a learner between a component and what it builds on, and a  *)
(* learner who leans on support and whose holds were judged.                *)

Effort(kc, completed, support, hints, errors) ==
    [kc |-> kc, completed |-> completed, support |-> support, hints |-> hints,
     errors |-> errors, confidence |-> 1, pauses |-> 0, pace |-> 0]
Asked(kc, assessment) == [kc |-> kc, assessment |-> assessment]
Steering(phase, action, intent) == [phase |-> phase, action |-> action, intent |-> intent]
Strategy(known, transfer, rebuild) == [known |-> known, transfer |-> transfer, rebuild |-> rebuild]

Steered == INSTANCE Progression WITH
    Outcome <- (dividing :> "division" @@ halving :> "division" @@ counting :> "counting"),
    Prerequisites <- (dividing :> <<counting>> @@ halving :> <<counting>> @@ counting :> <<>>),
    Bridges <- (dividing :> <<halving>> @@ halving :> <<>> @@ counting :> <<>>),
    Work <- {Effort(dividing, TRUE, "low", 0, 0), Effort(counting, FALSE, "high", 2, 1),
             Effort(halving, TRUE, "high", 2, 0)},
    Assessments <- {[kc |-> counting, score |-> 50, strength |-> "emerging"]},
    Strategies <- {Strategy(FALSE, FALSE, FALSE), Strategy(TRUE, TRUE, FALSE)},
    Controllers <- {Steering("monitor", "monitor", "monitor"),
                    Steering("bridge", "hold_bridge_target", "bridge_target"),
                    Steering("transfer_check", "attempt_transfer", "check_transfer")},
    Requests <- {Asked(dividing, TRUE), Asked(counting, TRUE)},
    Verdicts <- {[family |-> "transfer", kc |-> counting, positive |-> FALSE]}, Breaks <- {0, 2},
    MaxSessions <- 2, MaxObserved <- 3, MaxAssessed <- 1, MaxVerdicts <- 1

Leaning == INSTANCE Progression WITH
    Outcome <- (dividing :> "division"),
    Prerequisites <- (dividing :> <<>>), Bridges <- (dividing :> <<>>),
    Work <- {Effort(dividing, FALSE, "high", 2, 1), Effort(dividing, TRUE, "high", 2, 0)}, Assessments <- {},
    Strategies <- {Strategy(TRUE, TRUE, FALSE)},
    Controllers <- {Steering("monitor", "monitor", "monitor")}, Requests <- {Asked(dividing, TRUE)},
    Verdicts <- {[family |-> "hold", kc |-> dividing, positive |-> FALSE]}, Breaks <- {1},
    MaxSessions <- 3, MaxObserved <- 4, MaxAssessed <- 0, MaxVerdicts <- 3

ProgressionInit ==
    /\ \/ machine = "steered" /\ Steered!Init
       \/ machine = "leaning" /\ Leaning!Init
    /\ QueueRests /\ LLMRests /\ VerdictsRest

ProgressionSteered ==
    machine = "steered" /\ Steered!Next /\ UNCHANGED <<machine, queueVars, llmVars, verdictVars>>
ProgressionLeaning ==
    machine = "leaning" /\ Leaning!Next /\ UNCHANGED <<machine, queueVars, llmVars, verdictVars>>

-----------------------------------------------------------------------------
ASSUME InstancesAssumption ==
    /\ LLM!RoutingAssumption
    /\ Looking!VerdictsAssumption /\ Opened!VerdictsAssumption
    /\ Steered!ProgressionAssumption /\ Leaning!ProgressionAssumption

Init == QueueInit \/ LLMInit \/ VerdictsInit \/ ProgressionInit
Next ==
    \/ WarmQueueing \/ Routing
    \/ VerdictsLooking \/ VerdictsOpened
    \/ ProgressionSteered \/ ProgressionLeaning
Spec == Init /\ [][Next]_vars /\ LLMFairness

\* LLM: every request ends.
EveryRequestEnds ==
    (machine = "llm" /\ ~LLM!At(solo, "idle")) ~> (machine = "llm" /\ LLM!At(solo, "idle"))

\* Progression: a learner who leaned on support is not assessed in a new session.
DependenceIsRemembered ==
    /\ machine = "steered" => Steered!DependenceIsRemembered
    /\ machine = "leaning" => Leaning!DependenceIsRemembered

\* Verdicts: a decision that enough observations followed (two, for most: "Minimum
\* observations after a decision to produce a non-inconclusive outcome"), all of which
\* left the learner above 0.70, is not written off as inconclusive.
DecisionsAreWeighed == machine = "looking" => Looking!DecisionsAreWeighed

\* Progression: "veto premature ordinary transfer when same-session evidence is sparse":
\* where practice across sessions holds the learner on the target, evidence of the
\* session that falls short of the bar for a transfer does not start one.
SparseEvidenceIsVetoed == machine = "steered" => Steered!SparseEvidenceIsVetoed
=============================================================================
