# Formal models of Dibble

Dibble is an adaptive learning service: a FastAPI application
(`src/src/dibble`) over one SQLite file, with a React front end that holds no
state of its own. This directory holds TLA+ models of the parts of it whose
correctness depends on the order of steps or on many rules meeting, the TLC
configurations that check them on small instances, and TLAPS proofs of what holds
for every instance.

## How the system runs

* The HTTP handlers are plain `def` functions, so FastAPI runs each request on
  a thread of its pool. Two requests for one learner run concurrently; there is
  no per-learner lock.
* `services/sqlite_connection.py` gives every thread its own connection (WAL,
  a busy timeout). A SELECT runs by itself and sees one committed state; the
  first UPDATE or INSERT opens a transaction that ends at `commit()`. A store
  method that reads, decides and then writes is therefore **not** atomic: the
  models split it into an action that reads and one that writes.
* Objects built once in `bootstrap.py` (the LLM provider, caches) are shared by
  all threads without locks.
* Nothing in the server runs by itself: the "scheduler" of predictive warming
  is driven by requests. A process or thread may die between any two
  statements; what was committed stays.
* Much of what the service knows is not kept in a table of its own but worked out,
  at every request, from the newest few hundred events of an audit log that all
  learners share: an event can drop out of the window while a row made from it
  remembers it.

## Inventory

The status of each component is in `PROJECT.json`; paths are under
`src/src/dibble/services` unless said.

| component | state | operations | what is hard | what makes it correct |
|---|---|---|---|---|
| predictive warm queue and scheduler (`predictive_warm_queue_store.py`, `predictive_warm_scheduler.py`, `content_warmer.py`) | table `predictive_warm_queue` | enqueue, sweep, claim, warm, complete / fail / defer, cancel | SELECT-then-UPDATE between threads, death of a claimer, backoff, expiry, starvation of low priorities | every task settles; attempts stay within the cap; nobody starves |
| LLM provider (`llm_provider.py`, `provider_health.py`) | circuit per client in memory, `provider_health_events` | generate with retries and failover, streaming, hydration after a restart | circuits shared by threads; a log that must survive a restart | a circuit opens after its threshold, for one cooldown; the mock is the last resort |
| generation engine, content store, library (`generation_engine.py`, `generated_content_store.py`, `predictive_content_invalidator.py`, `harness/content_library.py`) | `generated_content`, library entries | answer a request from surplus, library or model; expire what evidence made stale | what is verified when; rows that outlive the evidence against them | what is served was checked and is on record |
| surplus practice (`surplus_practice_cache.py`) | slots in `generated_content` | pop, promote, fill, expire | deaths between statements of a move | no question twice, none against the evidence |
| placement (`placement.py`, `placement_session_store.py`) | `placement_sessions`, a map of dependents in memory | start, answer, complete | resumed and doubled answers; a map all threads share, filled without a lock and never again | the walk converges; profile and report agree |
| mastery and state inference (`observation_profile_update.py`, `knowledge_state_migration.py`, `state_inference.py`) | the learner's profile | blend evidence, backfill, carry it along prerequisites | one row, read and written whole; three ways of changing one number | outcomes follow components; evidence has one direction |
| remediation (`remediation_workflows.py`, `remediation_session_store.py`, `content_workflow.py`) | `remediation_sessions` | trigger, advance, hold | two submissions of one step; gates over moving evidence | steps add up; nobody passes a gate on borrowed work |
| within-session adaptation (`within_session_adaptation.py`, `within_session_controller_store.py`) | a controller per session | observation, assessment, generation | long event sequences; a window that forgets | transfer is earned; loops of support are noticed |
| Socratic assessment (`socratic_*.py`, `harness/assessment_evidence.py`) | dialogue sessions | score a turn, choose the next question | rules whose order matters | a stuck learner is asked something else |
| progression ownership (`progression_ownership.py`, `kc_sequence_planner.py`, `ordinary_mastery_profiles.py`) | none of its own (derived from the log) | decide what a request for content becomes | four sources of a decision with bars that move | weak evidence does not override strong |
| goals, trajectories, session control (`trajectory_planner.py`, `harness/curriculum_planning.py`, `harness/within_session_control.py`) | goals, trajectories, sessions | set a goal, open the workspace, ask for content | three tables brought into line by whichever request comes | the session follows the goal that is shown |
| retention reviews (`retention_scheduler.py`, `retention_review_candidate_store.py`) | `retention_review_candidates` | nominate, merge, mark due, list | requests at once that each find a row, or none, and write it back whole | a promised review comes up |
| outcome trackers and the audit log (`progression_outcome_tracker.py`, `misconception_remediation_outcomes.py`, `learner_state_prediction_outcomes.py`, `mastery_quality_gate_outcomes.py`) | events in the audit log | judge decisions, sessions, predictions, holds | the judge reads a log that the same request still has to write | judged once, and on what followed |
| household (`household_service.py`, `autonomous_teacher_harness.py`, `parent_notification_store.py`) | relationship rows, notifications | overview, approve, reject, accept, snooze, dismiss | every look writes the row that decisions write | a decision holds; counts stay consistent |
| curriculum import and evolution (`harness/curriculum_intake_harness.py`, `harness/curriculum_evolution.py`) | frameworks, imports, snapshots, runtime tables, alignments, diffs, plans | import, publish, align, diff, analyse, plan, approve, execute | many commits; a chain of stored documents, each made from the one before; ids nobody looks up | what is published can be read; migrations do what was approved |
| guardian invites, sign-in, administration, classrooms, courses, assignments | their tables | create, read, update, delete | little | referential checks |
| rollout policy (`rollout_decision_service.py`, `rollout_policy_store.py`) | policy document | resolve buckets and kill switches | none (a pure function of the policy) | a kill switch wins |
| learner flow, teacher interventions (`learner_flow_service.py`, `teacher_intervention_actions.py`) | none; decisions in the audit log | choose what the workspace shows | precedence over a log that forgets | - |
| telemetry, summaries, calibration and trait profiles | derived from audit events | aggregate | little | arithmetic |
| prompts, moderation, verification, retrieval | none | pure functions of text | little | their own outputs |
| front end, scripts, deployment files | browser state | views over the API | not the program's core logic | - |

Components interact through the database and through calls. A request for content
passes progression ownership, the trajectory and the session's controller, then the
generation engine, which reads the surplus and the library, calls the LLM provider,
verifies, and writes content, library and surplus; the handler then queues
predictive requests and drains part of that queue, which runs the same engine
again. An observation has earlier decisions judged, updates the profile, moves the
controller, nominates reviews, expires predictive content and cancels queued
requests. Placement calls the engine for every question and ends by writing the
profile that all others read.

## Modules

| module | stands for | uses |
|---|---|---|
| `WarmPriority` | priority of a request, aging, ranking and choice of a batch, as operators | - |
| `WarmStarvation` | the ranking under sustained load, one class waiting | extends `WarmPriority` |
| `WarmQueue` | the queue table and the scheduler, statement by statement | extends `WarmPriority`; implements `WarmLifecycle` |
| `WarmLifecycle` | abstract: the legal moves of one task | - |
| `LLMRouting` | clients, retries, circuit breaker, health log, restart | - |
| `SurplusPractice` | the surplus slots, statement by statement | implements `SurplusQueue` |
| `SurplusQueue` | abstract: a queue that may forget and never repeats | - |
| `GenerationEngine` | the path of one request, from surplus to storing | - |
| `Placement` | the walk, its session row, the seeding of the profile | - |
| `Evidence` | what one observation is worth, as operators | - |
| `Knowledge` | the masteries of a profile | extends `Evidence` |
| `Remediation` | a remediation session and its gates | extends `Evidence` |
| `Socratic` | a Socratic dialogue | extends `Evidence` |
| `Progression` | who decides the next step | extends `Evidence` |
| `WithinSession` | the controller of a learning session | - |
| `Planning` | goals, trajectories and sessions | - |
| `Retention` | reviews nominated, merged, marked due | - |
| `Verdicts` | four trackers over the audit log | - |
| `Household` | a relationship row, its approvals and notifications | - |
| `CurriculumIntake` | import and publication of a framework | - |
| `CurriculumMigration` | alignment, diff, analysis, plan, execution | - |
| `MCLearning`, `MCServices`, `MCBackground` | instances of the above, several to a run | INSTANCE of each |
| `WarmPromises`, `RoutingPromises`, `EnginePromises`, `SurplusPromises`, `PlacementPromises`, `RemediationPromises`, `WithinPromises`, `SocraticPromises`, `PlanningPromises`, `RetentionPromises`, `HouseholdPromises`, `IntakePromises`, `MigrationPromises`, `VerdictsPromises` | the part of a component's state that can be observed, and what is promised of it | extended by the component and by its `MC...` module |
| `WarmQueue_proofs`, `LLMRouting_proofs` | theorems about one component each | extend the component, TLAPS |
| `Content_proofs` | theorems about generated content: `GenerationEngine`, `SurplusPractice` | extends the first; an INSTANCE of the second with the parameters of its own theorems |
| `Records_proofs` | theorems about what is remembered of a learner: `Verdicts`, `Household` | the same |
| `Session_proofs` | theorems about what happens within a session: `Remediation`, `WithinSession`, `Socratic` | an INSTANCE of the second and third |
| `Path_proofs` | theorems about what happens across sessions: `Retention`, `Placement`, `Planning` | the same |
| `Curriculum_proofs` | theorems about curricula: `CurriculumMigration`, `CurriculumIntake` | extends the first; an INSTANCE of the second |
| `MCWarmQueue` | constants for `WarmQueue` | extends it |

Definitions keep the names of the functions they model; `PROJECT.json` maps each
of them to its lines. A comment beginning with "Mutant:" marks a variant that the
code does *not* have; the specification never uses it. `PROJECT.json` says which
property it breaks when it is put in place of the definition that follows it.

`MCLearning`, `MCServices` and `MCBackground` put several *machines* into one run.
`machine` is chosen in the initial state and never changes; the variables of the
other machines rest, so that a state space is the disjoint union of those of its
machines. Machines share variables of the same name. They are independent on purpose:
where two components act on each other, the module of one holds the other's part
(the engine its library and surplus, remediation the observations, planning the
progression that moves on).

Fourteen components state their properties in a module of their own, `...Promises`, which
declares only the variables the properties speak of. The component extends it and is proved
about; the `MC...` module extends it too, and so TLC checks the very definition that the theorem
names. These variables cannot rest as just anything: in the states of other machines they have
a value of which the promise holds (no row, no request, the initial table), and
the property needs no `machine = ... =>` before it, as the others do.

Type invariants are kept where they say something: `TypeOK` of `WarmQueue` is checked
and proved, and says that no thread decides about a row that does not exist. Those of the other
components are parts of the inductive invariants in their proofs.

### Predictive warm queue

`rows` is the table, one record per task. A thread's `pc` names the statement it
runs next; what a store method decided from its SELECT is in `cancelIds`,
`failIds`, `retryAt` and `claimIds` until the UPDATE of the same method runs.
`StartGenerate` begins `finalize_generated_content` (`EnqueueSelect`,
`EnqueueInsert` for each planned request, then `StartInline`), `StartDrain` the
`/content/warm/process` endpoint, `CancelSelect` the cancellation that every
observation triggers. Both passes sweep, claim, and warm what they claimed; a
warming ends in `MarkCompleted`, `WarmSkipped`, or `WarmRaises` with
`RetrySelect` and `RetryWrite`. Every UPDATE names task ids only, so that a late
writer overwrites whatever is there. `Crash` loses a thread's decisions and
claims and keeps what it committed. `_process_tasks` may take the claimed rows
in any order; claim metadata and `stats()` are left out. Whether a process runs
inline passes at all is a setting it reads when it starts; `SkipInline` may happen
at any request, which contains both settings.

* Run `background`, machine `queue`: one request at a time, a crash between any two
  statements, one urgent and one high request. Each task moves only as `WarmLifecycle`
  allows (`ImplementsLifecycle`): caps hold, terminal states are final, no retry is
  claimed before its date, and a row the sweep recovers keeps the attempts it has
  used. With two threads neither the caps nor the finality hold; that is the next
  run's subject.
* Run `queue_pair`: two threads on one row, one crash, fairness. What survives every
  overwrite: dates exactly on deferred rows, attempts that pay for every claim
  still held, no completed row without content, attempts within the cap plus
  what `n` threads can add to it (`n * (n - 1)`), and every task whose expiry
  comes within `MaxTime` ends for good, if drains are requested again and again.
  That condition is part of `EverySettles`, not of the fairness: nothing in the
  server calls the endpoint by itself.
* Run `services`, machine `load`: the waiting explanation follow-up against worked
  examples that arrive up to two at a time, claims of one or of three. The ratio of
  expiry (30 minutes) to starvation window (5 minutes) is the code's. It is claimed
  before it expires. Against remedial requests in batches of two it would not be: the
  capped aging bonus does not close the gap. That is a limit of the ranking, not
  contradicted by anything the code says, and so no run.

One row is enough for what threads do to each other, because no UPDATE relates
two rows; two are needed for the choice of a batch, which the sequential machine has.
`MaxTime` lets a task wait, be claimed, go stale, be recovered and expire.

### LLM provider

`circuit` is `client_states`, shared by all threads and written without a lock;
`health` is the event log, newest last. `CheckClosed` and the `compare` step are
the two reads of `open_until` in `_is_available`; `Trip` and `LogOpen`,
`CloseCircuit` and `LogSuccess`, `CountFailure` and `LogFailure` are apart
because the log commits between them. `Restart` is a new process that hydrates
from the log. A call ends in a retry, a failure or a success, whichever;
`latency_aware` lets measured clients come in any order, which contains the
configured one. Events are kept in the order of their insertion.

* `background`, machine `llm`: three requests, with the mock allowed or not, and one
  restart anywhere, after which the setting may be another. A circuit opens after its
  threshold and not before, in whichever process the failures were counted; its date,
  which a new process takes over from the log, is one cooldown away at most; a restart
  between requests changes nothing a caller can see; every request ends.
* `services`, machine `llm`: two threads, a shared round-robin cursor. The mock answers
  only after every client was skipped or failed in that very request. Three requests let
  one trip a circuit and two find its cooldown over together.

Several properties of the first machine do not hold with two threads, as the shared
state suggests: a circuit tripped meanwhile is still called, a success between
count and trip leaves a circuit open with no failure behind it,
`last_used_descriptor` names the other thread's client, and a thread that clears
`open_until` between another's two reads of it makes the other's request raise. The
log's window (500 events) is not reached; in the machine without restart nothing
reads the log and the window is 0.

### Surplus practice

A question is its response (`batch`) and its place in it; `slot[n]` is the row
`surplus:<learner>:<session>:<n>`. `pop_surplus`, `_promote_surplus`,
`cache_surplus` and `expire_predictive_content` are taken apart into their
statements. `learning`, machine `surplus`: responses of up to three questions,
evidence and a death. No question is shown twice, none after evidence that came before its
request, and until the first death the slots are a `SurplusQueue`. A death while
slots move down leaves a gap, and the order of later questions is lost; the first
two properties still hold. Two requests at once can show one question twice, and
an observation that falls between the two statements of a promotion can be
undone by it; so the machine has one thread.

### Generation engine

A thread carries one request from `pop` to `answered`. What a draft is worth
(`good`, `wrong`, `unsafe`) is chosen when it is made; verification and
moderation see it when the code runs them. The library has for each topic an
entry for the planned delivery mode and one for the fallback's, because the
fallback changes the mode and with it the key; any entry of the selection key may
rank first. Streaming takes the same steps in the same order. The remote library
is off by default and left out.

* `services`, machine `serving`: two threads, two learners, one topic, one retry, one
  surplus question, two recorded contents. What comes from the model or the library was
  verified and moderated or is a fallback, is recorded, and belongs to the
  learner who asked, although entries lapse and are replaced between lookup and
  copy. Machine `expiring`: the same with evidence in between, one request at a time.
* `engine_unverified` (a violation): the surplus questions left the draft before
  it was verified, and are served as they are.
* `engine_stale` (a violation): evidence expires the row of warmed content, the
  library still leads to it.

Two contents are the least that let one request read what another made; one
topic is enough because no property relates two.

### Placement

`row` is the saved session, a thread's `doc` its copy. `Start` and `Respond` read
it, `NextAsked` and `NextFailed` are the passes of `_advance_to_next_item` (the
engine makes a question or raises), `SeedRead` and `SeedWrite` the profile's
read and write in `_complete`, `Save` the final upsert.

The dependents of a KC come from `_dependents_cache`, which all calls share. It is filled
entry by entry without a lock by whichever call finds it empty, this learner's or another's
(`Fill`), and a right answer is looked up in what is there (`LookUp`). `mapped` is how much
of the corpus has been gone through, `stale` says that the map is of a time before the last
import; nothing but a new process empties it (`Restart`). `missed` remembers the dependents a
look-up did not find.

* `learning`, machine `walk`: five KCs in two regions that meet, budget 3, a learner
  without a profile and one who is weak at one end and strong at the other, one call at a
  time, dying anywhere, the process restarting, a map filled before or after an import. What
  the report says and what the profile says agree, also when a call died after seeding
  and was repeated with another answer.
* Machine `twice`: two calls at once on the same graph. Whichever copy is saved last, a
  session that ends short of its budget has asked about every neighbour an answer points
  to, except what could not be asked about and what a look-up missed. An answer can be
  replaced by the other call's, and a completed session become active again; nothing in
  the code says it may not.
* `placement_torn` (a violation): without that exception, a look-up in a map that another
  call is still filling ends the walk early. A component imported after the map was filled
  does the same with calls one at a time, until the process restarts; the model has it
  (`stale`), and it is the other half of the exception.

One session is followed; the graphs have every shape the walk tells apart (chain,
shared dependent, several prerequisites, anchor in the middle). Seeding does not touch the
masteries of outcomes, which lag until the next evidence.

### Mastery

`Evidence` is the arithmetic of one observation, in whole hundredths; four modules
extend it. `Knowledge` follows a profile's masteries: `BeginObservation` and
`BeginDialogue` read the row, `AppendObservation` stores the observation and weighs
it, `WriteBack` puts the whole row back. `Migrated` is `apply` of
`knowledge_state_migration.py`: a blend of what the evidence names (`Direct`), a
`Backfill` from the outcome, `Propagated` along prerequisites in both directions, and
outcomes added up again. A Python set's order, in which outcomes are gone through,
is a choice (`Orders`).

`learning`, machine `known`: three components in a chain over two outcomes, two requests at
once that may die, four kinds of work, three dialogues, three profiles. Wherever a
write-back changed a component, its outcome is the weighted mean again, by
whichever of the three ways it changed; and outside the outcomes the
evidence is about, a success lowers nothing and anything less raises nothing.

Work counts for the generation it was done for, for its session, or, when it names
neither and is strong, for what it targets (`Linkage`); earlier work supports it when it
shares its session or its generation and some component (`SharesLink`, `Supporting`).

Components are alike in difficulty and time, what the learner's history adds to a
weight is a choice, and an observation is fresh when it is weighed (its recency factor is
1). Dates of practice and the decay computed from them are left out; the code does
not refresh them on Socratic or placement evidence. The profile that a dialogue
writes back is the one it read before its question was generated; an observation in
between is lost from it. The model does so too, and no line of the repository says
otherwise.

### Remediation

`row` is the session, named by its steps; content is named by the step it was made
for. `Advance` reads the session and the observations and puts the gate to them,
`Request` reads the session again to ask for content, `RecordRead` and `RecordWrite` are
the read and the write of `complete_current_step` or
`update_progression_decision`. `basis` and `overlap` are histories: on what each step
was passed, and whether two requests were ever at work at once.

`learning`, machine `alone`: every kind of work with requests one at a time; machine
`crowd`: two requests. The row adds up whichever requests wrote over each other;
one at a time, a step behind a gate is passed only on no work seen ("unheard") or on work of the
learner's own ("rested", as against "unrested"), and what the learner is told to do next can be
done. With two, a step can be
passed whose gate nobody looked at, and be recorded with the other's content.

### Within a session

`Event` appends an observation or an assessment and moves the controller by all the
session's events the log still shows (`RawSummary`, `Controller`);
`RecordGeneration` uses up a step of the support budget; `Forget` drops the oldest
event (six hours old, or out of the newest 500 of all learners). Events of a
session are handled one at a time. `learning`, machine `within`: four observations,
three assessments, a log of three. Transfer takes two positive summaries since the
last negative one, whatever was forgotten in between; a third content in one phase
of support without recovery calls for a new angle.

### Socratic dialogue

`Load` reads the session and takes an answer, `Save` scores it, chooses the next kind of
question and writes the row. The text of an answer counts through its four signals
only; a confidence comes with an answer only, and a turn without an answer counts as
insufficient, as in the code. `learning`, machine `talk`: six answers or none, five turns. A
learner whose answers move nothing is not asked the same kind of question a third
time, although the branches of the policy look at two turns only and come in an
order of their own. Two requests at once are not followed: nothing says what should come of them.

### Progression

Nothing is stored but the log. `Resolve` is `resolve_request`: `Sequence` and `Staged`
are the planner of sequences and the stage it leaves the learner at,
`EvidenceDecision` what the session showed, `Practice`, `Signal` and `HoldBar` what
practice across sessions says, `HoldAdjustment` and `TransferAdjustment` what became of earlier
decisions, `Gated` the gate in front of assessments. Strategy, controller and
verdicts are choices here; `WithinSession` and `Verdicts` model how the last two come about.
Time is in weeks, because weights change at whole weeks; work names its component
and outcome, counts for mastery and belongs to a session; the names of the gate's
actions are one, `before_assessment`. `current_action == "attempt_transfer"` and
a session's `hold_repair_target` cannot occur and are left out.
The operators were compared with `ProgressionOwnershipService.resolve_request` on
some 75,000 random histories: they differ only where the program's floating-point numbers
break a tie.

* `background`, machines `steered` (a component, a prerequisite, a bridge; every
  source of a decision) and `leaning` (four observations over three sessions, holds that
  failed before): who leaned on support for all their work is not given an assessment
  when they open a new session, however scores rose or jumped and however often
  holds failed.
* `progression_sparse` (a violation): where practice across sessions holds the learner on
  the target, a transfer that falls short of its bar is taken by the branch after it.

The adjustment that verdicts on prerequisites make (`prerequisite_threshold_adjustment`)
is computed and never read, so it is not in the model.

### Goals, trajectories and sessions

`OpenWorkspace`, `MakeOverview`, `AskForContent` and `SetGoal` are the four requests that
plan; `ReadGoal`, `Compare`, `StoreTrajectory`, `StoreGoal`, `Bind` and
`StoreSession` the statements they share. A node of a plan is its outcome, component
and risk, and whether a slower pace makes it a session longer (the cap of five sessions is
left out). What the recent outcomes say nothing of stays as the stored trajectory was adapted
to it (`Adapted`). Reading progression and goal counts as one step, the requested target is
applied by progression, a flow is a lesson, and goals have a title with an outcome or
a target. Nothing in the code closes a goal or a session.

* `learning`, machines `plan` (one request after another while outcomes are
  mastered and the pace changes) and `plans` (two at once): the next request that meets no other
  puts the learner back on course. The session is for the goal and trajectory shown,
  and the trajectory is the one that would be planned now.
* `planning_stale` (a violation): the revision is reported to the first of two plans,
  and the session is looked after by the second.

### Retention reviews

A row has the columns by which it is found and a payload, which is what a reader
gets. `Find` and `Store` are the read and the write of a nomination, `MarkRead`
and `MarkWrite` of listing; any number of requests do either at once. `raced` remembers the
clusters with a review that one request wrote back while another, which had read it before, was about to.

* `services`, machine `reviews`: three nominations of any source over two days, by two
  requests that nominate, merge, list and die. A review comes up no later than it was
  nominated for, unless two requests merged into the same row at once: the later write then
  takes back the nearer day. Requests at once that insert, mark, or merge into different rows do
  no harm, although two that find no review of a cluster insert one each: both come up.

What a stale payload overwrites (tier and nearer day in the payload) is not promised by
anything. `record_review` has no caller, so nothing completes a review. Two days are enough
for an urgent review (one day) and for a standard one (two) to come due and be merged into one
another; a light one never comes due within them, but is merged into.

### Outcome trackers

`BeginObservation` to `EvaluatePredictions` is the order of `observe_learner_state`:
decisions and sessions are judged, *then* the observation is appended, then
predictions are judged. `BeginReading`, `DetectTransitions` and `EvaluateHolds` is the
progression route. A tracker works out its verdicts from the log of that moment
(`Judge`) and appends them one by one (`Record`). `Forget` drops the oldest event; the limits of the
trackers, 500 to 800 events, count as one. `given` is every verdict there ever was.

* `background`, machines `looking` (decisions and sessions, requests one at a time,
  a death) and `opened` (outcomes over days): a decision and a prediction have one verdict at most.
* `services`, machine `crowded` (predictions, two requests at once, a death): a prediction has a
  verdict as soon as it can be judged. With two at once it may have two. Verdicts on sessions may be repeated once forgotten, because a session
  is remembered by its table. Verdicts on holds name no event, so holds are judged again by every
  later reading.
* `verdicts_early` (a violation): the verdict on a decision comes one observation too
  early, and writes off as inconclusive what enough observations followed.

### Household

`Overview` is a look: `_plan_for_learner` from the row it read; `Save` the row's upsert;
`NotifyRead`, `NotifyWrite` and `List` the notifications. `AnswerSuggestion` and
`AnswerApproval` read the row a decision is written into (`WriteDecision`), and are
followed by another look; `HandleNotification` is read, dismiss and snooze. Time is
in days and a request ends in the day it began; only the first weekly summary is
shown; soft escalation is on.

* `services`, machines `answers`, `revisions`, `parents` (two requests at once) and
  `notices`: counts stay consistent with each other; a modality that needs
  approval is suggested only when approved once or when its request expired (what was turned
  down or waits does not slip through); what was dismissed stays away.
* `household_gate` (a violation; machine `answers` alone, which is `AnswersSpec`): a request
  nobody answers expires and blocks no longer, although the pilot's runbook makes an
  approval that does not block a reason to stop.

Two things the model does that no property speaks of. A notification that is emitted again keeps
the status `snoozed` and loses its date (`Upserted`), so the look that answers a snooze
shows what was snoozed. An approval given after its request expired is followed without having
been counted as requested; a rate of the decision trace then exceeds one, and an overview that
finds it so fails before it saves the row (`Valid`).

### Curricula

`CurriculumIntake`: an import and a publication as sequences of commits, two at once,
dying anywhere; a version stands for its fingerprint. `services`, machine `intake`, with a
sound version and a circular one: what is said to be published can be read. The other
direction does not hold: a death leaves runtime rows of a snapshot that is not stored.

`CurriculumMigration`: alignments are proposed and reviewed, of whatever ids: neither
proposing nor reviewing looks them up, and so they may name what neither snapshot has
(`Elsewhere`), as references may. `CreateDiff`, `Analyze` and `CreatePlan` each make a stored
document from the one before, and another request may be remaking that one: a diff and an
analysis are made and then stored (`StoreDiff`, `StoreAnalysis`); a plan is asked for when
there is none, reads diff and analysis (`TakeDiff`, `TakeAnalysis`, and `MakeAnalysis` when there
is none), and replaces whatever plan is stored by then (`StorePlan`). `Approve` and
`StoreApproval`, `Execute` to `SavePlan` are statements too. Outcomes are treated as components
are, courses and sections are only pinned; a rollout that keeps execution manual makes the
request do nothing.

* `services`, machines `migration` (goal, library and trajectory, requests one at a time) and
  `migrations` (goal and assignment, two at once, with a goal revised or a
  learner erased, an alignment to what the new snapshot lacks and a reference to what the old
  one lacks): nothing is migrated that was not approved, and
  what is moved refers to components of the new snapshot, or to one that a reviewer approved although the
  new snapshot lacks it, or that the old snapshot never had.
  What an entity had is followed through approved pairs (`Lineage`), because an assignment
  names no snapshot and may be migrated again.
* `curriculum_remap` (a violation): two components remapped in one entity may get each
  other's equivalents.

Executing a plan again copies library artifacts again; a copy is another row with the
same content, and nothing forbids it.

## Runs

| run | expects | bounds | about |
|---|---|---|---|
| `queue_pair` | pass | 2 threads, 1 task, 3 ticks, 1 crash | races on one row, liveness |
| `learning` | pass | each machine in `MCLearning` | what follows one learner: placement, mastery, planning, remediation, controller, dialogue, surplus |
| `services` | pass | `MCServices` | provider with two threads, ranking, engine, reviews, household, publication, migrations, judging at once |
| `background` | pass | `MCBackground` | queue and provider one at a time, restarts, trackers, progression |
| `engine_unverified`, `engine_stale` | violation | 1 thread, 2 contents | findings about the engine |
| `placement_torn` | violation | machine `twice` of `MCLearning` | finding about placement |
| `household_gate` | violation | machine `answers` of `MCServices` | finding about the household |
| `planning_stale` | violation | machine `plan` of `MCLearning` | finding about session control |
| `curriculum_remap` | violation | machine `migration` of `MCServices` | finding about migrations |
| `verdicts_early` | violation | machine `looking` of `MCBackground` | finding about trackers |
| `progression_sparse` | violation | machine `steered` of `MCBackground` | finding about progression |

Deadlock is not checked where bounds stop the environment: an instance whose
requests are used up rests, which is no deadlock of the code.

Each finding, with the line of the repository it disagrees with, is in `PROJECT.json`.

## Fairness

`WarmQueue` assumes weak fairness of the clock and of the steps a thread takes
by itself once its request has started; `LLMRouting` of each thread's request.
The code justifies it: threads run independently, SQLite writers wait with a
busy timeout, and a model call has a timeout. Nothing is assumed of what comes
from outside: requests, drains, evidence, crashes, restarts. Liveness is checked
on instances whose counters are bounded; the bounds stop the environment (new
requests, crashes, the clock), never a thread's own step. The other components promise nothing
that happens by itself: every step of theirs is part of a request, and what a
request is to achieve is stated of the state it leaves (`PlanIsCurrent`,
`PredictionsAreJudged`, `PromiseKept`).

## Proofs

A theorem holds for every value of the constants that satisfies the component's assumption
(`WarmQueueAssumption`, `RoutingAssumption`, ...): any number of threads, learners, clients,
components, rows and requests, any limits and delays. The assumptions say what kind of thing each
constant is (a cap is positive, a component is in a corpus once, an import is not all there is with
prerequisites); an alignment, and what an entity refers to, may name
anything. Where a theorem needs more, its statement says so: one thread (`Threads = {t}`), a log
shorter than its window. TLC evaluates each of them for the instances of a run
(`InstancesAssumption`). `DoublingAssumption` (`2 ^ k` is a natural number up to the retry cap)
is arithmetic the solvers lack; TLC evaluates it in `queue_pair`.

Every proof has the same outline: an invariant `IInv` that the initial states satisfy, one
lemma per action or group of actions that it survives, and the property as its consequence.

| theorem | says |
|---|---|
| `TypeCorrect`, `BackoffDates`, `CompletedHasContent` | of the queue: decisions are about rows that exist, a backoff date is on deferred rows exactly, a completed row has content |
| `ClaimsCounted`, `AttemptsStayBounded` | each claim still held was paid for with an attempt; `n` threads take a row at most `n * (n - 1)` attempts past its cap |
| `ServedOneByOne` | one thread's queue implements `WarmLifecycle` |
| `OpenBriefly`, `MockComesLast` | a circuit is open for one cooldown at most, restarts of the process included; the mock answers last |
| `OpensAfterFailures`, `LogTellsAll` | with one thread, restarts included, while the log is shorter than its window: an open circuit has its threshold of failures behind it, and between requests a new process would start with what this one knows |
| `ShownOnce`, `ShownInTime` | with one thread, deaths included: no practice question is shown twice, none against the evidence |
| `ServedIsChecked`, `AnswersAreRecorded` | what the engine serves was checked, and is on record for this learner |
| `RowAddsUp`, `GatesAreEarned`, `NextActionExists` | of a remediation session: row, gates, next action |
| `TransferEarned`, `LoopsNoticed` | of the controller of a session: transfer takes two good summaries since the last bad one, a loop of support is noticed, whatever the log forgets |
| `LoopsAreLeft` | of a Socratic dialogue: a learner whose answers move nothing is not asked the same kind of question a third time |
| `FrontiersReached`, `SeedsFollow` | of placement, on any graph: when it ends short of its budget, every neighbour an answer points to was asked about, could not be, or was missing in the shared map when it was looked up; while calls come one at a time, report and profile agree |
| `SessionsFollowGoals`, `PlansAreCurrent` | of planning: whatever requests wrote over each other, the next that opens the workspace and meets no other leaves the session on the goal that is shown and the plan as it would be made now |
| `PromisesAreKept` | with any number of requests at once: a review comes up no later than it was nominated for, unless two requests merged into the same row at once |
| `CountsStaySound`, `OffersAreJustified`, `DismissedIsNotShown` | of a household: counts, suggestions, notifications |
| `DecisionsJudgedOnce` | with requests one at a time, deaths included and however the log is cut off: a decision and a prediction have one verdict at most |
| `PredictionsJudged` | with any number of requests at once: a prediction that can be judged has been |
| `PublishedIsReadable` | what is said to be published can be read |
| `NothingIsUnapproved`, `WhatIsMigratedIsWhole` | of migrations, with any number of requests at once: only what an administrator approved is migrated, to components a reviewer approved as equivalents, and what was moved refers to the new snapshot, or to what a reviewer approved though it lacks it, or what the old one never had |

**Warm queue.** `IInv == TypeOK /\ DeferredIffScheduled /\ DeferralsHaveDates`.
`DeferredIffScheduled` alone is not inductive: `RetryWrite` stores a date decided by an
earlier step, and makes a row deferred without one unless the decision held a real date. A
sweep's decision may hold none, and then the row becomes pending: `Recovered` decides by the
date. Every UPDATE is a `GoodUpdate` of the row it finds, whatever the row is by then
(`UpdatesAreGood`); a step that rewrites rows by good updates and keeps the thread's
decisions about existing rows preserves `IInv`. `ContentInv` adds that a thread about to
report success has generated the content of the task it holds; only the end of a warming
and its report touch it.

**Attempts.** `ClaimsInv` adds to `ClaimsAreCounted` that a
thread never cancels what it is about to claim: then a step of one thread adds at most
itself to a row's holders, and pays for it. `CapInv` is an argument by potential: `Chances(id)`
counts how often a row can still be claimed on what the threads have decided
by now (`n` for a waiting row and for every thread about to requeue it, one for every thread about
to claim it). A row below its cap may get new deciders; once it has reached the cap nobody
decides anew, and each step spends at least as many chances as it adds attempts. For one
thread, `StandingInv` says that whatever it decided from its SELECT is still so when it
writes, that a waiting row is below its cap, and that what it claimed is processed until
it ends; each step is then one legal move of each task (`WarmLifecycle`).

**LLM routing.** Every date in `circuit` and in the log is `Near`: none, or at most a cooldown
from now, and hydration after a restart copies only such dates. `NoneLost`: while a request scans, the
clients scanned so far are waiting, skipped or failed; while it calls, all are. The
orderings are shown to lose nobody: `Rotated` from the library's facts about sequences, the
order by latency because it is a bijection of places, which is how the model states a
stable sort by a key it does not know.

What the log says is about one request at a time (`Threads = {t}`): `LogInv` relates the
events to `circuit`, client by client. `Counted` and `Dated` say by which step of the thread the two
may differ, between a change of the circuit and the event that tells of it, and `Tripped` that an open
circuit has its failures behind it in memory, in the log and on the way between them; `Free` is why the
thread never finds a circuit open that it is about to call. While the log is shorter than its
window (500 events in the code), hydration reads all of it and finds the circuits again; a longer
log forgets, and then neither property need hold.

**Surplus practice.** For requests of a session that come one at a time (with two at once
neither property holds). `SlotsSound`: a question is in one slot at most, in none once it was
shown, and a fresh one is of a response made since the last evidence. Between the expiry of
a slot and the write of its copy a question is in no slot: `OnItsWay` says that it is of a
known response, neither waiting nor shown, and `Underway` that whatever a request holds is on its
way, or still at the source it read. A death in between loses the question and
nothing else; the gap it leaves does no harm, because a fill stores questions that
are in no slot yet. That the ids of rows are distinct is not needed.

**Generation engine.** Whatever is on record was checked and is found under its id
(`HistorySound`), the library points at rows on record (`LibrarySound`), and a request holds at
each point what the checks it has passed allow (`Underway`). The record grows only at its
end, so what one thread found stays there for it whatever the others do.

**Remediation.** `Sound`: row and every copy a thread is about to write add up, and have
as many steps as the session. For the two properties of requests that meet no
other, `Alone` says that at most one thread is busy, that the row is as that thread read it
(`Current`), and what the steps passed so far rested on (`Earned`).

**Within a session.** The controller's row says how far the learner has come back and how much
support is left: `Climbed(r, n)` bounds the phase by `n`, the good summaries since the last bad
one, and `Spent(r, n)` the budget left by the contents generated in the phase. Every event makes
the new row from the old one (`ControllerClimbs`, `ControllerSpends`), whatever its summary still
shows; so the log may forget.

**Socratic dialogue.** `Moves` is the property of any dialogue; it holds of the saved one and of every
copy a request holds, because the policy changes the kind of question when two turns of one kind
meet an answer that moves nothing (`PolicyMoves`, by the branches of `Decide`).

**Placement.** `Sound` says of a session that no KC is queued twice or after it was asked about, that each
finding rests on a probe (`Judged`), and that every neighbour an answer points to was asked about, is
queued, could not be asked or was missed by a look-up (`Frontier`); a walk that ended has no queue or no budget left (`Ended`). It holds of
the row and of every document a call walks, however many calls there are. `InTurn` is about calls that met no
other: at most one is busy, and the profile follows the report at each statement from seeding to
saving. What the model's recursive functions compute (the dependents of a KC, the queue) is shown
along their course by looking at the least place at which it fails (`LeastExists`, `Climbing`).

**Planning.** `Tables`: in each of the three tables, the rows requests still hold included, a stamp
names one row, and no row is dated ahead; so there is one newest row. `Single`: a request that has met
nothing is the only one. `OnCourse` says what such a request has found and brought about at each
statement, from the goal it read to the session it keeps. What others left behind is harmless
because a row it stores is dated after all of them (`Leads`), a session it goes on with is the newest
(`Continues`), and a session is for a goal only when some goal is stored (`Rooted`).

**Retention.** A cluster that was nominated and not raced for has a row whose day keeps the promise
or has come (`Keeps`). What a request read of a row, and is about to write back, is not later than
the row is by then, or is due (`InHand`): only a merge brings a day nearer, and one behind a
reader's back is a race. Marking may put back a payload that is older than the last merge,
and so a later day; `InTime` is why this does no harm: only rows that are due are marked, so a
payload put back is due.

**Trackers.** `CoverInv`, for any number of requests: whatever can be judged has been, or is among the
verdicts a request is about to append, or there is a request that has yet to look (`UnderControl`).
What a tracker leaves out is in the log as judged, and the log's verdicts were all given (`LogIsTold`).
For one request at a time, `OnceInv`: time stamps order the log and tell events and sessions
apart (`Stamps`), each verdict names something of its own kind (`About`), and one on what the log still
shows is in the log *after* it (`Shown`), so `Forget`, which takes the oldest event, never takes the
verdict first. What is found is `Unheard`: named by no earlier verdict, and by none of the others found.

**Household.** Counts, approvals and modalities are consistent in the row *and* in every
version a request holds (`Sound`), and no version has a modality that nobody approved, except
one about to record the approval (`ThreadSound`). `OfferJustified` is the lemma behind
`ApprovalOrExpiry`: a request for a modality that is new, pending or rejected blocks the offer, an
approved one has put the modality into the row, and so it expired. `StaysInv`:
while requests come one at a time, what was read of a notification is still true when it
is written (`LookIsFresh`).

**Curriculum intake.** Of the artifacts a publication has read, those it no longer has to
write have their runtime row; once it is past the snapshot, the snapshot is stored
(`Underway`). No request ever removes a row.

**Migrations.** What makes a diff, an analysis, a plan or an entity good is said of the value,
relative to who approved, aligned and revised what (`GoodEdges` to `GoodVersion`). These
histories only grow and a good value stays good, so the document a request read, and the
version it is about to write, may be stale and is as good as what is stored (`Entitled`, `Working`). The
properties alone are not inductive. A remap needs that its sources are all that the entity refers to
and has lost, and that it has a target for each; a swap or a new plan for a trajectory, that nothing
was lost (`GoodAction`). What is found in an entity by the snapshot it names is all it has lost
(`Affected`), because an entity of the old snapshot is as it was at first; an assignment, which
names none, may be found again after a migration, and of it only its `Lineage` is claimed (`Sought`). The order of a remap's targets is not in the invariant:
`RemapFollowsAlignment` is what fails.

Some definitions have the form they have because of these proofs. Where the program finds
the newest or the first entry of a list with a property, the model says it with sets or
functions over positions rather than with `SelectSeq`, which is a recursive definition;
approvals and reviews are functions from ids; what is sorted by a key the model does not know is
any rearrangement.

Only model-checked:

* liveness (`EverySettles`, `EveryRequestEnds`): fairness and ENABLED are out of the
  prover's reach;
* what recursive definitions compute for every input, which needs induction over data:
  ranking over time (`WaitingIsServed`) and the blending of masteries (`OutcomesFollow`,
  `EvidenceHasDirection`);
* `ImplementsQueue` of the surplus: the queue is the slots flattened to one sequence, a
  recursive definition;
* progression (`DependenceIsRemembered`): what a learner depended on is a weighted sum over
  a filtered sequence, and that the share is 100 when every item of the sequence is counted
  is again an induction over data. `MCBackground` checks it on two learners.

## Not modelled

* Text: prompts, parsing, moderation, verification, the scoring of an answer's words,
  document adapters. Their verdicts are choices, what is done with them is modelled.
* A reboot of the host: the logged `open_until` is a date of its monotonic clock, which
  starts over. `Restart` is one of the process, whose clock goes on.
* Limits no small instance reaches: 500 health events, 200 content rows of one
  learner.
* Duplicated tasks need two rows and two threads: `EnqueueSelect` and
  `EnqueueInsert` allow them, no property forbids them, a copy costs one warming.
* Guardian invites, sign-in, administration, classrooms, courses and assignments:
  independent rows, created, read, updated and deleted. An invite is read, its account
  made and the invite marked used in that order, so two registrations at once can use
  one code.
* Rollout policy: a pure function of a document and a hash.
* What only reads: telemetry, summaries, calibration and trait profiles, the services that
  read verdicts, the learner flow that chooses what the workspace shows and the
  interventions a teacher may record. Two things seen while reading the last: a completed
  remediation is shown above newer lesson content until its event leaves the newest 300,
  and a teacher's decision is kept under the session it was made in.
* State inference and traits, misconception detection, `planning_adaptation`'s
  weighing of outcomes (its result is a choice in `Planning`), modality routing.
* Two races are modelled and have no property, because nothing in the repository says
  they must not happen: a request that raises because another cleared
  `open_until` (`llm_provider.py:457`) and an observation lost from the mastery when a
  dialogue writes back the profile it read (`assessment_evidence.py:103`).

## Plan

Models are as far as the plan went: the queue, its ranking, provider, surplus,
engine and placement first, then the parts that follow a learner, the household,
curricula, trackers and progression. Theorems cover the queue, the provider, the surplus, the
engine, placement, planning, remediation, the controller of a session, dialogues, reviews, the
household, trackers and curricula. What is left to TLC is listed under the proofs, with the
reason.
