--------------------------- MODULE PlanningPromises ---------------------------
(***************************************************************************)
(* What Planning promises, over the part of its state that says so: the    *)
(* stored goals, trajectories and sessions, and what the learner is up to. *)
(***************************************************************************)
EXTENDS Naturals, Sequences

CONSTANT None

VARIABLES
    progress,     \* the learner's open outcomes in planning order (build_for_student)
    adaptation,   \* what their recent outcomes say, [risk, pace], None of what they say nothing of
    goals,        \* learner_goals: all active, nothing closes one
    trajectories, \* learner_trajectories
    sessions,     \* session_control_states: nothing closes one either
    settled       \* a request that met nothing has just shown the plan (history)

\* The rows of one table: the newest and the one with an id.
Newest(rows) == IF rows = {} THEN None ELSE CHOOSE r \in rows : \A o \in rows : o.stamp <= r.stamp
ById(rows, id) ==
    IF \E r \in rows : r.id = id THEN CHOOSE r \in rows : r.id = id ELSE None

\* A trajectory without nodes is idle.
NewestTrajectory == Newest({p \in trajectories : p.plan # <<>>})

\* get_active_state: what parent and learner are shown.
ShownGoal == Newest(goals)
ShownTrajectory ==
    IF ShownGoal # None /\ ShownGoal.trajectory # None
    THEN ById(trajectories, ShownGoal.trajectory) ELSE NewestTrajectory

\* build_state: where the recent outcomes say nothing, what the trajectory was
\* adapted to stays.
Adapted(said, old) ==
    LET kept == IF old = None THEN [risk |-> "low", pace |-> "standard"] ELSE old.adapted
    IN  [risk |-> IF said.risk = None THEN kept.risk ELSE said.risk,
         pace |-> IF said.pace = None THEN kept.pace ELSE said.pace]

\* A slower pace is one more session for each outcome.
Node(outcome, target, adapted) ==
    [outcome |-> outcome, target |-> target, risk |-> adapted.risk,
     longer |-> outcome # None /\ adapted.pace = "slower"]

\* build_plan: the open outcomes, behind the goal's own when it is none of them;
\* for a goal that has only components and a learner without outcomes, these.
PlanFor(goal, outcomes, adapted) ==
    LET open == [i \in DOMAIN outcomes |-> Node(outcomes[i], outcomes[i], adapted)]
    IN  IF goal.outcome # None /\ \A i \in DOMAIN outcomes : outcomes[i] # goal.outcome
        THEN <<Node(goal.outcome, goal.target, adapted)>> \o open
        ELSE IF open = <<>> /\ goal.target # None
        THEN <<Node(None, goal.target, adapted)>> ELSE open

\* However requests wrote over each other and whichever died, the next one that
\* opens the workspace and meets no other puts the learner back on course: the
\* session is one for the goal and the trajectory that are shown.
SessionFollowsGoal ==
    LET session == Newest(sessions)
    IN  settled /\ session # None =>
            /\ session.goal # None => ShownGoal # None /\ session.goal = ShownGoal.id
            /\ session.trajectory # None =>
                   ShownTrajectory # None /\ session.trajectory = ShownTrajectory.id

\* And the trajectory that is shown is what would be planned for the goal now,
\* from what the learner's recent outcomes say now.
PlanIsCurrent ==
    settled /\ ShownGoal # None =>
        /\ ShownTrajectory # None
        /\ ShownTrajectory.adapted = Adapted(adaptation, ShownTrajectory)
        /\ ShownTrajectory.plan = PlanFor(ShownGoal, progress, ShownTrajectory.adapted)
===============================================================================
