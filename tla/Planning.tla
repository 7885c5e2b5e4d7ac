------------------------------- MODULE Planning -------------------------------
(***************************************************************************)
(* What a learner works towards and where they are: goals, the trajectory  *)
(* planned for a goal, and the sessions that follow it.  Opening the       *)
(* workspace, a parent's overview, a request for content and setting a     *)
(* goal all plan again, in several statements.  Requests run at once and   *)
(* may die between two statements, and the learner moves on meanwhile.     *)
(***************************************************************************)
EXTENDS Naturals, Sequences, FiniteSets, PlanningPromises

CONSTANTS
    Threads,
    Progressions, \* the learner's open outcomes in planning order, and as they move on
    Adaptations,  \* what their recent outcomes say, [risk, pace] or None, and what they say next
    Targets,      \* the components a request may ask for
    Wanted,       \* the outcomes a goal may be set for
    Sessions,     \* session ids of the client's own
    MaxRequests, MaxUpsets

\* What a row may name: components and outcomes, rows by the time they were made.
Names == {None} \cup Targets \cup Wanted
         \cup UNION {{Progressions[i][j] : j \in DOMAIN Progressions[i]} : i \in DOMAIN Progressions}
Made == Nat \cup {None}
Risks == {"low"} \cup {Adaptations[i].risk : i \in DOMAIN Adaptations}
Paces == {"standard"} \cup {Adaptations[i].pace : i \in DOMAIN Adaptations}
PlanNode == [outcome : Names, target : Names, risk : Risks, longer : BOOLEAN]

\* The rows of the three tables.
Goal == [id : Nat, outcome : Names, trajectory : Made, stamp : Nat, target : Names]
Trajectory == [id : Nat, goal : Nat, plan : Seq(PlanNode), adapted : [risk : Risks, pace : Paces],
               nodes : Nat, stamp : Nat]
Session == [id : Nat \cup Sessions, stamp : Nat, begun : BOOLEAN, goal : Made,
            trajectory : Made, nodes : Made, target : Names]

PlanningAssumption ==
    /\ MaxRequests \in Nat /\ MaxUpsets \in Nat
    /\ Progressions \in Seq(Seq(Names)) /\ Progressions # <<>>
    /\ Adaptations \in Seq([risk : Risks, pace : Paces]) /\ Adaptations # <<>>
    /\ None \notin Targets \cup Wanted \cup Sessions \cup Nat
    /\ None \notin Goal /\ None \notin Trajectory /\ None \notin Session

VARIABLES
    moved,        \* how far the learner's progression and their outcomes have moved
    thread,       \* what each request is doing
    now,          \* dates of rows, and ids made from them
    requests, upsets \* bounds

learner == <<moved, progress, adaptation>>
stores == <<goals, trajectories, sessions>>
bounds == <<requests, upsets>>
vars == <<learner, stores, thread, now, settled, bounds>>

Init ==
    /\ moved = [progress |-> 1, adaptation |-> 1]
    /\ progress = Head(Progressions) /\ adaptation = Head(Adaptations)
    /\ goals = {} /\ trajectories = {} /\ sessions = {}
    /\ thread = [t \in Threads |-> [pc |-> "idle"]]
    /\ now = 0 /\ settled = FALSE /\ requests = 0 /\ upsets = 0

At(t, pc) == thread[t].pc = pc
Views == {"load", "overview"}
Busy == {t \in Threads : ~At(t, "idle")}

\* Everyone at work has met something else.
Met == [t \in Threads |-> IF t \in Busy THEN [thread[t] EXCEPT !.alone = FALSE] ELSE thread[t]]
Become(t, r) == thread' = [thread EXCEPT ![t] = r] /\ settled' = FALSE
End(t) ==
    /\ thread' = [thread EXCEPT ![t] = [pc |-> "idle"]]
    /\ settled' = (thread[t].alone /\ thread[t].kind \in Views)

\* The rows of one table after an upsert.
Upsert(rows, row) == {r \in rows : r.id # row.id} \cup {row}

-----------------------------------------------------------------------------
\* _goal_from_command: the components of an outcome are named like it.
GoalFor(outcome, target, outcomes) ==
    [id |-> now + 1, outcome |-> outcome, trajectory |-> None, stamp |-> now + 1,
     target |-> IF target # None THEN target ELSE IF outcome # None THEN outcome
                ELSE IF outcomes # <<>> THEN Head(outcomes) ELSE None]

\* build_plan, after the trajectory there is: its nodes get new ids.
TrajectoryFor(old, goal, outcomes) ==
    LET adapted == Adapted(adaptation, old)
    IN  [id |-> IF old = None THEN now + 1 ELSE old.id, goal |-> goal.id,
         plan |-> PlanFor(goal, outcomes, adapted), adapted |-> adapted,
         nodes |-> now + 1, stamp |-> now + 1]

-----------------------------------------------------------------------------
(* create_goal, and ensure_active_trajectory for everyone else.             *)

\* The workspace and the overview plan once themselves, and ensure_session
\* once more.
AfterPlanning(r) ==
    IF r.first
    THEN [r EXCEPT !.pc = "planning", !.first = FALSE, !.goal = None, !.created = FALSE,
                   !.trajectory = None, !.revised = FALSE]
    ELSE [r EXCEPT !.pc = "binding", !.created = FALSE]

\* What a request knows once it has read the progression and the active goal: a
\* goal is made when there is none, and given the components that are asked for.
GoalRead(r) ==
    LET active == ShownGoal
        goal == IF active = None THEN GoalFor(None, r.target, progress)
                ELSE IF r.target = None THEN active
                ELSE [active EXCEPT !.target = r.target, !.stamp = now + 1]
    IN  IF active = None /\ goal.target = None
        THEN AfterPlanning(r)
        ELSE [r EXCEPT !.pc = "comparing", !.outcomes = progress, !.goal = goal,
                       !.created = (active = None)]
TimeOf(r) == IF r.goal # None /\ r.goal.stamp > now THEN now + 1 ELSE now

ReadGoal(t) ==
    /\ At(t, "planning")
    /\ now' = TimeOf(GoalRead(thread[t]))
    /\ Become(t, GoalRead(thread[t]))
    /\ UNCHANGED <<learner, stores, bounds>>

\* create_goal up to its writes: a goal and a trajectory of its own.
GoalMade(r, wanted) ==
    LET goal == GoalFor(wanted, r.target, progress)
    IN  [r EXCEPT !.pc = "storing", !.goal = [goal EXCEPT !.trajectory = now + 1],
                  !.trajectory = TrajectoryFor(None, goal, progress)]

\* A request begins: the workspace is opened, an overview is made, content is
\* asked for, a goal is set.  Nothing is looked at before its first reads.
Request(kind, target, asked) ==
    [kind |-> kind, target |-> target, asked |-> asked, alone |-> Busy = {},
     pc |-> "planning", first |-> kind \in Views, outcomes |-> <<>>, goal |-> None,
     created |-> FALSE, trajectory |-> None, revised |-> FALSE, session |-> None]

Begin(t, r) ==
    /\ At(t, "idle") /\ requests < MaxRequests
    /\ requests' = requests + 1
    /\ requests' = MaxRequests => r.alone /\ r.kind \in Views \* the last one settles
    /\ now' = TimeOf(r)
    /\ thread' = [Met EXCEPT ![t] = r] /\ settled' = FALSE
    /\ UNCHANGED <<learner, stores, upsets>>

OpenWorkspace(t) == Begin(t, GoalRead(Request("load", None, None)))
MakeOverview(t) == Begin(t, GoalRead(Request("overview", None, None)))
AskForContent(t) ==
    \E target \in Targets \cup {None}, asked \in Sessions \cup {s.id : s \in sessions} \cup {None} :
        Begin(t, GoalRead(Request("generate", target, asked)))
SetGoal(t) ==
    \E wanted \in Wanted \cup {None}, target \in Targets \cup {None} :
        /\ wanted # None \/ target # None
        /\ Begin(t, GoalMade(Request("set", target, None), wanted))

\* Mutant: a plan with the same outcomes counts as the same plan.
ChangedOutcomes(old, new) == [i \in DOMAIN old |-> old[i].outcome] # [i \in DOMAIN new |-> new[i].outcome]

\* semantic_signature
Changed(old, new) == old # new

\* The trajectory there is, is read and compared with what would be planned now:
\* it is made, revised, refreshed or left as it is.
Compare(t) ==
    LET r == thread[t]
        old == IF r.goal.trajectory # None THEN ById(trajectories, r.goal.trajectory)
               ELSE NewestTrajectory
        new == TrajectoryFor(old, r.goal, r.outcomes)
        dated == [r.goal EXCEPT !.stamp = now + 1]
        revised == old # None /\ Changed(old.plan, new.plan)
        written == old = None \/ revised \/ old.adapted # new.adapted
        goal == IF old = None \/ revised THEN [dated EXCEPT !.trajectory = new.id]
                ELSE IF r.created THEN dated ELSE r.goal
    IN  /\ At(t, "comparing")
        /\ now' = IF written \/ r.created THEN now + 1 ELSE now
        /\ Become(t, [r EXCEPT !.pc = IF written THEN "storing" ELSE "noting", !.goal = goal, !.outcomes = <<>>,
                               !.trajectory = IF written THEN new ELSE old, !.revised = revised])
        /\ UNCHANGED <<learner, stores, bounds>>

StoreTrajectory(t) ==
    /\ At(t, "storing")
    /\ trajectories' = Upsert(trajectories, thread[t].trajectory)
    /\ Become(t, [thread[t] EXCEPT !.pc = "noting"])
    /\ UNCHANGED <<learner, goals, sessions, now, bounds>>

StoreGoal(t) ==
    /\ At(t, "noting")
    /\ goals' = Upsert(goals, thread[t].goal)
    /\ IF thread[t].kind = "set" THEN End(t)
       ELSE Become(t, AfterPlanning(thread[t]))
    /\ UNCHANGED <<learner, trajectories, sessions, now, bounds>>

-----------------------------------------------------------------------------
(* bind_generation_request and ensure_session: the session of the request,  *)
(* made or made anew from the plan.                                         *)

\* _session_requires_recovery
StaleIfRevised(r, session) == r.revised

Stale(r, session) ==
    \/ r.revised
    \/ r.goal # None /\ session.goal \notin {None, r.goal.id}
    \/ r.trajectory # None /\ session.trajectory \notin {None, r.trajectory.id}

\* _create_session_from_plan: at the active node, the first, unless components
\* were asked for.
FromPlan(r, id, target) ==
    [id |-> id, stamp |-> now + 1, begun |-> FALSE,
     goal |-> IF r.goal # None THEN r.goal.id ELSE None,
     trajectory |-> IF r.trajectory # None THEN r.trajectory.id ELSE None,
     nodes |-> IF r.trajectory # None /\ r.trajectory.plan # <<>> THEN r.trajectory.nodes ELSE None,
     target |-> IF target # None THEN target
                ELSE IF r.trajectory # None /\ r.trajectory.plan # <<>>
                THEN Head(r.trajectory.plan).target
                ELSE IF r.goal # None THEN r.goal.target ELSE None]

\* What was planned is of no more use once there is a session.
Bound(r) == [r EXCEPT !.goal = None, !.trajectory = None, !.revised = FALSE, !.session = None]

\* With its session the request is done, or has content made for it.  Opening
\* the workspace has content made for a session without any, by the request
\* the session continues with.
GoOn(t, session) ==
    LET r == thread[t]
        opening == r.kind = "load" /\ r.asked = None
    IN  IF r.kind = "overview" \/ (opening /\ (session = None \/ session.begun)) THEN End(t)
        ELSE Become(t, [Bound(r) EXCEPT
                !.pc = IF opening THEN "planning" ELSE "generating",
                !.asked = IF @ = None /\ session # None THEN session.id ELSE @,
                !.target = IF @ = None /\ session # None THEN session.target ELSE @])

Bind(t) ==
    LET r == thread[t]
        old == IF r.asked # None THEN ById(sessions, r.asked) ELSE Newest(sessions)
        Keep(session) ==
            now' = now + 1 /\ Become(t, [Bound(r) EXCEPT !.pc = "keeping", !.session = session])
    IN  /\ At(t, "binding")
        /\ IF old = None /\ r.goal = None /\ r.target = None
           THEN GoOn(t, None) /\ UNCHANGED now
           ELSE IF old = None
           THEN Keep(FromPlan(r, IF r.asked # None THEN r.asked ELSE now + 1, r.target))
           ELSE IF Stale(r, old)
           THEN Keep(FromPlan(r, old.id, IF r.target # None THEN r.target ELSE old.target))
           ELSE IF r.target # None
           THEN Keep([old EXCEPT !.target = r.target, !.stamp = now + 1])
           ELSE GoOn(t, old) /\ UNCHANGED now
        /\ UNCHANGED <<learner, stores, bounds>>

StoreSession(t) ==
    /\ At(t, "keeping")
    /\ sessions' = Upsert(sessions, thread[t].session)
    /\ GoOn(t, thread[t].session)
    /\ UNCHANGED <<learner, goals, trajectories, now, bounds>>

\* summarize_generated_content: the content is there, its session is read again
\* and moved on.
Generated(t) ==
    LET r == thread[t]
        old == IF r.asked = None THEN None ELSE ById(sessions, r.asked)
        base == IF old # None THEN old
                ELSE [id |-> IF r.asked # None THEN r.asked ELSE now + 1, stamp |-> now + 1,
                      begun |-> TRUE, goal |-> None, trajectory |-> None, nodes |-> None,
                      target |-> r.target]
    IN  /\ At(t, "generating")
        /\ now' = now + 1
        /\ Become(t, [r EXCEPT !.pc = "saving",
                !.session = [base EXCEPT !.target = r.target, !.begun = TRUE, !.stamp = now + 1]])
        /\ UNCHANGED <<learner, stores, bounds>>

SaveAnswer(t) ==
    /\ At(t, "saving")
    /\ sessions' = Upsert(sessions, thread[t].session)
    /\ End(t)
    /\ UNCHANGED <<learner, goals, trajectories, now, bounds>>

\* Nothing is stored for a request whose generation raises; the workspace is
\* shown without the content.
GenerationFails(t) ==
    /\ At(t, "generating")
    /\ End(t)
    /\ UNCHANGED <<learner, stores, now, bounds>>

-----------------------------------------------------------------------------
\* The learner works, and what is known of them changes.
Move ==
    /\ upsets < MaxUpsets
    /\ upsets' = upsets + 1
    /\ \/ /\ moved.progress < Len(Progressions)
          /\ moved' = [moved EXCEPT !.progress = @ + 1]
          /\ progress' = Progressions[moved'.progress] /\ UNCHANGED adaptation
       \/ /\ moved.adaptation < Len(Adaptations)
          /\ moved' = [moved EXCEPT !.adaptation = @ + 1]
          /\ adaptation' = Adaptations[moved'.adaptation] /\ UNCHANGED progress
    /\ thread' = Met /\ settled' = FALSE
    /\ UNCHANGED <<stores, now, requests>>

\* A request ends at a statement that fails, or with its process.
Die(t) ==
    /\ t \in Busy /\ upsets < MaxUpsets
    /\ upsets' = upsets + 1
    /\ Become(t, [pc |-> "idle"])
    /\ UNCHANGED <<learner, stores, now, requests>>

Arrive(t) == OpenWorkspace(t) \/ MakeOverview(t) \/ AskForContent(t) \/ SetGoal(t)
Work(t) ==
    \/ ReadGoal(t) \/ Compare(t) \/ StoreTrajectory(t) \/ StoreGoal(t)
    \/ Bind(t) \/ StoreSession(t) \/ Generated(t) \/ SaveAnswer(t) \/ GenerationFails(t)

Next == Move \/ \E t \in Threads : Arrive(t) \/ Work(t) \/ Die(t)

Spec == Init /\ [][Next]_vars

-----------------------------------------------------------------------------
\* _session_requires_recovery and the trace "Recovered stale within-session
\* control state from the current planning state." say of a session made from a
\* plan that it is made anew when the plan is revised: its place in the plan is a
\* node the plan has.
NodeIsPlanned ==
    LET session == Newest(sessions)
    IN  settled /\ session # None /\ session.nodes # None =>
            session.nodes = ById(trajectories, session.trajectory).nodes
=============================================================================
