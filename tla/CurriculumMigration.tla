------------------------- MODULE CurriculumMigration -------------------------
(***************************************************************************)
(* What refers to the knowledge components of one published snapshot is    *)
(* taken over to the next.  Administrators review which old component is   *)
(* equivalent to which new one; a diff of the snapshots, an analysis of    *)
(* what refers to what changed and a plan of what to do about it are each  *)
(* made from the one before and stored; actions of the plan are approved   *)
(* and then executed one by one, the plan being saved last.  Requests run  *)
(* at once and may die between two commits.  Meanwhile a learner's goals   *)
(* are revised and learners are erased.                                    *)
(*                                                                         *)
(* Outcomes have lists of their own, treated as those of components are;   *)
(* what refers to courses is only ever pinned, or marked and left alone.   *)
(***************************************************************************)
EXTENDS Integers, Sequences, SequencesExt, MigrationPromises

CONSTANTS
    Components,   \* of both snapshots, a sequence in the order of their ids
    Elsewhere,    \* names that may be met and that neither snapshot has
    Fields,       \* of a component in both: the fields that differ
    Alignments,   \* what may be proposed as equivalent, a set of <<old, new>>
    Requested,    \* what a goal may be revised to
    Entities,     \* what refers to components, a sequence in the order of kind and id
    Kind,         \* of each entity
    Threads,
    MaxReviews,   \* bounds: alignments proposed and reviewed; other requests;
    MaxRequests,  \* goals revised and learners erased meanwhile
    MaxMeanwhile

Removed == Source \ Target
Known == Source \cup Target \cup Elsewhere

\* What the constants must be.  "wording" stands for the fields of low impact,
\* "prerequisites" for prerequisite_kc_ids, "other" for the rest.  Nothing checks
\* that the snapshots have what an alignment or an entity names.
CurriculumMigrationAssumption ==
    /\ IsInjective(Components) /\ Components \in Seq(Source \cup Target)
    /\ Range(Components) = Source \cup Target
    /\ Fields \in [Source \cap Target -> SUBSET {"wording", "prerequisites", "other"}]
    /\ Alignments \subseteq Known \X Known /\ Requested \subseteq Known
    /\ IsInjective(Entities) /\ Entities \in Seq(Range(Entities))
    /\ Kind \in [Range(Entities) -> {"goal", "trajectory", "assignment", "library"}]
    /\ \A e \in Range(Entities) : Refs[e] \in Seq(Known)
    /\ MaxReviews \in Nat /\ MaxRequests \in Nat /\ MaxMeanwhile \in Nat

VARIABLES
    digest,   \* the removed components in the order of the digests of their delta ids
    edges,    \* the alignments proposed, the one last updated first
    diff,     \* the stored diff: for each old component, how it changed
    analysis, \* the stored analysis: for each entity that is affected, its impact
    plan,     \* the stored plan
    thread,   \* what each request is doing
    reviewed, asked, meanwhile

records == <<edges, diff, analysis, plan>>
counts == <<reviewed, asked, meanwhile>>
history == <<ratified, aligned, migrated, revised>>
vars == <<digest, records, entity, thread, counts, history>>

Names == Range(Entities)

\* The elements of a sequence that are in a set, in their order.
Kept(s, S) ==
    LET kept[i \in 0..Len(s)] ==
            IF i = 0 THEN <<>>
            ELSE IF s[i] \in S THEN Append(kept[i - 1], s[i]) ELSE kept[i - 1]
    IN  kept[Len(s)]

Nothing == <<>>
NoAnalysis == [made |-> FALSE, impacts |-> Nothing]
NoPlan == [status |-> "none", actions |-> Nothing]
NoCopy == [refs |-> Nothing, live |-> FALSE]
Idle == [pc |-> "idle", diff |-> Nothing, analysis |-> NoAnalysis, plan |-> NoPlan,
         chosen |-> {}, todo |-> Nothing, read |-> Nothing, failed |-> FALSE]

Init ==
    /\ digest \in SetToSeqs(Removed)
    /\ edges = Nothing /\ diff = Nothing /\ analysis = NoAnalysis /\ plan = NoPlan
    /\ entity = [e \in Names |-> [refs |-> Refs[e], at |-> "source", live |-> TRUE,
                                  replan |-> FALSE, copy |-> NoCopy]]
    /\ thread = [t \in Threads |-> Idle]
    /\ reviewed = 0 /\ asked = 0 /\ meanwhile = 0
    /\ ratified = {} /\ aligned = {} /\ migrated = {} /\ revised = {}

At(t, pc) == thread[t].pc = pc
Become(t, state) == thread' = [thread EXCEPT ![t] = state]
Ask == asked < MaxRequests /\ asked' = asked + 1 /\ UNCHANGED <<reviewed, meanwhile>>
AskReview == reviewed < MaxReviews /\ reviewed' = reviewed + 1 /\ UNCHANGED <<asked, meanwhile>>
Meanwhile == meanwhile < MaxMeanwhile /\ meanwhile' = meanwhile + 1 /\ UNCHANGED <<reviewed, asked>>

-----------------------------------------------------------------------------
(* Alignments.                                                              *)

Edge(pair, status) == [from |-> pair[1], to |-> pair[2], status |-> status]
Others(pair) == Kept(edges, {e \in Range(edges) : <<e.from, e.to>> # pair})

\* propose_alignment: of a pair already proposed, the row is replaced.
Propose(pair) ==
    /\ AskReview
    /\ edges' = <<Edge(pair, "pending")>> \o Others(pair)
    /\ UNCHANGED <<digest, diff, analysis, plan, entity, thread, history>>

\* review_alignment.
Review(pair, decision) ==
    /\ AskReview
    /\ \E i \in DOMAIN edges : <<edges[i].from, edges[i].to>> = pair
    /\ edges' = <<Edge(pair, decision)>> \o Others(pair)
    /\ aligned' = IF decision = "approved" THEN aligned \cup {pair} ELSE aligned
    /\ UNCHANGED <<digest, diff, analysis, plan, entity, thread, ratified, migrated, revised>>

\* Mutant: an edge that nobody reviewed counts.
EquivalentsPending(c) == Kept(edges, {e \in Range(edges) : e.from = c /\ e.status # "rejected"})

\* _approved_alignment_map goes through the edges and keeps the last it meets.
Equivalents(c) == Kept(edges, {e \in Range(edges) : e.from = c /\ e.status = "approved"})

-----------------------------------------------------------------------------
(* The diff.                                                                *)

Delta(c) ==
    LET equivalent == Equivalents(c)
        delta(change, to) == [change |-> change, to |-> to]
    IN  CASE c \in Removed /\ equivalent # <<>> -> delta("remapped", Last(equivalent).to)
          [] c \in Removed /\ equivalent = <<>> -> delta("removed", c)
          [] c \in Target /\ Fields[c] = {} -> delta("same", c)
          [] c \in Target /\ "prerequisites" \in Fields[c] -> delta("prerequisite_changed", c)
          [] OTHER -> delta("changed", c)

\* A component whose suggested action is to swap the provenance only.
Swappable(c) == c \in Target /\ Fields[c] = {"wording"}

\* create_snapshot_diff, which makes the diff of the two snapshots again.
CreateDiff(t) ==
    /\ At(t, "idle") /\ Ask
    /\ Become(t, [Idle EXCEPT !.pc = "compared", !.diff = [c \in Source |-> Delta(c)]])
    /\ UNCHANGED <<digest, records, entity, history>>

StoreDiff(t) ==
    /\ At(t, "compared")
    /\ diff' = thread[t].diff
    /\ Become(t, Idle)
    /\ UNCHANGED <<digest, edges, analysis, plan, entity, counts, history>>

-----------------------------------------------------------------------------
(* The analysis.                                                            *)

\* _matched_delta_ids.  A delta's id tells how the component changed.
Matched(e) == {c \in Range(entity[e].refs) \cap Source : diff[c].change # "same"}

\* Mutant: one approved equivalence is enough.
SuggestAny(kind, matched) ==
    IF \E c \in matched : diff[c].change = "remapped" THEN "remap"
    ELSE IF kind = "library" THEN "invalidate" ELSE "pin"

\* _suggest_action.
Suggest(kind, matched) ==
    LET all(changes) == \A c \in matched : diff[c].change \in changes
        remap == all({"remapped"})
        swap == \A c \in matched : Swappable(c)
    IN  CASE remap -> "remap"
          [] ~remap /\ kind = "library" -> IF swap THEN "swap" ELSE "invalidate"
          [] ~remap /\ kind = "trajectory" /\ all({"changed", "prerequisite_changed"}) -> "replan"
          [] ~remap /\ kind \notin {"library", "trajectory"} /\ swap -> "swap"
          [] OTHER -> "pin"

\* Assignments name no snapshot.  Expired library artifacts are not listed.
Listed(e) == entity[e].live /\ (Kind[e] = "assignment" \/ entity[e].at = "source")

Made ==
    [made |-> TRUE, impacts |-> [e \in {n \in Names : Listed(n) /\ Matched(n) # {}} |->
        [type |-> Suggest(Kind[e], Matched(e)),
         matched |-> [c \in Matched(e) |-> diff[c].change]]]]

\* analyze_impact.
Analyze(t) ==
    /\ At(t, "idle") /\ Ask /\ diff # Nothing
    /\ Become(t, [Idle EXCEPT !.pc = "analyzed", !.analysis = Made])
    /\ UNCHANGED <<digest, records, entity, history>>

\* A request for a plan that made an analysis for it goes on.
StoreAnalysis(t) ==
    /\ At(t, "analyzed") \/ At(t, "made")
    /\ analysis' = thread[t].analysis
    /\ Become(t, IF At(t, "made") THEN [thread[t] EXCEPT !.pc = "planned"] ELSE Idle)
    /\ UNCHANGED <<digest, edges, diff, plan, entity, counts, history>>

-----------------------------------------------------------------------------
(* The plan.                                                                *)

\* _remap_targets goes through the deltas in the order of their ids.
Targets(deltas, matched) ==
    LET remapped == Kept(digest, {c \in matched : deltas[c].change = "remapped"})
    IN  [i \in DOMAIN remapped |-> deltas[remapped[i]].to]

Planned(deltas, impacts) ==
    [e \in DOMAIN impacts |->
        LET matched == DOMAIN impacts[e].matched
        IN  [type |-> impacts[e].type,
             sources |-> Kept(Components, matched),
             targets |-> Targets(deltas, matched),
             status |-> IF impacts[e].type = "pin" THEN "review_required" ELSE "draft"]]

\* create_migration_plan: a plan that exists is the answer.
CreatePlan(t) ==
    /\ At(t, "idle") /\ Ask /\ diff # Nothing /\ plan = NoPlan
    /\ Become(t, [Idle EXCEPT !.pc = "plan"])
    /\ UNCHANGED <<digest, records, entity, history>>

TakeDiff(t) ==
    /\ At(t, "plan")
    /\ Become(t, [thread[t] EXCEPT !.pc = "look", !.diff = diff])
    /\ UNCHANGED <<digest, records, entity, counts, history>>

TakeAnalysis(t) ==
    /\ At(t, "look")
    /\ Become(t, IF analysis.made THEN [thread[t] EXCEPT !.pc = "planned", !.analysis = analysis]
                 ELSE [thread[t] EXCEPT !.pc = "missing"])
    /\ UNCHANGED <<digest, records, entity, counts, history>>

MakeAnalysis(t) ==
    /\ At(t, "missing")
    /\ Become(t, [thread[t] EXCEPT !.pc = "made", !.analysis = Made])
    /\ UNCHANGED <<digest, records, entity, counts, history>>

\* An analysis that names deltas the diff does not have fails.  Another request's
\* plan, which may be approved or executed by now, is replaced.
StorePlan(t) ==
    LET deltas == thread[t].diff
        impacts == thread[t].analysis.impacts
    IN  /\ At(t, "planned")
        /\ plan' = IF \A e \in DOMAIN impacts : \A c \in DOMAIN impacts[e].matched :
                        impacts[e].matched[c] = deltas[c].change
                   THEN [status |-> "draft", actions |-> Planned(deltas, impacts)]
                   ELSE plan
        /\ Become(t, Idle)
        /\ UNCHANGED <<digest, edges, diff, analysis, entity, counts, history>>

\* approve_migration_plan reads the plan, and writes it back.
Approve(t, chosen) ==
    /\ At(t, "idle") /\ Ask /\ plan # NoPlan
    /\ Become(t, [Idle EXCEPT !.pc = "approve", !.plan = plan, !.chosen = chosen])
    /\ UNCHANGED <<digest, records, entity, history>>

StoreApproval(t) ==
    LET actions == thread[t].plan.actions
        chosen == {e \in thread[t].chosen : actions[e].status = "draft"}
        next == [e \in DOMAIN actions |->
                    IF e \in chosen THEN [actions[e] EXCEPT !.status = "approved"] ELSE actions[e]]
        ready == \E e \in DOMAIN next : next[e].status = "approved"
    IN  /\ At(t, "approve")
        /\ plan' = [status |-> IF ready THEN "ready" ELSE thread[t].plan.status, actions |-> next]
        /\ ratified' = ratified \cup chosen
        /\ Become(t, Idle)
        /\ UNCHANGED <<digest, edges, diff, analysis, entity, counts,
                       aligned, migrated, revised>>

-----------------------------------------------------------------------------
(* Executing it.  The rollout policy that keeps execution manual makes the  *)
(* request one that does nothing.                                           *)

Execute(t, chosen) ==
    LET runs == {e \in chosen : plan.actions[e].status = "approved"}
    IN  /\ At(t, "idle") /\ Ask /\ plan # NoPlan
        /\ Become(t, [Idle EXCEPT !.pc = "run", !.plan = plan, !.todo = Kept(Entities, runs)])
        /\ UNCHANGED <<digest, records, entity, history>>

Running(t) == Head(thread[t].todo)
Action(t) == thread[t].plan.actions[Running(t)]
Marked(t, e, status) == [thread[t].plan EXCEPT !.actions[e].status = status]

\* The entity is read; one that is gone fails its action and no other.
ReadEntity(t) ==
    LET e == Running(t)
    IN  /\ At(t, "run") /\ thread[t].todo # Nothing
        /\ IF Kind[e] # "library" /\ ~entity[e].live
           THEN Become(t, [thread[t] EXCEPT !.todo = Tail(@), !.failed = TRUE,
                                            !.plan = Marked(t, e, "execution_failed")])
           ELSE Become(t, [thread[t] EXCEPT !.pc = "write", !.read = entity[e]])
        /\ UNCHANGED <<digest, records, entity, counts, history>>

\* dict(zip(source ids, target ids)), and what it makes of references.
Mapped(refs, sources, targets) ==
    LET to(c) == targets[CHOOSE i \in DOMAIN sources : sources[i] = c]
    IN  [i \in DOMAIN refs |->
            IF \E j \in DOMAIN sources \cap DOMAIN targets : sources[j] = refs[i]
            THEN to(refs[i]) ELSE refs[i]]

\* _execute_goal_action, _execute_trajectory_action and _execute_assignment_action
\* make one write of it, library artifacts two: the copy for the new snapshot,
\* which is as live as what was read, and then the expiry.
Written(t) ==
    LET e == Running(t)
        read == thread[t].read
        refs == Mapped(read.refs, Action(t).sources, Action(t).targets)
    IN  CASE Kind[e] = "library" /\ Action(t).type = "invalidate" ->
                 [read EXCEPT !.live = FALSE, !.copy = entity[e].copy]
          [] Kind[e] = "library" /\ Action(t).type # "invalidate" ->
                 [entity[e] EXCEPT !.copy = [refs |-> refs, live |-> read.live]]
          [] Action(t).type = "replan" -> [read EXCEPT !.replan = TRUE]
          [] Kind[e] = "assignment" -> [read EXCEPT !.refs = refs]
          [] OTHER -> [read EXCEPT !.refs = IF Action(t).type = "remap" THEN refs ELSE @,
                                   !.at = "target"]

WriteEntity(t) ==
    LET e == Running(t)
    IN  /\ At(t, "write")
        /\ entity' = [entity EXCEPT ![e] = Written(t)]
        /\ migrated' = migrated \cup {e}
        /\ IF Kind[e] = "library" /\ Action(t).type # "invalidate"
           THEN Become(t, [thread[t] EXCEPT !.pc = "expire"])
           ELSE Become(t, [thread[t] EXCEPT !.pc = "run", !.todo = Tail(@),
                                            !.plan = Marked(t, e, "executed")])
        /\ UNCHANGED <<digest, records, counts, ratified, aligned, revised>>

ExpireOriginal(t) ==
    LET e == Running(t)
    IN  /\ At(t, "expire")
        /\ entity' = [entity EXCEPT ![e].live = FALSE]
        /\ Become(t, [thread[t] EXCEPT !.pc = "run", !.todo = Tail(@),
                                       !.plan = Marked(t, e, "executed")])
        /\ UNCHANGED <<digest, records, counts, history>>

\* The plan is stored as it was read, but for the actions that were tried.
SavePlan(t) ==
    LET done == thread[t].plan
        waiting == \E e \in DOMAIN done.actions : done.actions[e].status = "approved"
    IN  /\ At(t, "run") /\ thread[t].todo = Nothing
        /\ plan' = [done EXCEPT !.status = IF thread[t].failed THEN "partial_failure"
                                           ELSE IF waiting THEN @ ELSE "executed"]
        /\ Become(t, Idle)
        /\ UNCHANGED <<digest, edges, diff, analysis, entity, counts, history>>

Die(t) ==
    /\ ~At(t, "idle")
    /\ Become(t, Idle)
    /\ UNCHANGED <<digest, records, entity, counts, history>>

-----------------------------------------------------------------------------
\* ensure_active_trajectory gives the active goal what is asked for, and leaves
\* the snapshot it names.
Revise(e, c) ==
    /\ Kind[e] = "goal" /\ entity[e].live /\ Meanwhile
    /\ entity' = [entity EXCEPT ![e].refs = <<c>>]
    /\ revised' = revised \cup {e}
    /\ UNCHANGED <<digest, records, thread, ratified, aligned, migrated>>

\* hard_delete erases the rows of a learner.
Erase(e) ==
    /\ Kind[e] # "library" /\ entity[e].live /\ Meanwhile
    /\ entity' = [entity EXCEPT ![e].live = FALSE]
    /\ UNCHANGED <<digest, records, thread, history>>

Step(t) ==
    \/ StoreDiff(t) \/ StoreAnalysis(t) \/ TakeDiff(t) \/ TakeAnalysis(t) \/ MakeAnalysis(t)
    \/ StorePlan(t) \/ StoreApproval(t) \/ ReadEntity(t) \/ WriteEntity(t) \/ ExpireOriginal(t)
    \/ SavePlan(t) \/ Die(t)

Next ==
    \/ \E pair \in Alignments :
        Propose(pair) \/ \E decision \in {"approved", "rejected"} : Review(pair, decision)
    \/ \E t \in Threads :
        \/ CreateDiff(t) \/ Analyze(t) \/ CreatePlan(t) \/ Step(t)
        \/ \E chosen \in SUBSET DOMAIN plan.actions : Approve(t, chosen)
        \/ \E chosen \in SUBSET DOMAIN plan.actions \ {{}} : Execute(t, chosen)
    \/ \E e \in Names : Erase(e) \/ \E c \in Requested : Revise(e, c)

Spec == Init /\ [][Next]_vars

-----------------------------------------------------------------------------
\* Each reference of an entity that is remapped becomes an approved equivalent
\* of what it was, not of another: "Every affected curriculum reference has an
\* approved equivalent alignment" is the plan's rationale for doing so.
RemapFollowsAlignment ==
    \A e \in migrated \ revised : \A i \in DOMAIN Refs[e] :
        entity[e].refs[i] # Refs[e][i] => <<Refs[e][i], entity[e].refs[i]>> \in aligned
=============================================================================
