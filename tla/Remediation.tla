---------------------------- MODULE Remediation -----------------------------
(***************************************************************************)
(* A remediation session of one learner: the steps of its blueprint, one   *)
(* content generated for each, and the gates in front of the bridge and    *)
(* the return step, which hold the session on the step before while the    *)
(* learner's work on it does not support going on.  The session is one     *)
(* row that is read and written back whole; generating content takes long, *)
(* so that several requests to advance may be at work on it at once, and   *)
(* observations of the learner's work arrive in between.  A step is named  *)
(* by its place, content by the step it was made for, and "no step" is 0.  *)
(***************************************************************************)
EXTENDS Evidence, RemediationPromises

CONSTANTS
    Work,    \* the kinds of observation the learner's work can give
    Window,  \* how many observations list_recent returns
    Threads

\* What the constants must be.
RemediationAssumption ==
    /\ Window \in Nat \ {0}
    /\ Work \subseteq [completed : BOOLEAN, support : {"low", "medium", "high"},
                      hints : Nat, errors : Nat, confidence : 0..2, pauses : Nat, pace : Nat]

VARIABLES
    observed, \* the learner's newest observations, newest first
    thread,   \* what each request is doing
    offered   \* steps the learner was given content for

vars == <<row, observed, thread, offered, basis, overlap>>

NoRow == [steps |-> <<>>, index |-> 0, completed |-> <<>>, decision |-> "advance"]
Idle == [pc |-> "idle", decision |-> "advance", at |-> 0, rests |-> "unheard",
         step |-> 0, doc |-> NoRow]

Init ==
    /\ row = NoRow /\ observed = <<>> /\ offered = {} /\ overlap = FALSE
    /\ thread = [t \in Threads |-> Idle]
    /\ basis = <<>>

At(t, pc) == thread[t].pc = pc

-----------------------------------------------------------------------------
\* The prerequisite is rebuilt first, the misconception repaired, a nearby KC
\* bridges back: each when the plan has one.  The return is always there.
Blueprint(rebuild, repair, bridge) ==
    (IF rebuild THEN <<"step_back">> ELSE <<>>) \o (IF repair THEN <<"repair">> ELSE <<>>)
        \o (IF bridge THEN <<"bridge">> ELSE <<>>) \o <<"return">>

Step(phase) == [phase |-> phase, status |-> "pending", content |-> 0]

\* trigger_remedial_content stores the session and goes on with its first step.
Trigger(t) ==
    /\ row = NoRow /\ At(t, "idle")
    /\ \E rebuild, repair, bridge \in BOOLEAN :
         LET phases == Blueprint(rebuild, repair, bridge)
         IN  /\ row' = [NoRow EXCEPT !.steps = [i \in DOMAIN phases |->
                                        [Step(phases[i]) EXCEPT !.status =
                                            IF i = 1 THEN "active" ELSE @]],
                                     !.index = 1]
             /\ basis' = [i \in DOMAIN phases |-> "none"]
    /\ thread' = [thread EXCEPT ![t] = [Idle EXCEPT !.pc = "record", !.at = 1, !.step = 1]]
    /\ UNCHANGED <<observed, offered, overlap>>

-----------------------------------------------------------------------------
(* The gate: evaluate_remediation_progress.                                 *)

\* Work on the step's KCs, or on the content now recorded for it, by how many
\* observations ago it was.
Matching(doc, step) ==
    LET found == {i \in DOMAIN observed :
                    observed[i].about \in {step, doc.steps[step].content} \ {0}}
    IN  [i \in found |-> observed[i].work]

Latest(n, works) ==
    Restrict(works, {i \in DOMAIN works : Cardinality({j \in DOMAIN works : j < i}) < n})

\* Mutant: only the average counts, not whose work it was.
ShouldHoldByAverage(current, prior, matched) ==
    Average(Latest(3, matched)) < (IF prior = "bridge" THEN 68 ELSE 64)

ShouldHold(current, prior, matched) ==
    LET scored == Latest(3, matched)
        average == Average(scored)
        informed == Some(LAMBDA o : Strength(o) # "insufficient", scored)
        demonstrated == Some(LAMBDA o : Strength(o) = "demonstrated", scored)
    IN  \/ Some(HighSupportSuccess, matched)
        \/ IF prior = "bridge"
           THEN ~(average >= 68 /\ Some(LowSupportSuccess, scored) /\ informed)
           ELSE IF current = "return"
           THEN ~(average >= 64 /\ Some(GuidedSuccess, scored) /\ informed)
           ELSE ~(average >= 60 /\ (Some(GuidedSuccess, scored) \/ demonstrated))

Gated(doc, i) == i > 1 /\ doc.steps[i].phase \in {"bridge", "return"}

ProgressDecision(doc) ==
    IF doc.index = 0 \/ ~Gated(doc, doc.index) THEN "advance"
    ELSE LET prior == doc.steps[doc.index - 1].phase
             matched == Matching(doc, doc.index - 1)
         IN  IF DOMAIN matched = {} \/ ~ShouldHold(doc.steps[doc.index].phase, prior, matched)
             THEN "advance"
             ELSE IF prior = "bridge" THEN "hold_bridge_target" ELSE "hold_repair_target"

\* For TransferRests: no work was seen; some of it was the learner's own and
\* none leaned on full support; or neither.  Work is the learner's own when it
\* was completed without full support.  Before the bridge, work without error
\* and with one hint at most is too.
Rests(doc) ==
    IF doc.index = 0 \/ ~Gated(doc, doc.index) THEN "unheard"
    ELSE LET matched == Matching(doc, doc.index - 1)
             leaning(o) == o.completed /\ o.support = "high" /\ o.hints > 1
             prompted(o) == doc.steps[doc.index].phase = "bridge" /\ o.errors = 0 /\ o.hints < 2
             own(o) == o.completed /\ (o.support # "high" \/ prompted(o))
         IN  IF DOMAIN matched = {} THEN "unheard"
             ELSE IF Some(own, matched) /\ ~Some(leaning, matched) THEN "rested"
             ELSE "unrested"

-----------------------------------------------------------------------------
(* advance_remediation_session                                              *)

\* The session and the observations are read and the gate is put to them.
Advance(t) ==
    /\ At(t, "idle") /\ row # NoRow
    /\ thread' = [thread EXCEPT ![t] =
         [Idle EXCEPT !.pc = "request", !.decision = ProgressDecision(row),
                      !.at = row.index, !.rests = Rests(row)]]
    /\ overlap' = (overlap \/ \E u \in Threads : ~At(u, "idle"))
    /\ UNCHANGED <<row, observed, offered, basis>>

\* The session is read again to ask for content: for the step that is current
\* by now, or for the step before the one the gate was in front of.  A session
\* that is complete is an error.
Request(t) ==
    LET me == thread[t] IN
    /\ At(t, "request")
    /\ thread' = [thread EXCEPT ![t] =
         IF me.decision # "advance" THEN [@ EXCEPT !.pc = "record", !.step = me.at - 1]
         ELSE IF row.index = 0 THEN Idle
         ELSE [@ EXCEPT !.pc = "record", !.step = row.index]]
    /\ UNCHANGED <<row, observed, offered, basis, overlap>>

\* Mutant: the decision of an earlier hold stays in the row.
CompletedKeeping(doc, content) ==
    LET i == doc.index IN
    [doc EXCEPT !.steps = [k \in DOMAIN @ |->
                    IF k = i THEN [@[k] EXCEPT !.status = "completed", !.content = content]
                    ELSE IF k = i + 1 THEN [@[k] EXCEPT !.status = "active"] ELSE @[k]],
                !.index = IF i < Len(doc.steps) THEN i + 1 ELSE 0,
                !.completed = Append(@, content)]

\* Mutant: the step the content was asked for is completed, current or not.
CompletedAsked(doc, content) ==
    LET i == content IN
    [doc EXCEPT !.steps = [k \in DOMAIN @ |->
                    IF k = i THEN [@[k] EXCEPT !.status = "completed", !.content = content]
                    ELSE IF k = i + 1 THEN [@[k] EXCEPT !.status = "active"] ELSE @[k]],
                !.index = IF i < Len(doc.steps) THEN i + 1 ELSE 0,
                !.completed = Append(@, content), !.decision = "advance"]

\* complete_current_step: whatever step is current now is completed.
Completed(doc, content) ==
    LET i == doc.index IN
    [doc EXCEPT !.steps = [k \in DOMAIN @ |->
                    IF k = i THEN [@[k] EXCEPT !.status = "completed", !.content = content]
                    ELSE IF k = i + 1 THEN [@[k] EXCEPT !.status = "active"] ELSE @[k]],
                !.index = IF i < Len(doc.steps) THEN i + 1 ELSE 0,
                !.completed = Append(@, content),
                !.decision = "advance"]

\* update_progression_decision: the step held on has new content.
Held(doc, step, decision) ==
    [doc EXCEPT !.steps[step].content = step, !.decision = decision]

\* The row is read once more to be changed; when it is complete by now, an
\* advance is an error.
RecordRead(t) ==
    LET me == thread[t] IN
    /\ At(t, "record")
    /\ thread' = [thread EXCEPT ![t] =
         IF me.decision # "advance"
         THEN [@ EXCEPT !.pc = "write", !.doc = Held(row, me.step, me.decision)]
         ELSE IF row.index = 0 THEN Idle
         ELSE [@ EXCEPT !.pc = "write", !.doc = Completed(row, me.step)]]
    /\ UNCHANGED <<row, observed, offered, basis, overlap>>

\* Steps of the written row that were not complete in the row read.
Passed(doc) ==
    {i \in DOMAIN doc.steps : doc.steps[i].status = "completed" /\ basis[i] = "none"}

RecordWrite(t) ==
    LET me == thread[t] IN
    /\ At(t, "write")
    /\ row' = me.doc
    /\ offered' = offered \cup {me.step}
    /\ basis' = [i \in DOMAIN basis |->
                   IF i \notin Passed(me.doc) THEN basis[i]
                   ELSE IF me.at = i THEN me.rests ELSE "skipped"]
    /\ thread' = [thread EXCEPT ![t] = Idle]
    /\ UNCHANGED <<observed, overlap>>

\* The generation raises, or the process dies.
Fail(t) ==
    /\ ~At(t, "idle")
    /\ thread' = [thread EXCEPT ![t] = Idle]
    /\ UNCHANGED <<row, observed, offered, basis, overlap>>

\* The learner works on content they were given, or on something else.
Observe ==
    /\ \E work \in Work, about \in offered \cup {0} :
         observed' = Newest(Window, <<[work |-> work, about |-> about]>> \o observed)
    /\ UNCHANGED <<row, thread, offered, basis, overlap>>

Next ==
    \/ Observe
    \/ \E t \in Threads :
         \/ Trigger(t) \/ Advance(t) \/ Request(t) \/ RecordRead(t)
         \/ RecordWrite(t) \/ Fail(t)

Spec == Init /\ [][Next]_vars
=============================================================================
